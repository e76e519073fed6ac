--------------------------- MODULE RecoveryProofs ---------------------------
(***************************************************************************)
(* The asset's price recovers: once nothing failed, was late or moved for  *)
(* the band's memory and two cycles, the last run captured the market and  *)
(* priced every pool by it.  The invariant follows the undisturbed runs:   *)
(* the first one captures the reserves, the later ones keep them fresh,    *)
(* and the first one past the band's memory takes their price.             *)
(***************************************************************************)
EXTENDS StatusProofs

\* The last run began after the last disturbance, and long enough after it for the band
\* to have forgotten every price from before.
Clean   == lastRun # NoTime /\ lastRun > calm
Settled == Clean /\ lastRun > calm + Cadence + BandMemory /\ level >= BandMin /\ level <= BandMax

\* Every cycle since the last disturbance had its run, or is just due.
Attended ==
  /\ lastRun # NoTime => lastRun % Cadence = 0
  /\ \A t \in calm + 1 .. now : t % Cadence = 0 =>
       (lastRun # NoTime /\ lastRun >= t) \/ (t = now /\ ~Running)

\* The steps before the pools take no time.
Prompt == run.stage \in 1..8 => now = run.at

\* The run works on active pools alone, so only those have reserves.
ActiveOnly ==
  /\ \A i \in {9, 10} : /\ run.found[Stages[i].venue] \subseteq mix.pools[Stages[i].venue]
                        /\ run.stage = i => run.todo \subseteq mix.pools[Stages[i].venue]
  /\ \A p \in Pools : reserves[p].at # Absent => p \in AmmPools

\* A price is the market's, or was written no later than the first cycle after the last
\* disturbance.
OldPrice == price.at # Absent => price.at <= calm + Cadence \/ price.price = level

\* The reference prices of the last run are written; the pool's script of that run is over.
PricesDone == run.stage = 0 \/ run.stage > 6 \/ (run.stage = 6 /\ run.todo = {})
Passed(p)  ==
  \/ run.stage = 0
  \/ \E i \in {9, 10} : /\ p \in mix.pools[Stages[i].venue]
                        /\ run.stage > i \/ (run.stage = i /\ p \notin run.todo)

Captured(p, since) == reserves[p].at # Absent /\ reserves[p].at >= since /\ reserves[p].level = level

\* What the last run has done, when nothing disturbed it.
RunClean ==
  Clean =>
    /\ \A i \in 1..5 : i < run.stage => run.found[Stages[i].venue] = mix.pools[Stages[i].venue]
    /\ PricesDone => dollar # Absent /\ dollar >= lastRun
    /\ child.pc \notin {"idle", "state"} => child.level = level
    /\ child.pc \in {"metrics", "done"} => Captured(child.pool, lastRun)
    /\ \A p \in AmmPools : Passed(p) => Captured(p, lastRun)

\* What the run before it left.
RunBefore ==
  Clean /\ lastRun - Cadence > calm => \A p \in AmmPools : Captured(p, lastRun - Cadence)

PriceTaken ==
  Settled =>
    /\ PricesDone /\ AmmPools # {} => price.price = level /\ price.at # Absent /\ price.at >= lastRun
    /\ child.pc = "done" => metrics[child.pool].tvl = 2 * level
    /\ \A p \in AmmPools : Passed(p) => metrics[p].tvl = 2 * level

RecoveryInv == Attended /\ Prompt /\ ActiveOnly /\ OldPrice /\ RunClean /\ RunBefore /\ PriceTaken

-----------------------------------------------------------------------------
(* Facts about the stages, the times and the steps.                        *)

LEMMA StagePlaces ==
  /\ \A i \in 1..15 : /\ (Stages[i].kind = "discover") = (i \in 1..5)
                      /\ (Stages[i].kind = "prices") = (i = 6)
                      /\ (Stages[i].kind = "pools") = (i \in {9, 10})
  /\ Stages[1].venue = "soroswap" /\ Stages[3].venue = "aquarius"
  /\ Stages[9].venue = "soroswap" /\ Stages[10].venue = "aquarius"
  /\ \A found : /\ Items(6, found) = {"one"}
                /\ \A i \in {9, 10} : Items(i, found) = found[Stages[i].venue]
  <1>1. ASSUME NEW i \in 1..15
        PROVE  /\ (Stages[i].kind = "discover") = (i \in 1..5)
               /\ (Stages[i].kind = "prices") = (i = 6)
               /\ (Stages[i].kind = "pools") = (i \in {9, 10})
    <2>1. \/ i = 1 \/ i = 2 \/ i = 3 \/ i = 4 \/ i = 5 \/ i = 6 \/ i = 7 \/ i = 8
          \/ i = 9 \/ i = 10 \/ i = 11 \/ i = 12 \/ i = 13 \/ i = 14 \/ i = 15
      OBVIOUS
    <2> QED BY <2>1 DEF Stages, Stage
  <1>2. /\ Stages[1].venue = "soroswap" /\ Stages[3].venue = "aquarius"
        /\ Stages[9].venue = "soroswap" /\ Stages[10].venue = "aquarius"
        /\ Stages[6].venue = "one"
    BY DEF Stages, Stage
  <1>3. ASSUME NEW found
        PROVE  /\ Items(6, found) = {"one"}
               /\ \A i \in {9, 10} : Items(i, found) = found[Stages[i].venue]
    BY <1>1, <1>2, StageTable DEF Items
  <1> QED BY <1>1, <1>2, <1>3

\* The types the arguments below need.
Clocks ==
  /\ now \in Nat /\ level \in Nat /\ calm \in 0..now /\ lastRun \in 0..now \union {NoTime}
  /\ dollar \in 0..now \union {Absent} /\ price.at \in 0..now \union {Absent} /\ price.price \in Nat
  /\ \A p \in Pools : reserves[p].at \in 0..now \union {Absent} /\ reserves[p].level \in Nat
  /\ DOMAIN reserves = Pools /\ DOMAIN metrics = Pools
  /\ AmmPools \subseteq Pools
  /\ run.stage \in 0..16 /\ (InSteps <=> run.stage \in 1..15)
  /\ (run.stage # 0 => run.at = lastRun /\ lastRun # NoTime)
  /\ (child.pc # "idle" => run.stage \in {9, 10} /\ child.pool = Item /\ run.todo # {})
  /\ (child.pc # "idle" => child.pool \in Pools)

LEMMA Numbers ==
  /\ Cadence \in Nat \ {0} /\ NoTime \notin Nat /\ Absent \notin Nat
  /\ BandMemory \in Nat /\ BandMin \in Nat /\ BandMax \in Nat /\ MaxMove \in Nat
  /\ ReservesMaxAge \in Nat /\ PriceMaxAge \in Nat
  BY StatusAssumption, PriceAssumption

LEMMA ClocksHold == IInv /\ RunsApart => Clocks
  <1> SUFFICES ASSUME IInv, RunsApart PROVE Clocks
    OBVIOUS
  <1>1. /\ now \in Nat /\ level \in Nat /\ calm \in 0..now /\ lastRun \in 0..now \union {NoTime}
        /\ dollar \in 0..now \union {Absent} /\ price.at \in 0..now \union {Absent}
        /\ price.price \in Nat
    BY DEF IInv, PoolInv, PoolType, JobInv, JobType, RunsApart, Times
  <1>2. /\ reserves \in [Pools -> [level : Nat, at : Times]] /\ DOMAIN metrics = Pools
    BY DEF IInv, PoolInv, PoolType
  <1>3. \A p \in Pools : reserves[p].at \in 0..now \union {Absent} /\ reserves[p].level \in Nat
    BY <1>2 DEF Times
  <1>4. AmmPools \subseteq Pools
    BY PipelineAssumption DEF AmmPools, IInv, JobInv, JobType
  <1>5. /\ run.stage \in 0..16 /\ (InSteps <=> run.stage \in 1..15)
        /\ (run.stage # 0 => run.at = lastRun /\ lastRun # NoTime)
    <2>1. run.stage \in 0..16 /\ (InSteps <=> run.stage \in 1..15)
      BY RunFields DEF IInv, JobInv
    <2>2. run.stage # 0 => run.at \in 0..now /\ run.at = lastRun
      BY DEF IInv, JobInv, JobType, Running, RunsApart
    <2> QED BY <1>1, <2>1, <2>2, Numbers
  <1>6. child.pc # "idle" => run.stage \in {9, 10} /\ child.pool = Item /\ run.todo # {}
    <2> SUFFICES ASSUME child.pc # "idle"
                 PROVE  run.stage \in {9, 10} /\ child.pool = Item /\ run.todo # {}
      OBVIOUS
    <2>1. Working("pools") /\ child.pool = Item
      BY DEF IInv, OneScript, Idle
    <2> QED BY <1>5, <2>1, StagePlaces DEF Working, Now
  <1>7. child.pc # "idle" => child.pool \in Pools
    BY ChildFields DEF IInv
  <1> QED BY <1>1, <1>2, <1>3, <1>4, <1>5, <1>6, <1>7 DEF Clocks

LEMMA ClocksHoldNext == IInv' /\ RunsApart' => Clocks'
  BY ClocksHold, PTL

\* The pools, by the stages that refresh them.
LEMMA ActivePools == AmmPools = mix.pools[Stages[9].venue] \union mix.pools[Stages[10].venue]
  BY StagePlaces DEF AmmPools

LEMMA PassedIn ==
  ASSUME Clocks, NEW p \in AmmPools, run.stage = 0 \/ run.stage > 10
  PROVE  Passed(p)
  BY ActivePools DEF Passed, Clocks

\* After a disturbance the run at work owes nothing.
LEMMA Disturbed ==
  ASSUME Clocks', calm' = now'
  PROVE  OldPrice' /\ RunClean' /\ RunBefore' /\ PriceTaken'
  <1>1. ~Clean'
    BY DEF Clean, Clocks
  <1>2. OldPrice'
    BY Numbers DEF OldPrice, Clocks
  <1> QED BY <1>1, <1>2 DEF RunClean, RunBefore, PriceTaken, Settled

\* A step that stores nothing and changes neither the run nor the market's price, or goes
\* on to what is yet to be done.
LEMMA Carried ==
  ASSUME RunClean, RunBefore, PriceTaken, Clocks,
         UNCHANGED <<level, calm, lastRun, mix, reserves, dollar, price, metrics>>,
         Clean => \A i \in 1..5 : i < run'.stage => run'.found[Stages[i].venue] = mix.pools[Stages[i].venue],
         PricesDone' => PricesDone,
         \A p \in AmmPools : Clean /\ Passed(p)' => Passed(p) \/ (child.pc = "done" /\ p = child.pool),
         Clean => (child'.pc \notin {"idle", "state"} => child'.level = level),
         child'.pc \in {"metrics", "done"} => child'.pc = child.pc /\ child'.pool = child.pool
  PROVE  RunClean' /\ RunBefore' /\ PriceTaken'
  <1>1. Clean' = Clean /\ Settled' = Settled /\ AmmPools' = AmmPools
    BY DEF Clean, Settled, AmmPools
  <1>2. \A p, since : Captured(p, since)' = Captured(p, since)
    BY DEF Captured
  <1>3. RunClean'
    <2> SUFFICES ASSUME Clean
                 PROVE  /\ \A i \in 1..5 : i < run'.stage => run'.found[Stages[i].venue] = mix'.pools[Stages[i].venue]
                        /\ PricesDone' => dollar' # Absent /\ dollar' >= lastRun'
                        /\ child'.pc \notin {"idle", "state"} => child'.level = level'
                        /\ child'.pc \in {"metrics", "done"} => Captured(child.pool, lastRun)
                        /\ \A p \in AmmPools : Passed(p)' => Captured(p, lastRun)
      BY <1>1 DEF RunClean, Captured
    <2>1. child'.pc \in {"metrics", "done"} => Captured(child.pool, lastRun)
      BY DEF RunClean
    <2>2. \A p \in AmmPools : Passed(p)' => Captured(p, lastRun)
      BY DEF RunClean
    <2> QED BY <2>1, <2>2 DEF RunClean
  <1>4. RunBefore'
    BY <1>1 DEF RunBefore, Captured
  <1>5. PriceTaken'
    <2> SUFFICES ASSUME Settled
                 PROVE  /\ PricesDone' /\ AmmPools # {} => price.price = level /\ price.at # Absent /\ price.at >= lastRun
                        /\ child'.pc = "done" => metrics[child'.pool].tvl = 2 * level
                        /\ \A p \in AmmPools : Passed(p)' => metrics[p].tvl = 2 * level
      BY <1>1 DEF PriceTaken
    <2> QED BY DEF PriceTaken, Settled
  <1> QED BY <1>3, <1>4, <1>5

-----------------------------------------------------------------------------
(* How the run moves.                                                      *)

\* The job enters its next stage.
LEMMA StageLeft ==
  ASSUME IInv, InSteps, NEW found, NEW results, Enter(run.stage + 1, found, results)
  PROVE  /\ run'.stage = run.stage + 1 /\ run'.at = run.at /\ run'.found = found
         /\ run'.todo = Items(run.stage + 1, found)
  <1>1. run' = [stage |-> run.stage + 1, at |-> run.at, found |-> found,
                todo |-> Items(run.stage + 1, found), attempt |-> 1, bad |-> FALSE,
                results |-> results]
    BY RunFields DEF Enter, IInv, JobInv
  <1> QED BY <1>1

\* An item of a stage ends.
LEMMA ItemLeft ==
  ASSUME IInv, InSteps, NEW ok \in BOOLEAN, Ends(ok)
  PROVE  /\ run'.stage = run.stage /\ run'.at = run.at /\ run'.found = run.found
         /\ run'.todo \subseteq run.todo
         /\ ok => run'.todo = run.todo \ {Item} /\ Well
         /\ ~ok => Fault
  <1>1. /\ run = [stage |-> run.stage, at |-> run.at, found |-> run.found,
                  todo |-> run.todo, attempt |-> run.attempt, bad |-> run.bad,
                  results |-> run.results]
    BY RunFields DEF IInv, JobInv
  <1>2. ASSUME NEW b, run' = NextItem(b)
        PROVE  /\ run'.stage = run.stage /\ run'.at = run.at /\ run'.found = run.found
               /\ run'.todo = run.todo \ {Item}
    BY <1>1, <1>2 DEF NextItem
  <1>3. ASSUME run' = [run EXCEPT !.attempt = @ + 1]
        PROVE  /\ run'.stage = run.stage /\ run'.at = run.at /\ run'.found = run.found
               /\ run'.todo = run.todo
    BY <1>1, <1>3
  <1>4. CASE ok
    BY <1>2, <1>4 DEF Ends
  <1>5. CASE ~ok
    BY <1>2, <1>3, <1>5 DEF Ends, AttemptFailed
  <1> QED BY <1>4, <1>5

FoundNext ==
  \/ run'.found = run.found
  \/ run.stage \in 1..5 /\ run'.found = [run.found EXCEPT ![Stages[run.stage].venue] = mix.pools[Stages[run.stage].venue]]

\* The run stays at its stage, goes on to the next, or is over.
RunMoves ==
  \/ run' = run
  \/ run' = NoRun
  \/ /\ run.stage \in 1..15 /\ run'.stage = run.stage /\ run'.at = run.at
     /\ run'.found = run.found /\ run'.todo \subseteq run.todo
  \/ /\ run.stage \in 1..15 /\ run'.stage = run.stage + 1 /\ run'.at = run.at
     /\ FoundNext /\ run'.todo = Items(run'.stage, run'.found)

\* Every step but a start and the clock is a step of the run at work, or of nobody.
LEMMA StepOfRun ==
  ASSUME IInv, Clocks, [Next]_vars, ~Start, ~Tick
  PROVE  /\ UNCHANGED <<now, level, mix, lastRun>> /\ RunMoves
         /\ calm' \in {calm, now}
         /\ UNCHANGED vars \/ Running
  <1>1. CASE Discover
    <2>1. UNCHANGED <<now, level, mix, lastRun>> /\ calm' \in {calm, now} /\ InSteps
      BY <1>1 DEF Discover, poolVars, Well, Fault
    <2>2. run.stage \in 1..5 /\ Now = Stages[run.stage] /\ Running
      BY <1>1, <2>1, StagePlaces DEF Discover, Clocks, Now, Running
    <2>3. PICK found, results : /\ Enter(run.stage + 1, found, results)
                                /\ found \in {run.found, [run.found EXCEPT ![Now.venue] = mix.pools[Now.venue]]}
      BY <1>1 DEF Discover
    <2>4. /\ run'.stage = run.stage + 1 /\ run'.at = run.at /\ run'.found = found
          /\ run'.todo = Items(run.stage + 1, found)
      BY <2>1, <2>3, StageLeft
    <2> QED BY <2>1, <2>2, <2>3, <2>4 DEF RunMoves, FoundNext
  <1>2. CASE StepOver
    <2>1. /\ UNCHANGED <<now, level, mix, lastRun, calm>> /\ InSteps
          /\ Enter(run.stage + 1, run.found, Append(run.results, Outcome(Now.name, ~run.bad)))
      BY <1>2 DEF StepOver, poolVars
    <2>2. run.stage \in 1..15 /\ Running
      BY <2>1 DEF Clocks, Running
    <2>3. /\ run'.stage = run.stage + 1 /\ run'.at = run.at /\ run'.found = run.found
          /\ run'.todo = Items(run.stage + 1, run.found)
      BY <2>1, StageLeft
    <2> QED BY <2>1, <2>2, <2>3 DEF RunMoves, FoundNext
  <1>3. CASE OtherScript \/ ReferencePrices \/ Rollup \/ PoolDone \/ PoolFails
    <2>1. PICK ok \in BOOLEAN : Ends(ok)
      BY <1>3 DEF OtherScript, ReferencePrices, Rollup, PoolDone, PoolFails
    <2>2. UNCHANGED <<now, level, mix, lastRun>>
      BY <1>3 DEF OtherScript, ReferencePrices, Rollup, PoolDone, PoolFails, poolVars, market
    <2>3. InSteps /\ run.stage \in 1..15 /\ Running
      <3>1. InSteps \/ child.pc # "idle"
        BY <1>3 DEF OtherScript, ReferencePrices, Rollup, PoolDone, PoolFails, Working
      <3>2. run.stage \in 1..15
        BY <3>1 DEF Clocks
      <3> QED BY <3>2 DEF Clocks, Running
    <2>4. calm' \in {calm, now}
      BY <2>1 DEF Ends, Well, Fault
    <2> QED BY <2>1, <2>2, <2>3, <2>4, ItemLeft DEF RunMoves
  <1>4. CASE StartPool \/ PoolStep
    <2>1. UNCHANGED <<now, level, mix, lastRun, run, calm>>
      BY <1>4 DEF StartPool, PoolStep, Script, Well, jobVars, market
    <2>2. Running
      <3>1. CASE StartPool
        BY <3>1 DEF StartPool, Working, Clocks, Running
      <3>2. CASE PoolStep
        <4>1. child.pc # "idle"
          BY <3>2 DEF PoolStep, Script, ReadState, ReadLedger, ReadPage, StoreEvent, EventsStored,
                      StoreReserves, StoreMetrics
        <4> QED BY <4>1 DEF Clocks, Running
      <3> QED BY <1>4, <3>1, <3>2
    <2> QED BY <2>1, <2>2 DEF RunMoves
  <1>5. CASE Persist
    <2>1. UNCHANGED <<now, level, mix, lastRun>> /\ run' = NoRun /\ run.stage = 16 /\ calm' \in {calm, now}
      BY <1>5, StageTable DEF Persist, poolVars, Well, Fault
    <2> QED BY <2>1 DEF RunMoves, Running
  <1>6. CASE Kill
    BY <1>6 DEF Kill, market, RunMoves, Fault, Running
  <1>7. CASE UNCHANGED vars
    BY <1>7 DEF vars, poolVars, RunMoves
  <1> QED BY <1>1, <1>2, <1>3, <1>4, <1>5, <1>6, <1>7 DEF Next

-----------------------------------------------------------------------------
(* The clock of the run.                                                   *)

LEMMA AttendedNext ==
  ASSUME IInv, Clocks, Clocks', Attended, [Next]_vars
  PROVE  Attended'
  <1>1. CASE Start
    <2>1. /\ now' = now /\ calm' = calm /\ lastRun' = now /\ now % Cadence = 0
      BY <1>1 DEF Start, Due, poolVars
    <2> QED BY <2>1, Numbers DEF Attended, Clocks
  <1>2. CASE Tick
    <2>1. /\ now' = now + 1 /\ lastRun' = lastRun /\ run' = run /\ calm' \in {calm, now + 1}
          /\ Late => calm' = now + 1
      BY <1>2 DEF Tick, Close, jobVars
    <2>2. ASSUME NEW t \in calm' + 1 .. now', t % Cadence = 0
          PROVE  (lastRun # NoTime /\ lastRun >= t) \/ (t = now' /\ ~Running)
      <3>1. calm' = calm /\ ~Late /\ t \in calm + 1 .. now + 1
        <4>1. ASSUME calm' = now + 1 PROVE FALSE
          <5>1. t \in (now + 1) + 1 .. now + 1 /\ now \in Nat
            BY <2>1, <2>2, <4>1 DEF Clocks
          <5> QED BY ONLY <5>1
        <4> QED BY <2>1, <2>2, <4>1
      <3>2. CASE t = now + 1
        BY <2>1, <2>2, <3>1, <3>2 DEF Late
      <3>3. CASE t # now + 1
        <4>1. t \in calm + 1 .. now
          BY <3>1, <3>3 DEF Clocks
        <4>2. (lastRun # NoTime /\ lastRun >= t) \/ (t = now /\ ~Running)
          BY <2>2, <4>1 DEF Attended
        <4>3. t = now /\ ~Running => lastRun = now
          BY <2>2, <3>1 DEF Late, Due
        <4> QED BY <4>2, <4>3, Numbers DEF Clocks
      <3> QED BY <3>2, <3>3
    <2> QED BY <2>1, <2>2 DEF Attended, Running
  <1>3. CASE ~Start /\ ~Tick
    <2>1. UNCHANGED <<now, lastRun>> /\ calm' \in {calm, now} /\ (UNCHANGED vars \/ Running)
      BY <1>3, StepOfRun
    <2>2. Running' => Running
      BY <2>1 DEF vars, Running
    <2>3. CASE calm' = calm
      BY <2>1, <2>2, <2>3 DEF Attended
    <2>4. CASE calm' = now
      BY <2>1, <2>4 DEF Attended, Clocks
    <2> QED BY <2>1, <2>3, <2>4
  <1> QED BY <1>1, <1>2, <1>3

LEMMA PromptNext ==
  ASSUME IInv, Clocks, Prompt, [Next]_vars
  PROVE  Prompt'
  <1>1. CASE Start
    BY <1>1 DEF Start, NoRun, poolVars, Prompt
  <1>2. CASE Tick
    <2>1. run' = run /\ (Running => child.pc \in {"state", "page"})
      BY <1>2 DEF Tick, jobVars
    <2>2. run.stage \in 1..8 => FALSE
      BY <2>1 DEF Clocks, Running
    <2> QED BY <2>1, <2>2 DEF Prompt
  <1>3. CASE ~Start /\ ~Tick
    <2>1. now' = now /\ RunMoves
      BY <1>3, StepOfRun
    <2>2. ASSUME run'.stage \in 1..8 PROVE run.stage \in 1..8 /\ run'.at = run.at
      <3>1. run' # NoRun
        BY <2>2 DEF NoRun
      <3>2. run.stage \in 0..16 /\ run'.stage \in {run.stage, run.stage + 1} /\ run'.at = run.at
        BY <2>1, <3>1 DEF RunMoves, Clocks
      <3>3. run.stage # 0
        BY <2>1, <2>2, <3>1 DEF RunMoves
      <3> QED BY <2>2, <3>2, <3>3
    <2> QED BY <2>1, <2>2 DEF Prompt
  <1> QED BY <1>1, <1>2, <1>3

LEMMA ActiveOnlyNext ==
  ASSUME IInv, Clocks, ActiveOnly, [Next]_vars
  PROVE  ActiveOnly'
  <1>1. ASSUME UNCHANGED mix, FoundNext, NEW i \in {9, 10}
        PROVE  run'.found[Stages[i].venue] \subseteq mix'.pools[Stages[i].venue]
    <2>1. run.found \in [Venues -> SUBSET Entities] /\ Stages[i].venue \in Venues
      BY RunFields, StagePlaces DEF IInv, JobInv, Venues
    <2> QED BY <1>1, <2>1 DEF FoundNext, ActiveOnly
  <1>2. ASSUME NEW i \in {9, 10}
        PROVE  /\ run'.found[Stages[i].venue] \subseteq mix'.pools[Stages[i].venue]
               /\ run'.stage = i => run'.todo \subseteq mix'.pools[Stages[i].venue]
    <2>1. CASE Start
      <3>1. run'.stage = 1 /\ run'.found = [v \in Venues |-> {}] /\ mix' = mix
        BY <2>1 DEF Start, NoRun
      <3>2. Stages[i].venue \in Venues
        BY StagePlaces DEF Venues
      <3> QED BY <3>1, <3>2
    <2>2. CASE Tick
      BY <2>2 DEF Tick, jobVars, ActiveOnly
    <2>3. CASE ~Start /\ ~Tick
      <3>1. mix' = mix /\ RunMoves
        BY <2>3, StepOfRun
      <3>2. CASE run' = run
        BY <3>1, <3>2 DEF ActiveOnly
      <3>3. CASE run' = NoRun
        <4>1. Stages[i].venue \in Venues
          BY StagePlaces DEF Venues
        <4> QED BY <3>3, <4>1 DEF NoRun
      <3>4. CASE run'.stage = run.stage /\ run'.found = run.found /\ run'.todo \subseteq run.todo
        BY <3>1, <3>4 DEF ActiveOnly
      <3>5. CASE FoundNext /\ run'.todo = Items(run'.stage, run'.found)
        BY <1>1, <3>1, <3>5, StagePlaces
      <3> QED BY <3>1, <3>2, <3>3, <3>4, <3>5 DEF RunMoves
    <2> QED BY <2>1, <2>2, <2>3
  <1>3. ASSUME NEW p \in Pools, reserves'[p].at # Absent
        PROVE  p \in AmmPools'
    <2>1. mix' = mix /\ AmmPools' = AmmPools
      <3>1. mix' = mix
        BY DEF Next, Start, Discover, OtherScript, ReferencePrices, StartPool, PoolStep, PoolDone,
               PoolFails, Rollup, StepOver, Persist, Kill, Tick, vars
      <3> QED BY <3>1 DEF AmmPools
    <2>2. CASE reserves'[p] = reserves[p]
      BY <1>3, <2>1, <2>2 DEF ActiveOnly
    <2>3. CASE reserves'[p] # reserves[p]
      <3>1. StoreReserves
        BY <2>3 DEF Next, Start, Discover, OtherScript, ReferencePrices, StartPool, PoolStep, PoolDone,
             PoolFails, Rollup, StepOver, Persist, Kill, Tick, Script, Close, vars, poolVars, pooldb
      <3>2. child.pc # "idle" /\ p = child.pool
        <4>1. reserves' = [reserves EXCEPT ![child.pool] = [level |-> child.level, at |-> now]]
          BY <3>1 DEF StoreReserves
        <4>2. child.pc # "idle"
          BY <3>1 DEF StoreReserves
        <4> QED BY <2>3, <4>1, <4>2 DEF Clocks
      <3>3. run.stage \in {9, 10} /\ p \in run.todo
        BY <3>2 DEF Clocks, Item
      <3> QED BY <2>1, <3>3, ActivePools DEF ActiveOnly
    <2> QED BY <2>2, <2>3
  <1> QED BY <1>2, <1>3 DEF ActiveOnly

-----------------------------------------------------------------------------
(* The price.                                                              *)

\* What the recovery needs of the constants: the reserves of one cycle still count at the
\* next one and a price lives for a cycle (15 minutes against 60 and 45), and nothing
\* worthless is in the band.
Fitting == Cadence <= ReservesMaxAge /\ Cadence < PriceMaxAge /\ BandMin > 0

LEMMA Deepest ==
  ASSUME NEW S \in SUBSET Pools, S # {}
  PROVE  \E x \in S : \A y \in S : Depth[x] >= Depth[y]
  <1> DEFINE G == {U \in SUBSET Pools : U # {} => \E x \in U : \A y \in U : Depth[x] >= Depth[y]}
  <1>0. IsFiniteSet(Pools) /\ \A p \in Pools : Depth[p] \in Nat
    BY PoolAssumption
  <1>1. ASSUME NEW U \in SUBSET Pools, \A V \in SUBSET U : V # U => V \in G
        PROVE  U \in G
    <2> SUFFICES ASSUME U # {} PROVE \E x \in U : \A y \in U : Depth[x] >= Depth[y]
      OBVIOUS
    <2>1. PICK z \in U : TRUE
      OBVIOUS
    <2>2. U \ {z} \in G
      BY <1>1, <2>1
    <2>3. CASE U \ {z} = {}
      <3>1. \A y \in U : Depth[z] >= Depth[y]
        BY <1>0, <2>1, <2>3
      <3> QED BY <2>1, <3>1
    <2>4. CASE U \ {z} # {}
      <3>1. PICK x \in U \ {z} : \A y \in U \ {z} : Depth[x] >= Depth[y]
        BY <2>2, <2>4
      <3>2. CASE Depth[x] >= Depth[z]
        BY <3>1, <3>2
      <3>3. CASE ~(Depth[x] >= Depth[z])
        <4>1. \A y \in U : Depth[z] >= Depth[y]
          BY <1>0, <2>1, <3>1, <3>3
        <4> QED BY <2>1, <4>1
      <3> QED BY <3>2, <3>3
    <2> QED BY <2>3, <2>4
  <1> HIDE DEF G
  <1>2. \A U \in SUBSET Pools : U \in G
    BY <1>0, <1>1, SubsetInduction
  <1>3. S \in G
    BY <1>2
  <1> QED BY <1>3 DEF G

\* The reserves of the last cycle qualify.
LEMMA PriceFound ==
  ASSUME Clocks, NEW since \in Int, now - since <= ReservesMaxAge, level > 0,
         NEW p \in AmmPools, Captured(p, since)
  PROVE  Best(reserves, now) # {}
  <1> DEFINE S == {q \in Pools : Qualifies(reserves[q], now)}
  <1>1. p \in Pools
    BY DEF Clocks
  <1>2. Qualifies(reserves[p], now)
    <2>1. /\ reserves[p].at # Absent /\ reserves[p].at >= since /\ reserves[p].level = level
          /\ reserves[p].at \in 0..now \union {Absent} /\ now \in Nat
      BY <1>1 DEF Captured, Clocks
    <2>2. now - reserves[p].at <= ReservesMaxAge
      BY <2>1, Numbers
    <2> QED BY <2>1, <2>2 DEF Qualifies
  <1>3. PICK x \in S : \A y \in S : Depth[x] >= Depth[y]
    BY <1>1, <1>2, Deepest
  <1>4. x \in Best(reserves, now)
    BY <1>3 DEF Best, Clocks
  <1> QED BY <1>4

\* A price that is taken is that of an active pool, and so the market's.
LEMMA PriceOfActive ==
  ASSUME Clocks, ActiveOnly, \A p \in AmmPools : reserves[p].level = level,
         NEW p \in Best(reserves, now)
  PROVE  reserves[p].level = level
  <1>1. p \in Pools /\ reserves[p].at # Absent
    BY DEF Best, Qualifies, Clocks
  <1> QED BY <1>1 DEF ActiveOnly

\* A run that resolves the price a cycle after the last disturbance takes the market's or
\* leaves the price alone, and takes it for sure once the band has forgotten.
LEMMA PriceResolved ==
  ASSUME Fitting, Clocks, ActiveOnly, OldPrice, RunBefore, Clean, now = lastRun,
         price' \in Resolved(reserves, price, now), lastRun - Cadence > calm
  PROVE  /\ price' = price \/ price'.price = level
         /\ Settled /\ AmmPools # {} => price'.price = level /\ price'.at = now
  <1>1. \A p \in AmmPools : Captured(p, now - Cadence)
    BY DEF RunBefore
  <1>2. \A p \in Best(reserves, now) : reserves[p].level = level
    BY <1>1, PriceOfActive DEF Captured
  <1>3. CASE Best(reserves, now) = {}
    <2>1. price' = price
      BY <1>3 DEF Resolved
    <2>2. ~(Settled /\ AmmPools # {})
      <3> SUFFICES ASSUME Settled, NEW p \in AmmPools PROVE FALSE
        OBVIOUS
      <3>1. /\ now - Cadence \in Int /\ now - (now - Cadence) <= ReservesMaxAge
            /\ level > 0
        BY Numbers DEF Clocks, Fitting, Settled
      <3> QED BY <1>1, <1>3, <3>1, PriceFound
    <2> QED BY <2>1, <2>2
  <1>4. CASE Best(reserves, now) # {}
    <2>1. PICK p \in Best(reserves, now) :
            price' = IF InBand(reserves[p].level, price, now)
                     THEN [price |-> reserves[p].level, at |-> now, from |-> reserves[p].at]
                     ELSE price
      BY <1>4 DEF Resolved
    <2>2. reserves[p].level = level
      BY <1>2
    <2>3. ASSUME Settled PROVE InBand(level, price, now)
      <3>1. level >= BandMin /\ level <= BandMax /\ now > (calm + Cadence) + BandMemory
        BY <2>3 DEF Settled
      <3>2. ASSUME price.at # Absent, now - price.at <= BandMemory PROVE ~Moved(level, price.price)
        <4>1. price.at \in 0..now
          BY <3>2 DEF Clocks
        <4>2. ~(price.at <= calm + Cadence)
          BY <3>1, <3>2, <4>1, Numbers DEF Clocks
        <4>3. price.price = level
          BY <3>2, <4>2 DEF OldPrice
        <4> QED BY <4>3, Numbers DEF Moved, Clocks
      <3> QED BY <3>1, <3>2 DEF InBand
    <2> QED BY <2>1, <2>2, <2>3
  <1> QED BY <1>3, <1>4

\* What the price may become.
LEMMA PriceStep ==
  ASSUME IInv, Clocks, [Next]_vars
  PROVE  \/ price' = price
         \/ ReferencePrices /\ price' \in Resolved(reserves, price, now)
  BY DEF Next, Start, Discover, OtherScript, ReferencePrices, StartPool, PoolStep, PoolDone,
         PoolFails, Rollup, StepOver, Persist, Kill, Tick, Script, Close, vars, poolVars, prices

\* The prices are written as the run begins.
LEMMA PricesAtOnce ==
  ASSUME IInv, Clocks, Prompt, ReferencePrices
  PROVE  run.stage = 6 /\ now = lastRun /\ lastRun # NoTime /\ run.todo # {}
  <1>1. InSteps /\ Now.kind = "prices" /\ run.todo # {}
    BY DEF ReferencePrices, Working
  <1>2. run.stage = 6
    BY <1>1, StagePlaces DEF Clocks, Now
  <1> QED BY <1>1, <1>2 DEF Prompt, Clocks

LEMMA OldPriceNext ==
  ASSUME Fitting, IInv, Clocks, Clocks', RecoveryInv, [Next]_vars
  PROVE  OldPrice'
  <1> USE DEF RecoveryInv
  <1>1. CASE calm' = now'
    BY <1>1, Disturbed
  <1>2. CASE calm' # now'
    <2>1. calm' = calm /\ level' = level
      <3>1. CASE Start
        BY <3>1 DEF Start, poolVars
      <3>2. CASE Tick
        BY <1>2, <3>2 DEF Tick, Close
      <3>3. CASE ~Start /\ ~Tick
        BY <1>2, <3>3, StepOfRun
      <3> QED BY <3>1, <3>2, <3>3
    <2>2. CASE price' = price
      BY <2>1, <2>2 DEF OldPrice
    <2>3. CASE ReferencePrices /\ price' \in Resolved(reserves, price, now) /\ price' # price
      <3>1. now = lastRun /\ lastRun # NoTime
        BY <2>3, PricesAtOnce
      <3>2. CASE now > calm + Cadence
        <4>1. Clean /\ lastRun - Cadence > calm
          BY <3>1, <3>2, Numbers DEF Clean, Clocks
        <4>2. price'.price = level
          BY <2>3, <3>1, <4>1, PriceResolved
        <4> QED BY <2>1, <4>2 DEF OldPrice
      <3>3. CASE ~(now > calm + Cadence)
        <4>1. price'.at = now
          BY <2>3 DEF Resolved
        <4> QED BY <2>1, <3>3, <4>1, Numbers DEF OldPrice, Clocks
      <3> QED BY <3>2, <3>3
    <2> QED BY <2>2, <2>3, PriceStep
  <1> QED BY <1>1, <1>2

-----------------------------------------------------------------------------
(* The undisturbed run, step by step.                                      *)

RunInv == RunClean /\ RunBefore /\ PriceTaken

\* While a stage without scripts of pools is at work, none is running.
LEMMA NoScript ==
  ASSUME Clocks, run.stage \notin {9, 10} \/ run.todo = {}
  PROVE  child.pc = "idle"
  BY DEF Clocks

\* A run that starts finds what the run of the cycle before it left.
LEMMA RunStart ==
  ASSUME IInv, Clocks, Attended, RunInv, Start
  PROVE  RunInv'
  <1>1. /\ now' = now /\ lastRun' = now /\ now % Cadence = 0 /\ lastRun # now
        /\ run.stage = 0 /\ run'.stage = 1
        /\ UNCHANGED <<level, mix, child, reserves, calm>>
    BY DEF Start, Due, NoRun, poolVars, Running
  <1>2. child'.pc = "idle"
    BY <1>1, NoScript
  <1>3. ~PricesDone' /\ \A p : ~Passed(p)'
    BY <1>1 DEF PricesDone, Passed
  <1>4. RunClean' /\ PriceTaken'
    BY <1>1, <1>2, <1>3 DEF RunClean, PriceTaken
  <1>5. RunBefore'
    <2> SUFFICES ASSUME now - Cadence > calm, NEW p \in AmmPools
                 PROVE  Captured(p, now - Cadence)
      BY <1>1 DEF RunBefore, Captured, AmmPools
    <2>1. (now - Cadence) % Cadence = 0 /\ now - Cadence \in Nat /\ now - Cadence # now
      <3>1. PICK k \in Int : now = Cycle(k)
        BY <1>1, CyclesAre DEF Clocks
      <3>2. k - 1 \in Int /\ 1 \in Int /\ (k - 1) + 1 = k
        OBVIOUS
      <3>3. Cycle(k) = Cycle(k - 1) + Cadence
        BY <3>2, CyclesOrdered
      <3>4. Cycle(k - 1) \in Int /\ Cycle(k - 1) % Cadence = 0
        BY <3>2, CyclesAre
      <3>5. now - Cadence = Cycle(k - 1)
        BY <3>1, <3>3, <3>4, Numbers
      <3>6. now - Cadence \in Nat /\ now - Cadence # now
        BY Numbers DEF Clocks
      <3> QED BY <3>4, <3>5, <3>6
    <2>2. now - Cadence \in calm + 1 .. now
      BY <2>1, Numbers DEF Clocks
    <2>3. lastRun # NoTime /\ lastRun >= now - Cadence
      BY <2>1, <2>2 DEF Attended
    <2>4. Clean
      BY <2>1, <2>3, Numbers DEF Clean, Clocks
    <2>5. Passed(p)
      BY <1>1 DEF Passed
    <2>6. Captured(p, lastRun) /\ p \in Pools
      BY <2>4, <2>5 DEF RunInv, RunClean, Clocks
    <2> QED BY <2>1, <2>3, <2>6, Numbers DEF Captured, Clocks
  <1> QED BY <1>4, <1>5 DEF RunInv

\* A discovery that succeeds finds its pools, before any price or pool.
LEMMA RunDiscover ==
  ASSUME IInv, Clocks, RunInv, Discover, calm' # now'
  PROVE  RunInv'
  <1>1. /\ UNCHANGED poolVars /\ UNCHANGED <<mix, lastRun>> /\ calm' = calm /\ InSteps
        /\ Enter(run.stage + 1, [run.found EXCEPT ![Now.venue] = mix.pools[Now.venue]], run.results)
    BY DEF Discover, Well, Fault, poolVars
  <1>2. /\ run.stage \in 1..5 /\ Now = Stages[run.stage]
    BY <1>1, StagePlaces DEF Discover, Clocks, Now
  <1>3. /\ run'.stage = run.stage + 1
        /\ run'.found = [run.found EXCEPT ![Stages[run.stage].venue] = mix.pools[Stages[run.stage].venue]]
        /\ run'.todo = Items(run.stage + 1, run'.found)
    BY <1>1, <1>2, StageLeft
  <1>4. ~PricesDone' /\ \A p : ~Passed(p)'
    <2>1. run'.stage = 6 => run'.todo # {}
      BY <1>3, StagePlaces
    <2> QED BY <1>2, <1>3, <2>1 DEF PricesDone, Passed
  <1>5. ASSUME Clean, NEW i \in 1..5, i < run'.stage
        PROVE  run'.found[Stages[i].venue] = mix.pools[Stages[i].venue]
    <2>1. /\ run.found \in [Venues -> SUBSET Entities]
          /\ Stages[i].venue \in Venues
      BY RunFields, StagePlaces, StageTable DEF IInv, JobInv
    <2>2. i = run.stage \/ i < run.stage
      BY <1>2, <1>3, <1>5
    <2>3. i < run.stage => run.found[Stages[i].venue] = mix.pools[Stages[i].venue]
      BY <1>5 DEF RunInv, RunClean
    <2> QED BY <1>3, <2>1, <2>2, <2>3
  <1>6. child'.pc = "idle"
    BY <1>1, <1>2, NoScript DEF poolVars
  <1> QED BY <1>1, <1>4, <1>5, <1>6, Carried DEF RunInv, poolVars

\* A step is over: its items are all done.
LEMMA RunStepOver ==
  ASSUME IInv, Clocks, RunInv, StepOver
  PROVE  RunInv'
  <1>1. /\ UNCHANGED poolVars /\ UNCHANGED <<mix, lastRun, calm>> /\ InSteps /\ run.todo = {}
        /\ Enter(run.stage + 1, run.found, Append(run.results, Outcome(Now.name, ~run.bad)))
    BY DEF StepOver
  <1>2. run.stage \in 6..15
    <2>1. run.stage \in 1..15 /\ ~(run.stage \in 1..5)
      BY <1>1, StagePlaces DEF StepOver, Clocks, Now
    <2> QED BY <2>1
  <1>3. /\ run'.stage = run.stage + 1 /\ run'.found = run.found
        /\ run'.todo = Items(run.stage + 1, run.found)
    BY <1>1, StageLeft
  <1>4. ASSUME Clean, NEW i \in 1..5
        PROVE  run.found[Stages[i].venue] = mix.pools[Stages[i].venue]
    <2>1. i < run.stage
      BY <1>2
    <2> QED BY <1>4, <2>1 DEF RunInv, RunClean
  <1>5. PricesDone
    BY <1>1, <1>2 DEF PricesDone
  <1>6. ASSUME Clean, NEW p \in AmmPools, Passed(p)' PROVE Passed(p)
    <2>1. PICK i \in {9, 10} : /\ p \in mix.pools[Stages[i].venue]
                               /\ run.stage + 1 > i \/ (run.stage + 1 = i /\ p \notin Items(i, run.found))
      BY <1>1, <1>2, <1>3, <1>6 DEF Passed
    <2>2. run.found[Stages[i].venue] = mix.pools[Stages[i].venue]
      BY <1>4, <1>6, StagePlaces
    <2>3. run.stage + 1 > i
      BY <2>1, <2>2, StagePlaces
    <2> QED BY <1>1, <1>2, <2>1, <2>3 DEF Passed
  <1>7. child'.pc = "idle"
    BY <1>1, NoScript DEF poolVars
  <1> QED BY <1>1, <1>3, <1>4, <1>5, <1>6, <1>7, Carried DEF RunInv, poolVars

\* An item of a step other than the prices and the pools.
LEMMA RunOther ==
  ASSUME IInv, Clocks, RunInv, OtherScript \/ Rollup, calm' # now'
  PROVE  RunInv'
  <1>1. PICK ok \in BOOLEAN : Ends(ok)
    BY DEF OtherScript, Rollup
  <1>2. UNCHANGED poolVars /\ UNCHANGED <<mix, lastRun>> /\ InSteps /\ Now.kind \in {"script", "rollup"}
    BY DEF OtherScript, Rollup, Working
  <1>3. /\ run'.stage = run.stage /\ run'.found = run.found /\ calm' = calm
    BY <1>1, <1>2, ItemLeft DEF Well, Fault, poolVars
  <1>4. run.stage \notin {6, 9, 10}
    BY <1>2, StagePlaces DEF Clocks, Now
  <1>5. PricesDone' = PricesDone /\ \A p : Passed(p)' = Passed(p)
    BY <1>2, <1>3, <1>4 DEF PricesDone, Passed
  <1>6. child'.pc = "idle"
    BY <1>2, <1>4, NoScript DEF poolVars
  <1>7. Clean => \A i \in 1..5 : i < run'.stage => run'.found[Stages[i].venue] = mix.pools[Stages[i].venue]
    BY <1>3 DEF RunInv, RunClean
  <1> QED BY <1>2, <1>3, <1>5, <1>6, <1>7, Carried DEF RunInv, poolVars

\* The reference prices are written, first of all.
LEMMA RunPrices ==
  ASSUME Fitting, IInv, Clocks, RecoveryInv, ReferencePrices, calm' # now'
  PROVE  RunInv'
  <1> USE DEF RecoveryInv
  <1>1. PICK wrote \in 0..2, ok \in BOOLEAN :
          /\ dollar' = IF wrote > 0 THEN now ELSE dollar
          /\ price' \in IF wrote > 1 THEN Resolved(reserves, price, now) ELSE {price}
          /\ ok => wrote = 2
          /\ Ends(ok)
    BY DEF ReferencePrices
  <1>2. /\ UNCHANGED <<now, level, child, reserves, metrics, mix, lastRun>> /\ InSteps
    BY DEF ReferencePrices, Working, market, pooldb
  <1>3. ok /\ calm' = calm /\ run'.stage = run.stage /\ run'.found = run.found
    BY <1>1, <1>2, ItemLeft DEF Well, Fault
  <1>4. dollar' = now /\ price' \in Resolved(reserves, price, now)
    BY <1>1, <1>3
  <1>5. run.stage = 6 /\ now = lastRun /\ lastRun # NoTime
    BY PricesAtOnce
  <1>6. \A p : ~Passed(p)'
    BY <1>3, <1>5 DEF Passed
  <1>7. child'.pc = "idle"
    BY <1>2, <1>5, NoScript
  <1>8. Clean' = Clean /\ Settled' = Settled /\ AmmPools' = AmmPools
    BY <1>2, <1>3 DEF Clean, Settled, AmmPools
  <1>9. RunClean'
    <2>1. dollar' # Absent /\ dollar' >= lastRun'
      BY <1>2, <1>4, <1>5, Numbers DEF Clocks
    <2>2. Clean => \A i \in 1..5 : i < run'.stage => run'.found[Stages[i].venue] = mix'.pools[Stages[i].venue]
      BY <1>2, <1>3 DEF RunClean
    <2> QED BY <1>6, <1>7, <1>8, <2>1, <2>2 DEF RunClean
  <1>10. RunBefore'
    BY <1>2, <1>3, <1>8 DEF RunBefore, Captured
  <1>11. PriceTaken'
    <2> SUFFICES ASSUME Settled, AmmPools # {}
                 PROVE  price'.price = level /\ price'.at # Absent /\ price'.at >= lastRun
      BY <1>2, <1>6, <1>7, <1>8 DEF PriceTaken
    <2>1. Clean /\ lastRun - Cadence > calm
      BY Numbers DEF Settled, Clean, Clocks
    <2>2. price'.price = level /\ price'.at = now
      BY <1>4, <1>5, <2>1, PriceResolved
    <2> QED BY <1>5, <2>2, Numbers DEF Clocks
  <1> QED BY <1>9, <1>10, <1>11 DEF RunInv

\* The script of a pool starts, or is done.
LEMMA RunStartPool ==
  ASSUME Clocks, RunInv, StartPool
  PROVE  RunInv'
  <1>1. /\ UNCHANGED <<level, calm, lastRun, mix, reserves, dollar, price, metrics, run>>
        /\ child'.pc = "state"
    BY DEF StartPool, Launch, Idle, Well, market, prices, pooldb, jobVars
  <1>2. PricesDone' = PricesDone /\ \A p : Passed(p)' = Passed(p)
    BY <1>1 DEF PricesDone, Passed
  <1>3. Clean => \A i \in 1..5 : i < run'.stage => run'.found[Stages[i].venue] = mix.pools[Stages[i].venue]
    BY <1>1 DEF RunInv, RunClean
  <1> QED BY <1>1, <1>2, <1>3, Carried DEF RunInv

LEMMA RunPoolDone ==
  ASSUME IInv, Clocks, RunInv, PoolDone
  PROVE  RunInv'
  <1>1. /\ child.pc = "done" /\ Ends(TRUE) /\ child'.pc = "idle"
        /\ UNCHANGED <<level, lastRun, mix, reserves, dollar, price, metrics>>
    BY DEF PoolDone, Idle, market, prices, pooldb
  <1>2. run.stage \in {9, 10} /\ child.pool = Item /\ InSteps
    BY <1>1 DEF Clocks
  <1>3. /\ run'.stage = run.stage /\ run'.found = run.found /\ run'.todo = run.todo \ {Item}
        /\ calm' = calm
    BY <1>1, <1>2, ItemLeft DEF Well
  <1>4. PricesDone
    BY <1>2 DEF PricesDone
  <1>5. ASSUME NEW p \in AmmPools, Passed(p)' PROVE Passed(p) \/ p = child.pool
    BY <1>1, <1>2, <1>3, <1>5 DEF Passed
  <1>6. Clean => \A i \in 1..5 : i < run'.stage => run'.found[Stages[i].venue] = mix.pools[Stages[i].venue]
    BY <1>3 DEF RunInv, RunClean
  <1> QED BY <1>1, <1>3, <1>4, <1>5, <1>6, Carried DEF RunInv

\* The run is over: every pool has passed.
LEMMA RunPersist ==
  ASSUME Clocks, RunInv, Persist, calm' # now'
  PROVE  RunInv'
  <1>1. /\ UNCHANGED poolVars /\ UNCHANGED <<mix, lastRun>> /\ run.stage = 16 /\ run'.stage = 0
        /\ calm' = calm
    BY StageTable DEF Persist, NoRun, Well, Fault, poolVars
  <1>2. PricesDone /\ \A p \in AmmPools : Passed(p)
    BY <1>1, PassedIn DEF PricesDone
  <1>3. child'.pc = "idle"
    BY <1>1, NoScript DEF poolVars
  <1> QED BY <1>1, <1>2, <1>3, Carried DEF RunInv, poolVars

\* A ledger closes and nothing moved.
LEMMA RunTick ==
  ASSUME Clocks, RunInv, Tick, calm' # now'
  PROVE  RunInv'
  <1>1. /\ UNCHANGED <<level, calm, lastRun, mix, reserves, dollar, price, metrics, run, child>>
    BY DEF Tick, Close, prices, pooldb, jobVars
  <1>2. PricesDone' = PricesDone /\ \A p : Passed(p)' = Passed(p)
    BY <1>1 DEF PricesDone, Passed
  <1>3. Clean => /\ \A i \in 1..5 : i < run'.stage => run'.found[Stages[i].venue] = mix.pools[Stages[i].venue]
                 /\ child'.pc \notin {"idle", "state"} => child'.level = level
    BY <1>1 DEF RunInv, RunClean
  <1> QED BY <1>1, <1>2, <1>3, Carried DEF RunInv

\* The script reads, or stores events.
LEMMA RunReads ==
  ASSUME IInv, Clocks, RunInv, PoolStep, ~StoreReserves, ~StoreMetrics
  PROVE  RunInv'
  <1>1. /\ UNCHANGED <<level, calm, lastRun, mix, reserves, dollar, price, metrics, run>>
    BY DEF PoolStep, Script, Well, market, prices, pooldb, jobVars
  <1>2. /\ child'.pc \in {"ledger", "page", "events", "reserves"}
        /\ \/ ReadState /\ child'.level = level
           \/ child.pc \notin {"idle", "state"} /\ child'.level = child.level
    <2>1. child \in Child
      BY ChildFields DEF IInv
    <2>2. CASE ReadState
      BY <2>1, <2>2 DEF ReadState, Child
    <2>3. CASE ReadLedger
      BY <2>1, <2>3 DEF ReadLedger, Child
    <2>4. CASE ReadPage
      BY <2>1, <2>4 DEF ReadPage, Child
    <2>5. CASE StoreEvent
      BY <2>1, <2>5 DEF StoreEvent, Child
    <2>6. CASE EventsStored
      BY <2>1, <2>6 DEF EventsStored, Child
    <2> QED BY <2>2, <2>3, <2>4, <2>5, <2>6 DEF PoolStep, Script
  <1>3. PricesDone' = PricesDone /\ \A p : Passed(p)' = Passed(p)
    BY <1>1 DEF PricesDone, Passed
  <1>4. Clean => /\ \A i \in 1..5 : i < run'.stage => run'.found[Stages[i].venue] = mix.pools[Stages[i].venue]
                 /\ child'.level = level
    BY <1>1, <1>2 DEF RunInv, RunClean
  <1> QED BY <1>1, <1>2, <1>3, <1>4, Carried DEF RunInv

\* The reserves are stored as they were read.
LEMMA RunReserves ==
  ASSUME IInv, Clocks, RunInv, PoolStep, StoreReserves
  PROVE  RunInv'
  <1>1. /\ UNCHANGED <<now, level, calm, lastRun, mix, dollar, price, metrics, run>>
        /\ reserves' = [reserves EXCEPT ![child.pool] = [level |-> child.level, at |-> now]]
        /\ child' = [child EXCEPT !.pc = "metrics"] /\ child.pc = "reserves"
    BY DEF PoolStep, Script, StoreReserves, ReadState, ReadLedger, ReadPage, StoreEvent, EventsStored,
           StoreMetrics, Well, market, prices, events, jobVars
  <1>2. child'.pc = "metrics" /\ child'.pool = child.pool /\ child'.level = child.level /\ child.pool \in Pools
    BY <1>1, ChildFields DEF IInv, Child
  <1>3. Clean' = Clean /\ Settled' = Settled /\ AmmPools' = AmmPools
    BY <1>1 DEF Clean, Settled, AmmPools
  <1>4. PricesDone' = PricesDone /\ \A p : Passed(p)' = Passed(p)
    BY <1>1 DEF PricesDone, Passed
  <1>5. \A p : p # child.pool => reserves'[p] = reserves[p]
    BY <1>1
  <1>6. reserves'[child.pool] = [level |-> child.level, at |-> now] /\ now # Absent /\ now \in Nat
    BY <1>1, <1>2, Numbers DEF Clocks
  <1>7. Clean => lastRun \in Nat /\ lastRun <= now /\ child.level = level
    BY <1>1 DEF Clean, Clocks, RunInv, RunClean
  <1>8. RunClean'
    <2> SUFFICES ASSUME Clean
                 PROVE  /\ \A i \in 1..5 : i < run'.stage => run'.found[Stages[i].venue] = mix'.pools[Stages[i].venue]
                        /\ PricesDone' => dollar' # Absent /\ dollar' >= lastRun'
                        /\ child'.level = level
                        /\ Captured(child.pool, lastRun)'
                        /\ \A p \in AmmPools : Passed(p) => Captured(p, lastRun)'
      BY <1>1, <1>2, <1>3, <1>4 DEF RunClean, Captured
    <2>1. Captured(child.pool, lastRun)' /\ \A p \in AmmPools : Passed(p) => Captured(p, lastRun)'
      <3>1. Captured(child.pool, lastRun)'
        BY <1>1, <1>2, <1>6, <1>7 DEF Captured
      <3>2. ASSUME NEW p \in AmmPools, Passed(p), p # child.pool
            PROVE  Captured(p, lastRun)'
        <4>1. Captured(p, lastRun)
          BY <3>2 DEF RunInv, RunClean
        <4> QED BY <1>1, <1>5, <3>2, <4>1 DEF Captured
      <3> QED BY <1>1, <1>2, <3>1, <3>2
    <2>2. child'.level = level
      BY <1>2, <1>7
    <2> QED BY <1>1, <1>4, <2>1, <2>2 DEF RunInv, RunClean
  <1>9. RunBefore'
    <2> SUFFICES ASSUME Clean, lastRun - Cadence > calm, NEW p \in AmmPools
                 PROVE  /\ reserves'[p].at # Absent /\ reserves'[p].at >= lastRun - Cadence
                        /\ reserves'[p].level = level
      BY <1>1, <1>3 DEF RunBefore, Captured
    <2>1. Captured(p, lastRun - Cadence)
      BY DEF RunInv, RunBefore
    <2> QED BY <1>5, <1>6, <1>7, <2>1, Numbers DEF Captured
  <1>10. PriceTaken'
    BY <1>1, <1>2, <1>3, <1>4 DEF RunInv, PriceTaken
  <1> QED BY <1>8, <1>9, <1>10 DEF RunInv

\* A run that is on time is over before the next cycle.
LEMMA InTime ==
  ASSUME Clocks, Attended, Clean, Running
  PROVE  now - lastRun < Cadence
  <1> SUFFICES ASSUME ~(now - lastRun < Cadence) PROVE FALSE
    OBVIOUS
  <1>1. lastRun \in Nat /\ lastRun > calm /\ lastRun % Cadence = 0 /\ now \in Nat /\ calm \in Nat
    BY DEF Clean, Attended, Clocks
  <1>2. PICK k \in Int : lastRun = Cycle(k)
    BY <1>1, CyclesAre
  <1>3. Cycle(k + 1) = lastRun + Cadence /\ Cycle(k + 1) % Cadence = 0
    <2>1. k + 1 \in Int /\ 1 \in Int
      OBVIOUS
    <2> QED BY <1>2, <2>1, CyclesOrdered, CyclesAre
  <1>4. lastRun + Cadence \in calm + 1 .. now
    BY <1>1, Numbers
  <1>5. lastRun >= lastRun + Cadence
    BY <1>3, <1>4 DEF Attended
  <1> QED BY <1>1, <1>5, Numbers

\* The metrics are those of the reserves just captured, at the price just written.
LEMMA RunMetrics ==
  ASSUME Fitting, IInv, Clocks, RecoveryInv, PoolStep, StoreMetrics
  PROVE  RunInv'
  <1> USE DEF RecoveryInv
  <1>1. /\ UNCHANGED <<now, level, calm, lastRun, mix, dollar, price, reserves, run>>
        /\ child.pc = "metrics" /\ child' = [child EXCEPT !.pc = "done"]
    BY DEF PoolStep, Script, StoreMetrics, ReadState, ReadLedger, ReadPage, StoreEvent, EventsStored,
           StoreReserves, Well, market, prices, events, jobVars
  <1>2. child'.pc = "done" /\ child'.pool = child.pool /\ child'.level = child.level /\ child.pool \in Pools
    BY <1>1, ChildFields DEF IInv, Child
  <1>3. Clean' = Clean /\ Settled' = Settled /\ AmmPools' = AmmPools
    BY <1>1 DEF Clean, Settled, AmmPools
  <1>4. PricesDone' = PricesDone /\ \A p : Passed(p)' = Passed(p)
    BY <1>1 DEF PricesDone, Passed
  <1>5. metrics'[child.pool].tvl = Tvl(reserves[child.pool]) /\ \A p : p # child.pool => metrics'[p] = metrics[p]
    BY <1>2 DEF StoreMetrics, Clocks
  <1>6. RunClean' /\ RunBefore'
    BY <1>1, <1>2, <1>3, <1>4 DEF RunClean, RunBefore, Captured
  <1>7. ASSUME Settled PROVE Tvl(reserves[child.pool]) = 2 * level
    <2>1. Clean /\ Captured(child.pool, lastRun) /\ child.pool \in AmmPools
      BY <1>1, <1>2, <1>7 DEF Settled, RunClean, Captured, ActiveOnly
    <2>2. PricesDone /\ Running
      BY <1>1 DEF PricesDone, Clocks, Running
    <2>3. /\ dollar # Absent /\ dollar >= lastRun
          /\ price.at # Absent /\ price.at >= lastRun /\ price.price = level
      BY <1>7, <2>1, <2>2 DEF RunClean, PriceTaken
    <2>4. now - lastRun < Cadence
      BY <2>1, <2>2, InTime
    <2>5. IsFresh(dollar, now) /\ IsFresh(price.at, now)
      <3>1. lastRun \in Nat /\ now \in Nat /\ dollar \in Nat /\ price.at \in Nat
        BY <2>1, <2>3 DEF Clean, Clocks
      <3> QED BY <2>3, <2>4, <3>1, Numbers DEF IsFresh, Fitting
    <2>6. reserves[child.pool].level = level /\ level \in Nat
      BY <2>1 DEF Captured, Clocks
    <2> QED BY <2>3, <2>5, <2>6 DEF Tvl
  <1>8. PriceTaken'
    <2> SUFFICES ASSUME Settled
                 PROVE  /\ PricesDone /\ AmmPools # {} => price.price = level /\ price.at # Absent /\ price.at >= lastRun
                        /\ metrics'[child.pool].tvl = 2 * level
                        /\ \A p \in AmmPools : Passed(p) => metrics'[p].tvl = 2 * level
      BY <1>1, <1>2, <1>3, <1>4 DEF PriceTaken
    <2> QED BY <1>5, <1>7 DEF PriceTaken
  <1> QED BY <1>6, <1>8 DEF RunInv

LEMMA RunNext ==
  ASSUME Fitting, IInv, Clocks, Clocks', RecoveryInv, [Next]_vars
  PROVE  RunInv'
  <1>1. RunInv /\ Attended
    BY DEF RecoveryInv, RunInv
  <1>2. CASE calm' = now'
    BY <1>2, Disturbed DEF RunInv
  <1>3. CASE calm' # now'
    <2>1. CASE PoolFails \/ Kill
      BY <1>3, <2>1 DEF PoolFails, Kill, Ends, Fault
    <2>2. CASE PoolStep
      BY <1>1, <2>2, RunReads, RunReserves, RunMetrics
    <2>3. CASE UNCHANGED vars
      BY <1>1, <2>3 DEF vars, poolVars, RunInv, RunClean, RunBefore, PriceTaken, Clean, Settled,
                        PricesDone, Passed, Captured, AmmPools
    <2> QED BY <1>1, <1>3, <2>1, <2>2, <2>3, RunStart, RunDiscover, RunStepOver, RunOther, RunPrices,
               RunStartPool, RunPoolDone, RunPersist, RunTick DEF Next
  <1> QED BY <1>2, <1>3

LEMMA RecoveryInit == Init => RecoveryInv
  <1> SUFFICES ASSUME Init PROVE RecoveryInv
    OBVIOUS
  <1>1. /\ run = NoRun /\ lastRun = NoTime /\ calm = 0 /\ now = 0 /\ price.at = Absent
        /\ \A p \in Pools : reserves[p].at = Absent
    BY DEF Init, PoolInit
  <1>2. Attended /\ Prompt
    BY <1>1, Numbers DEF Attended, Prompt, NoRun
  <1>3. ActiveOnly /\ OldPrice
    <2>1. \A i \in {9, 10} : Stages[i].venue \in Venues
      BY StagePlaces DEF Venues
    <2> QED BY <1>1, <2>1 DEF ActiveOnly, OldPrice, NoRun
  <1>4. RunClean /\ RunBefore /\ PriceTaken
    BY <1>1 DEF RunClean, RunBefore, PriceTaken, Clean, Settled
  <1> QED BY <1>2, <1>3, <1>4 DEF RecoveryInv

LEMMA RecoveryNext ==
  ASSUME Fitting
  PROVE  IInv /\ BannerInv /\ RecoveryInv /\ [Next]_vars => RecoveryInv'
  <1> SUFFICES ASSUME IInv, BannerInv, RecoveryInv, [Next]_vars PROVE RecoveryInv'
    OBVIOUS
  <1>1. Clocks /\ Clocks'
    <2>1. IInv' /\ BannerInv'
      BY NextIInv, BannerNext
    <2> QED BY <2>1, ClocksHold, ClocksHoldNext DEF BannerInv
  <1>2. Attended' /\ Prompt' /\ ActiveOnly'
    BY <1>1, AttendedNext, PromptNext, ActiveOnlyNext DEF RecoveryInv
  <1>3. OldPrice'
    BY <1>1, OldPriceNext
  <1>4. RunClean' /\ RunBefore' /\ PriceTaken'
    BY <1>1, RunNext DEF RunInv
  <1> QED BY <1>2, <1>3, <1>4 DEF RecoveryInv

-----------------------------------------------------------------------------
(* The theorem.                                                            *)

\* Between two ages of a cycle there is a cycle.
LEMMA LastCycle ==
  ASSUME NEW t \in Nat
  PROVE  \E c \in t - Cadence .. t - 1 : c % Cadence = 0
  <1>1. PICK k \in Int, r \in 0..Cadence - 1 : t = Cadence * k + r
    BY Division, CadenceType
  <1>2. Cycle(k) + r = t /\ Cycle(k) \in Int /\ Cycle(k) % Cadence = 0
    BY <1>1, CyclesAre DEF Cycle
  <1>3. CASE r > 0
    BY <1>2, <1>3, Numbers
  <1>4. CASE r = 0
    <2>1. k - 1 \in Int /\ 1 \in Int /\ (k - 1) + 1 = k
      OBVIOUS
    <2>2. Cycle(k) = Cycle(k - 1) + Cadence
      BY <2>1, CyclesOrdered
    <2>3. Cycle(k - 1) \in Int /\ Cycle(k - 1) % Cadence = 0
      BY <2>1, CyclesAre
    <2> QED BY <1>2, <1>4, <2>2, <2>3, Numbers
  <1> QED BY <1>1, <1>3, <1>4

LEMMA Recovered ==
  ASSUME Fitting, Clocks, RecoveryInv
  PROVE  PriceRecovers
  <1> USE DEF RecoveryInv
  <1> SUFFICES ASSUME now - calm > BandMemory + 2 * Cadence, level >= BandMin, level <= BandMax,
                      ~Running, NEW p \in AmmPools
               PROVE  price.price = level /\ IsFresh(price.at, now) /\ metrics[p].tvl = 2 * level
    BY DEF PriceRecovers
  <1>1. PICK c \in now - Cadence .. now - 1 : c % Cadence = 0
    BY LastCycle DEF Clocks
  <1>2. c \in calm + 1 .. now /\ c # now
    BY Numbers DEF Clocks
  <1>3. lastRun # NoTime /\ lastRun >= c
    BY <1>1, <1>2 DEF Attended
  <1>4. Settled
    BY <1>1, <1>3, Numbers DEF Settled, Clean, Clocks
  <1>5. PricesDone /\ Passed(p)
    BY DEF Running, PricesDone, Passed
  <1>6. price.price = level /\ price.at # Absent /\ price.at >= lastRun /\ metrics[p].tvl = 2 * level
    BY <1>4, <1>5 DEF PriceTaken
  <1>7. IsFresh(price.at, now)
    BY <1>1, <1>3, <1>6, Numbers DEF IsFresh, Fitting, Clocks
  <1> QED BY <1>6, <1>7

\* The price recovers (62-price-reference-assets.ts:302-308, price-select.ts:73-81), for all
\* pools, depths, bands, cadences and ages that fit: two cycles and the band's memory after
\* the last failure, late cycle or move, the asset has a fresh price, it is the market's,
\* and every pool's TVL rests on it.
THEOREM PricesRecover ==
  ASSUME Cadence <= ReservesMaxAge, Cadence < PriceMaxAge, BandMin > 0
  PROVE  Spec => []PriceRecovers
  <1>1. Fitting
    BY DEF Fitting
  <1>2. IInv /\ BannerInv /\ RecoveryInv /\ [Next]_vars => RecoveryInv'
    BY <1>1, RecoveryNext
  <1>3. IInv /\ BannerInv /\ [Next]_vars => BannerInv'
    BY BannerNext
  <1>4. IInv /\ BannerInv /\ RecoveryInv => PriceRecovers
    BY <1>1, ClocksHold, Recovered DEF BannerInv
  <1> QED BY <1>2, <1>3, <1>4, RecoveryInit, BannerInit, SpecIInv, PTL DEF Spec

=============================================================================
