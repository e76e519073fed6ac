------------------------- MODULE MCRefreshPipeline -------------------------
(***************************************************************************)
(* Small instances of the refresh job.  One run covers five: the events of *)
(* a pool, failures anywhere in the run, the clock of the status page, the *)
(* price of the asset over many cycles, and a move that meets a failure.   *)
(***************************************************************************)
EXTENDS RefreshPipeline, TLC

CONSTANTS s, q, lend

Found(soroswap, blend, aquarius) ==
  [v \in Venues |-> CASE v = "soroswap" -> soroswap [] v = "blend" -> blend
                      [] v = "aquarius" -> aquarius [] OTHER -> {}]

Mix(pools, failures, until) ==
  [pools |-> pools, faults |-> failures, until |-> until, levels |-> {101}, news |-> 0,
   slow |-> {}, down |-> {}, moves |-> {}]

Events == [Mix(Found({}, {}, {q}), 1, 7) EXCEPT !.news = 1, !.slow = {4}, !.down = {2}]
Faults == Mix(Found({s}, {lend}, {q}), 4, 3)
Clock  == [Mix(Found({}, {}, {}), 0, 20) EXCEPT !.down = 0..20]
Prices == [Mix(Found({}, {}, {q}), 0, 30) EXCEPT !.levels = {101, 104, 130}, !.moves = {4, 7},
             !.slow = {4, 5, 10}, !.down = 4..12]
\* The market moves as a cycle begins, and that cycle's run may die.
Struck == [Mix(Found({}, {}, {q}), 1, 20) EXCEPT !.levels = {101, 104}, !.moves = {3}]

AllMixes   == {Events, Faults, Clock, Prices, Struck}
Depths     == [p \in Pools |-> IF p = q THEN 2 ELSE 1]

=============================================================================
