----------------------------- MODULE OpsStatus -----------------------------
(***************************************************************************)
(* What the status page makes of the stored outcomes of the refresh: the   *)
(* time axis of the last window, the cycles missed on it, and the banner.  *)
(* Pure operators of the rows and of the time of the request.              *)
(***************************************************************************)
EXTENDS Integers, FiniteSets, FiniteSetsExt

CONSTANTS
  Cadence,    \* time between two cycles of the cron
  Window,     \* the 24 hours of the page
  StaleAfter, \* age at which the latest run no longer counts as delivering
  NoTime

ASSUME StatusAssumption ==
  /\ Cadence \in Nat \ {0} /\ Window \in Nat /\ StaleAfter \in Nat
  /\ NoTime \notin Nat

\* A run left rows: [at, rpc, steps], its rpc rows and its step rows.
InWindow(rows, now) == {r \in rows : r.at >= now - Window}
Axis(rows, now)     == {r.at : r \in InWindow(rows, now)}
HistorySince(rows)  == IF rows = {} THEN NoTime ELSE Min({r.at : r \in rows})

\* 1.75 cycles without a run; Math.round of the cycles in a span.
Overdue(span) == 4 * span > 7 * Cadence
Cycles(span)  == (2 * span + Cadence) \div (2 * Cadence)

Between(span) == IF Overdue(span) THEN Cycles(span) - 1 ELSE 0
SinceLast(span) == IF Overdue(span) THEN span \div Cadence ELSE 0

\* Mutant: a young history is taken for a gap.
LeadingAlways(rows, now) ==
  LET axis == Axis(rows, now)
  IN IF axis # {} THEN Between(Min(axis) - (now - Window)) ELSE 0

Leading(rows, now) ==
  LET axis == Axis(rows, now)
  IN IF axis # {} /\ HistorySince(rows) <= now - Window
     THEN Between(Min(axis) - (now - Window)) ELSE 0

Inner(rows, now) ==
  LET axis == Axis(rows, now)
      gap  == [t \in axis |-> IF t = Min(axis) THEN 0 ELSE t - Max({s \in axis : s < t})]
  IN SumFunctionOnSet([t \in axis |-> Between(gap[t])], axis)

Trailing(rows, now) ==
  LET axis == Axis(rows, now) IN IF axis = {} THEN 0 ELSE SinceLast(now - Max(axis))

MissedCycles(rows, now) == Leading(rows, now) + Inner(rows, now) + Trailing(rows, now)

LatestRun(rows, now) == CHOOSE r \in InWindow(rows, now) : r.at = Max(Axis(rows, now))

FailedSteps(r) == {i \in DOMAIN r.steps : r.steps[i].status = "FAILED"}

Banner(rows, now) ==
  IF Axis(rows, now) = {} THEN "unknown"
  ELSE IF now - Max(Axis(rows, now)) > StaleAfter THEN "outage"
  ELSE IF FailedSteps(LatestRun(rows, now)) # {} THEN "degraded"
  ELSE "operational"

=============================================================================
