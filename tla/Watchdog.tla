----------------------------- MODULE Watchdog ------------------------------
(***************************************************************************)
(* What a time-out promises, whatever stands between the source of the     *)
(* beats and the thing that is switched off: when the source has been      *)
(* silent for longer than Bound, no period of the clock ends before the    *)
(* watchdog has tripped.  It may be switched on again at any moment; then  *)
(* one period may end before it trips again.                               *)
(*                                                                         *)
(* The two counters stop where they can no longer change the answer, but   *)
(* not before a period that must not end would have changed one of them.   *)
(***************************************************************************)
EXTENDS Integers

CONSTANT Bound  \* longest silence that is tolerated, in ticks

VARIABLES
  silence,  \* ticks since the last beat, up to Bound + 2
  tripped,  \* what is watched over is off
  held      \* periods that have ended since it was last off, up to 2

watchVars == <<silence, tripped, held>>

WatchInit == silence = 0 /\ tripped = TRUE /\ held = 0

Beat ==
  /\ silence' = 0
  /\ UNCHANGED <<tripped, held>>

Trip ==
  /\ tripped' = TRUE /\ held' = 0
  /\ UNCHANGED silence

Reset ==
  /\ tripped /\ tripped' = FALSE
  /\ UNCHANGED <<silence, held>>

\* The end of a period.
Elapse ==
  /\ silence <= Bound \/ tripped \/ held = 0
  /\ silence' = IF silence > Bound + 1 THEN silence ELSE silence + 1
  /\ held' = IF tripped THEN 0 ELSE IF held = 2 THEN 2 ELSE held + 1
  /\ UNCHANGED tripped

WatchSpec == WatchInit /\ [][Beat \/ Trip \/ Reset \/ Elapse]_watchVars
============================================================================
