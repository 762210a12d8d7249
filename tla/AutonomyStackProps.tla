------------------------ MODULE AutonomyStackProps -------------------------
(***************************************************************************)
(* What a guard's answer tells of the robot.  The guard reads two topics;  *)
(* history variables measure how long ago the state machine was last in    *)
(* the required state and in autonomous mode.  A crashed state machine is  *)
(* in neither.                                                             *)
(***************************************************************************)
EXTENDS AutonomyStack

VARIABLES
  sinceState,  \* ticks since the robot was last in RequiredState
  sinceAuto,   \* ticks since it was last in autonomous mode
  disturbed    \* the state machine has crashed, or a queue has overflowed

histVars == <<sinceState, sinceAuto, disturbed>>
hvars == <<vars, histVars>>

\* The oldest truth a guard may act on: a message up to UpdateTimeout old that
\* took up to Delay to arrive.
Horizon == UpdateTimeout + Delay

InState == up /\ state = RequiredState
InAuto  == up /\ autonomous

HInit ==
  /\ Init
  /\ sinceState = (IF InState THEN 0 ELSE Horizon + 1)
  /\ sinceAuto  = (IF InAuto THEN 0 ELSE Horizon + 1)
  /\ disturbed = FALSE

Later(since) == IF since > Horizon THEN since ELSE since + 1

\* A step of the state machine or of the guard takes no time.
Instant(since, holds) == IF holds THEN 0 ELSE since

Overflows ==
  \/ stateWire' # stateWire /\ Len(stateWire') = Len(stateWire)
  \/ modeWire' # modeWire /\ Len(modeWire') = Len(modeWire)

RobotSide ==
  /\ RobotStep \/ RepublishState \/ RepublishMode \/ Crash \/ Restart
  /\ sinceState' = Instant(sinceState, InState')
  /\ sinceAuto' = Instant(sinceAuto, InAuto')
  /\ disturbed' = (disturbed \/ ~up' \/ Overflows)

GuardSide ==
  /\ DeliverState \/ DeliverMode
  /\ UNCHANGED histVars

TickStep ==
  /\ Tick
  /\ sinceState' = IF InState THEN 0 ELSE Later(sinceState)
  /\ sinceAuto' = IF InAuto THEN 0 ELSE Later(sinceAuto)
  /\ UNCHANGED disturbed

HNext == RobotSide \/ GuardSide \/ TickStep

HSpec == HInit /\ [][HNext]_hvars /\ Fairness

----------------------------------------------------------------------------
(* Safety.                                                                 *)

\* Whatever crashes and whatever the queues drop, a guard allows autonomy only
\* if the robot was in the required state, and in autonomous mode, no longer
\* than UpdateTimeout and one delay ago (guard.py 121-158, guard.cpp 48-90).
AllowedIsRecent ==
  Allowed => /\ sinceState <= Horizon
             /\ RequireAutonomous => sinceAuto <= Horizon

\* While the state machine runs and no queue overflows, a robot that leaves the
\* required state or autonomous mode, on its own or by a change of mode that
\* publishes both, stops the guard within one delay: every change is published
\* (robot_state_machine_sentor.py 123-153) and no older message overtakes it.
StopsWithinDelay ==
  Allowed /\ ~disturbed =>
     /\ sinceState <= Delay
     /\ RequireAutonomous => sinceAuto <= Delay

----------------------------------------------------------------------------
(* Liveness.                                                               *)

\* A guard does not flicker if Period + Delay <= UpdateTimeout, as in the run: a
\* robot that stays in the required state and mode is allowed in the end and from
\* then on, without one new change to announce, on the strength of the republishing
\* timers (robot_state_machine_sentor.py 71-72, 112-120).  The defaults, 1 s and
\* 1 s, leave a message no time at all on its way, and the guard does flicker.
Calm == InState /\ (RequireAutonomous => InAuto)
CalmRobotIsAllowed == <>[]Calm => <>[]Allowed
============================================================================
