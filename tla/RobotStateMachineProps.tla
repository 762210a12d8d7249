----------------------- MODULE RobotStateMachineProps -----------------------
(***************************************************************************)
(* What robot_state_machine_sentor.py promises about when the robot may    *)
(* drive.  Three history variables, which the node does not have, remember *)
(* what its state alone does not tell: whether the operator has made the   *)
(* robot drive since it was last disabled, how long ago a non-critical     *)
(* issue last stopped it, and which watchdogs have not looked at the state *)
(* since the operator last changed it.                                     *)
(***************************************************************************)
EXTENDS RobotStateMachine

VARIABLES
  commanded,   \* the operator has made the robot ACTIVE since it was last disabled
  sinceIssue,  \* ticks since an issue last took ACTIVE away, at most Grace
  unseen       \* watchdogs that have not run since the operator changed the state

histVars == <<commanded, sinceIssue, unseen>>
hvars == <<vars, histVars>>

HInit ==
  /\ Init
  /\ commanded = FALSE /\ sinceIssue = Grace /\ unseen = {}

\* A message of the operator.
OperatorStep ==
  /\ Operator
  /\ commanded' = (state' # "disabled" /\ (commanded \/ state' = "active"))
  /\ unseen' = IF state' # state THEN Watchdogs ELSE unseen
  /\ UNCHANGED sinceIssue

\* A heartbeat: of the steps of the node, only a non-critical issue moves the
\* robot from ACTIVE to ENABLED here.
HeartbeatStep ==
  /\ Heartbeat
  /\ commanded' = (state' # "disabled" /\ commanded)
  /\ sinceIssue' = IF state = "active" /\ state' = "enabled" THEN 0 ELSE sinceIssue
  /\ UNCHANGED unseen

TimerStep ==
  /\ Timer
  /\ commanded' = (state' # "disabled" /\ commanded)
  /\ unseen' = unseen \ (due \ due')
  /\ UNCHANGED sinceIssue

TickStep ==
  /\ Tick
  /\ sinceIssue' = IF sinceIssue < Grace THEN sinceIssue + 1 ELSE Grace
  /\ UNCHANGED <<commanded, unseen>>

HNext == OperatorStep \/ HeartbeatStep \/ TimerStep \/ TickStep

HSpec == HInit /\ [][HNext]_hvars /\ Fairness

----------------------------------------------------------------------------
(* Safety.                                                                 *)

\* After the robot has been DISABLED, by a critical fault, a lost beat, the
\* start-up timer or the operator, nothing but the operator makes it ACTIVE
\* again.  A FALSE critical beat (lines 218-227) leaves the auto-activation
\* timer armed: the timer must be harmless by the time the robot is re-enabled.
NoResumeThroughDisabled == state = "active" => commanded

\* The robot activates itself only after the whole grace period has passed
\* since the last non-critical issue that stopped it (lines 176-195), however
\* many times the timer was armed before.
AutoActivation == AutonomousGoActive /\ state' = "active"
FullGraceBeforeResume == [][AutoActivation => sinceIssue = Grace]_hvars

\* A robot that may move has both beats in time, but for the period in which
\* a watchdog has still to look or the operator has just enabled it
\* (lines 271-301).
LostBeatStopsRobot ==
  state \in {"enabled", "active"} /\ (CritLost \/ NoncritLost)
     => "heartbeats" \in due \cup unseen

\* In manual mode the robot is ACTIVE with a silent deadman for no longer than
\* the watchdog takes to look (lines 210-215), even when ACTIVE came from
\* set_state and not from the deadman.
ManualActiveIsAttended ==
  state = "active" /\ ~autonomous /\ deadmanAge > DeadmanTimeout
     => "deadman" \in due \cup unseen

\* The state machine implements its interface: no step leads from manual ACTIVE
\* to autonomous ACTIVE or skips ENABLED, whichever of operator, beats and
\* timers takes it (lines 123-215).
Interface == INSTANCE RobotState
ImplementsInterface == Interface!StateSpec

----------------------------------------------------------------------------
(* Liveness.                                                               *)

\* A critical beat that stays silent disables the robot (line 15 of the code).
SilentCriticalDisables == CritLost ~> (state = "disabled" \/ ~CritLost)

\* An armed auto-activation takes place unless something intervenes: it cannot
\* stay armed for ever in autonomous ENABLED with healthy non-critical beats.
ResumePending == state = "enabled" /\ autonomous /\ autoTimer # Off /\ lastNoncrit
ArmedResumeHappens == []<>~ResumePending

----------------------------------------------------------------------------
(* A promise of the module's header that the code does not keep.           *)

\* Lines 13-14: the robot resumes after 3 s of CLEAN non-critical health, so it
\* never activates itself while the last non-critical beat was FALSE.
ResumesOnlyWhenHealthy == [][AutoActivation => lastNoncrit]_hvars
============================================================================
