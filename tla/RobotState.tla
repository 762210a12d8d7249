---------------------------- MODULE RobotState -----------------------------
(***************************************************************************)
(* What the rest of the system sees of the robot state machine: the two    *)
(* values of the topics robot_state and autonomous_mode, and how one step  *)
(* may change them.  RobotStateMachine implements it; the compositions     *)
(* use it in its place.                                                    *)
(***************************************************************************)
VARIABLES
  state,      \* the value of robot_state
  autonomous  \* the value of autonomous_mode

stateVars == <<state, autonomous>>

StateInit ==
  /\ state = "start-up"
  /\ autonomous \in BOOLEAN

\* A fault, the start-up timer or the operator.
Disable ==
  /\ state' = "disabled"
  /\ UNCHANGED autonomous

Enable ==
  /\ state = "disabled"
  /\ state' = "enabled"
  /\ UNCHANGED autonomous

Activate ==
  /\ state = "enabled"
  /\ state' = "active"
  /\ UNCHANGED autonomous

Suspend ==
  /\ state = "active"
  /\ state' = "enabled"
  /\ UNCHANGED autonomous

\* A mode never changes under an ACTIVE robot: the same step suspends it.
ChangeMode ==
  /\ autonomous' = ~autonomous
  /\ state' = IF state = "active" THEN "enabled" ELSE state

StateNext == Disable \/ Enable \/ Activate \/ Suspend \/ ChangeMode

StateSpec == StateInit /\ [][StateNext]_stateVars
============================================================================
