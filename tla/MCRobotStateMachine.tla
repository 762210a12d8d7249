------------------------ MODULE MCRobotStateMachine ------------------------
(* Model of the state machine for TLC: the timeouts are small and pairwise *)
(* different where the code compares them with different clocks.           *)
EXTENDS RobotStateMachineProps
============================================================================
