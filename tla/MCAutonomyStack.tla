-------------------------- MODULE MCAutonomyStack --------------------------
(* Model of the state machine, its two topics and one guard for TLC.       *)
EXTENDS AutonomyStackProps
============================================================================
