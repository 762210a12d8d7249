---------------------------- MODULE SentorGuard ----------------------------
(***************************************************************************)
(* The view a SentorGuard has of the robot: the last message of each topic *)
(* and its age, and the question every user of a guard asks of them.       *)
(*                                                                         *)
(* guard.py and guard.cpp cache the answer (_condition_met), but evaluate  *)
(* the conditions again, under the same lock, before they ever read it:    *)
(* the cache is no state of its own and Allowed stands for the answer.     *)
(* The two differ in what they hold before the first message: guard.py     *)
(* starts with no mode, guard.cpp with manual, received when it was built. *)
(***************************************************************************)
EXTENDS Integers

CONSTANTS
  UpdateTimeout,      \* update_timeout, in ticks
  RequiredState,      \* required_state
  RequireAutonomous,  \* require_autonomous_mode
  FirstMode           \* the mode held before any message: "none" or "manual"

ASSUME GuardAssumption ==
  /\ UpdateTimeout \in Nat
  /\ RequiredState \in {"start-up", "disabled", "enabled", "active"}
  /\ RequireAutonomous \in BOOLEAN
  /\ FirstMode \in {"none", "manual"}

VARIABLES
  seenState,  \* _current_state, or "none"
  seenMode,   \* _autonomous_mode, or "none"
  stateAge,   \* now - _last_state_time, up to one past the timeout
  modeAge     \* now - _last_mode_time, up to one past the timeout

guardVars == <<seenState, seenMode, stateAge, modeAge>>

Modes == {"manual", "autonomous"}

GuardInit ==
  /\ seenState = "none" /\ seenMode = FirstMode
  /\ stateAge = 0 /\ modeAge = 0

StateCallback(value) ==
  /\ seenState' = value /\ stateAge' = 0
  /\ UNCHANGED <<seenMode, modeAge>>

ModeCallback(value) ==
  /\ seenMode' = value /\ modeAge' = 0
  /\ UNCHANGED <<seenState, stateAge>>

\* Mutant: a message is never too old.
FreshAlways(age) == TRUE

\* A message exactly as old as the timeout still counts.
Fresh(age) == age <= UpdateTimeout

StateGranted == seenState = RequiredState /\ Fresh(stateAge)

ModeGranted ==
  /\ seenMode # "none" /\ Fresh(modeAge)
  /\ RequireAutonomous => seenMode = "autonomous"

\* The answer of is_autonomy_allowed.
Allowed == StateGranted /\ ModeGranted

GuardOlder(age) == IF age > UpdateTimeout THEN age ELSE age + 1

GuardTick ==
  /\ stateAge' = GuardOlder(stateAge) /\ modeAge' = GuardOlder(modeAge)
  /\ UNCHANGED <<seenState, seenMode>>
============================================================================
