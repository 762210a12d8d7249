-------------------------- MODULE GuardNodesProps --------------------------
(***************************************************************************)
(* What the guarded nodes, messages and behaviours may do while the robot  *)
(* does not allow it.  The history variables follow one of the two things  *)
(* a guard requires, whichever, and tell for how long the robot has been   *)
(* without it, or down, up to one past the Lag below.                      *)
(***************************************************************************)
EXTENDS GuardNodes, FiniteSets

VARIABLES
  watched,  \* "state" or "mode"
  wrong     \* time since the robot was last right in it

hvars == <<vars, watched, wrong>>

\* The time the flaky nodes may block a switch.
SwitchTime == ServiceWait * Cardinality(Flaky)

\* A robot that dies, or starts again unheard, is believed until its last message is
\* too old, and a lifecycle guard checks in the period after.  A guard that blocks
\* may serve one message between two switches and takes each for news as of its
\* arrival: a message of the queue, or the one seen before, lets it activate the
\* nodes until its time is up, in two switches, and then the next message comes.
Lag ==
  CASE program # "lifecycle" -> UpdateTimeout
    [] program = "lifecycle" /\ Flaky = {} -> UpdateTimeout + 1
    [] program = "lifecycle" /\ Flaky # {} -> (Depth + 1) * (UpdateTimeout + 2 * SwitchTime)

StateRight == state = RequiredState
ModeRight  == RequireAutonomous => mode = "autonomous"

Right == up /\ IF watched = "state" THEN StateRight ELSE ModeRight

HInit ==
  /\ Init
  /\ watched \in {"state", "mode"}
  /\ wrong = IF Right THEN 0 ELSE Lag + 1

HNext ==
  /\ UNCHANGED watched
  /\ \/ Untimed /\ wrong' = IF Right' THEN 0 ELSE wrong
     \/ Tick /\ wrong' = IF Right THEN 0 ELSE IF wrong > Lag THEN wrong ELSE wrong + 1

HSpec == HInit /\ [][HNext]_hvars

----------------------------------------------------------------------------
Acting == answer = "passed" \/ active \ Flaky # {}

\* While a message or tick passes, or a node whose service is always there is
\* active, the robot was up and in the required state, and up and in an accepted
\* mode, not longer ago than the Lag: however the robot ends and starts again
\* unheard, and however the services of the other nodes come and go and block the
\* only thread, the guard's view of the robot, and the flag that stands for the
\* nodes, do not fall further behind (lifecycle_guard_node.cpp 45-88,
\* topic_guard_node.cpp 54-69, bt_condition_node.cpp 68-80).
GuardedOnlyInTime == Acting => wrong <= Lag

\* A robot that is no longer right, or stays down, gets the nodes deactivated for
\* good, whatever becomes of the services; one that stays right gets them activated,
\* once every service is there (lifecycle_guard_node.cpp 45-88).
NodesFollowInTheEnd ==
  TimePasses /\ program = "lifecycle" =>
    /\ <>[]~Right => <>[](active \ Flaky = {})
    /\ <>[](StateRight /\ ModeRight /\ up /\ serving = Nodes)
       => <>[](Nodes \ Flaky \subseteq active)
============================================================================
