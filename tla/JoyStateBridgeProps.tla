------------------------ MODULE JoyStateBridgeProps ------------------------
(***************************************************************************)
(* What a press of the activate button may do to the robot.  The clock is  *)
(* a history variable, since the node itself has none: it remembers what   *)
(* was true at some time in the present period.                            *)
(***************************************************************************)
EXTENDS JoyStateBridge

VARIABLES
  was,   \* whether the robot was DISABLED, and autonomous, in this period
  heard  \* when the node first received a state: never, now (in this period), before

hvars == <<vars, was, heard>>

TrueNow == ({state} \cap {"disabled"}) \cup IF autonomous THEN {"autonomous"} ELSE {}

HInit == Init /\ was = TrueNow /\ heard = "never"

Hears == stateWire # << >> /\ stateWire' = Tail(stateWire)

HStep ==
  /\ Next
  /\ was' = was \cup TrueNow'
  /\ heard' = IF heard = "never" /\ Hears THEN "now" ELSE heard

\* A period ends when every message has arrived.
EndOfPeriod ==
  /\ stateWire = << >> /\ modeWire = << >> /\ setState = << >> /\ setMode = << >>
  /\ was' = TrueNow
  /\ heard' = IF heard = "now" THEN "before" ELSE heard
  /\ UNCHANGED vars

HNext == HStep \/ EndOfPeriod

HSpec == HInit /\ [][HNext]_hvars /\ Fairness

----------------------------------------------------------------------------
\* A command changes the robot only for a reason that was true in the period of
\* the change: the button activates a robot that is, or was a message ago, in
\* autonomous mode, and enables or suspends one that is, or was, DISABLED, as
\* long as the node has heard of the robot at all (lines 64-118).
CommandsRestOnRecentTruth ==
  [][SetStateSelector /\ state' # state =>
       /\ state' = "active" => "autonomous" \in was
       /\ state' = "enabled" /\ heard = "before" => "disabled" \in was]_hvars

\* An operator who goes on pressing the button gets an autonomous robot, left to
\* itself, ACTIVE: whatever the node had missed, it learns from the periodic
\* publications (lines 64-118; robot_state_machine_sentor.py 112-120).
Pressed == \E down \in SUBSET Buttons : JoyCallback(down) /\ "activate" \in down \ lastButtons
PressingActivates ==
  (/\ <>[](autonomous /\ state # "start-up")
   /\ <>[][~OwnStep]_vars
   /\ []<><<Pressed>>_vars)
  => <>[](state = "active")
============================================================================
