--------------------------- MODULE JoyStateBridge --------------------------
(***************************************************************************)
(* The node of joy_robot_state_machine.py between a joystick and the robot *)
(* state machine: buttons become commands, and what a button means depends *)
(* on the last state and mode the node has been told.  The robot is its    *)
(* interface RobotState, which may also do anything on its own; the        *)
(* commands of the node are carried out by the two selector callbacks of   *)
(* robot_state_machine_sentor.py.                                          *)
(*                                                                         *)
(* Four topics, each first-in first-out with queues of Depth, and no order *)
(* between them.  A message arrives in the period of the clock in which it *)
(* was sent.  The deadman is not followed: what a deadman message may do   *)
(* is among the robot's own steps.                                         *)
(***************************************************************************)
EXTENDS RobotState, Integers, Sequences

CONSTANT Depth  \* depth of every subscription queue

ASSUME DepthAssumption == Depth \in Nat \ {0}

VARIABLES
  lastButtons,  \* the buttons that were down in the last message
  seenState,    \* current_robot_state
  seenMode,     \* autonomous_mode, as the node sees it
  stateWire,    \* robot_state on its way to the node
  modeWire,     \* autonomous_mode on its way to the node
  setState,     \* set_state on its way to the state machine
  setMode       \* set_mode on its way to the state machine

viewVars    == <<seenState, seenMode>>
commandVars == <<setState, setMode>>
newsVars    == <<stateWire, modeWire>>
vars == <<stateVars, lastButtons, viewVars, commandVars, newsVars>>

States  == {"start-up", "disabled", "enabled", "active"}
Buttons == {"manual", "autonomous", "activate"}

QueueOf(values) == UNION {[1 .. n -> values] : n \in 0 .. Depth}

TypeOK ==
  /\ state \in States /\ autonomous \in BOOLEAN
  /\ lastButtons \subseteq Buttons
  /\ seenState \in States /\ seenMode \in BOOLEAN
  /\ stateWire \in QueueOf(States) /\ modeWire \in QueueOf(BOOLEAN)
  /\ setState \in QueueOf({"enabled", "active"})
  /\ setMode \in QueueOf({"manual", "autonomous"})

\* Mutant: a queue without a depth.
KeepAll(queue) == queue

\* A full queue drops its oldest messages.
KeepLast(queue) ==
  IF Len(queue) > Depth THEN SubSeq(queue, Len(queue) - Depth + 1, Len(queue)) ELSE queue

\* The node starts at any time in the life of the state machine, whose last
\* publications it may have missed.
Init ==
  /\ state \in States /\ autonomous \in BOOLEAN
  /\ stateWire \in {<< >>, <<state>>} /\ modeWire \in {<< >>, <<autonomous>>}
  /\ lastButtons = {} /\ seenState = "disabled" /\ seenMode = FALSE
  /\ setState = << >> /\ setMode = << >>

----------------------------------------------------------------------------
(* The joystick.                                                           *)

\* Mutant: the meaning of the button forgets the mode.
MeaningOfStateAlone ==
  CASE seenState = "disabled" -> <<"enabled">>
    [] seenState = "enabled"  -> <<"active">>
    [] OTHER                  -> << >>

\* What the activate button asks for: ACTIVE only in autonomous mode.
Meaning ==
  CASE seenState = "disabled"             -> <<"enabled">>
    [] seenState = "enabled" /\ seenMode  -> <<"active">>
    [] OTHER                              -> << >>

\* A button that is pressed asks for its command.
Asks(pressed, command) == IF pressed THEN <<command>> ELSE << >>

\* A message of the joystick with these buttons down.  Only a button that was
\* up in the message before counts, and every button was up before the first.
JoyCallback(down) ==
  LET Edge(button) == button \in down \ lastButtons
      Modes == Asks(Edge("manual"), "manual") \o Asks(Edge("autonomous"), "autonomous")
  IN /\ setMode' = KeepLast(setMode \o Modes)
     /\ setState' = KeepLast(setState \o IF Edge("activate") THEN Meaning ELSE << >>)
     /\ lastButtons' = down
     /\ UNCHANGED <<stateVars, viewVars, newsVars>>

RobotStateCallback ==
  /\ stateWire # << >>
  /\ seenState' = Head(stateWire)
  /\ stateWire' = Tail(stateWire)
  /\ UNCHANGED <<stateVars, lastButtons, seenMode, modeWire, commandVars>>

AutonomousModeCallback ==
  /\ modeWire # << >>
  /\ seenMode' = Head(modeWire)
  /\ modeWire' = Tail(modeWire)
  /\ UNCHANGED <<stateVars, lastButtons, seenState, stateWire, commandVars>>

----------------------------------------------------------------------------
(* The robot state machine.                                                *)

PublishChanges ==
  /\ stateWire' = IF state' # state THEN KeepLast(Append(stateWire, state')) ELSE stateWire
  /\ modeWire' = IF autonomous' # autonomous THEN KeepLast(Append(modeWire, autonomous')) ELSE modeWire

\* Another operator, a heartbeat, the deadman or a timer.
OwnStep ==
  /\ StateNext
  /\ PublishChanges
  /\ UNCHANGED <<lastButtons, viewVars, commandVars>>

\* A command that is not valid in the robot's state is ignored.
SetStateSelector ==
  /\ setState # << >>
  /\ setState' = Tail(setState)
  /\ \/ Head(setState) = "enabled" /\ (Enable \/ Suspend)
     \/ Head(setState) = "active" /\ Activate
     \/ /\ state \notin IF Head(setState) = "enabled" THEN {"disabled", "active"} ELSE {"enabled"}
        /\ UNCHANGED stateVars
  /\ PublishChanges
  /\ UNCHANGED <<lastButtons, viewVars, setMode>>

SetModeSelector ==
  /\ setMode # << >>
  /\ setMode' = Tail(setMode)
  /\ IF (Head(setMode) = "autonomous") # autonomous THEN ChangeMode ELSE UNCHANGED stateVars
  /\ PublishChanges
  /\ UNCHANGED <<lastButtons, viewVars, setState>>

\* Once a second.  Behind a message that is still on its way, which says the
\* same, a repetition would tell nothing.
RepublishState ==
  /\ stateWire = << >>
  /\ stateWire' = <<state>>
  /\ UNCHANGED <<stateVars, lastButtons, viewVars, commandVars, modeWire>>

\* Mutant: the mode is published only when it changes.
RepublishModeNever == FALSE /\ UNCHANGED vars

RepublishMode ==
  /\ modeWire = << >>
  /\ modeWire' = <<autonomous>>
  /\ UNCHANGED <<stateVars, lastButtons, viewVars, commandVars, stateWire>>

Next ==
  \/ \E down \in SUBSET Buttons : JoyCallback(down)
  \/ RobotStateCallback \/ AutonomousModeCallback
  \/ OwnStep \/ SetStateSelector \/ SetModeSelector
  \/ RepublishState \/ RepublishMode

\* Messages arrive and the republishing timers run; nobody need press anything.
Fairness ==
  /\ WF_vars(RobotStateCallback) /\ WF_vars(AutonomousModeCallback)
  /\ WF_vars(SetStateSelector) /\ WF_vars(SetModeSelector)
  /\ WF_vars(RepublishState) /\ WF_vars(RepublishMode)
============================================================================
