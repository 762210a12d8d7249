--------------------------- MODULE AutonomyStack ---------------------------
(***************************************************************************)
(* The robot state machine, the two topics it publishes and a guard that   *)
(* listens to them.  The state machine is its interface RobotState, which  *)
(* RobotStateMachine implements, with the publications of                  *)
(* robot_state_machine_sentor.py: at every change, and once per period.    *)
(*                                                                         *)
(* The topics are independent: each one is first-in first-out, but nothing *)
(* orders a message of one against a message of the other.  A message      *)
(* takes at most Delay ticks, unless Depth newer ones push it out of the   *)
(* queue (KEEP_LAST).  The state machine may crash, and be started again.  *)
(***************************************************************************)
EXTENDS RobotState, SentorGuard, Sequences

CONSTANTS
  Period,  \* period of the two republishing timers, in ticks
  Delay,   \* longest time from publication to callback, in ticks
  Depth    \* depth of the subscription queues

ASSUME StackAssumption ==
  Period \in Nat \ {0} /\ Delay \in Nat /\ Depth \in Nat \ {0}

VARIABLES
  up,           \* the state machine is running
  stateWire,    \* messages of robot_state on their way to the guard
  modeWire,     \* messages of autonomous_mode on their way to the guard
  republishIn,  \* ticks to the next period of the republishing timers
  toRepublish   \* the topics still to republish in this period

wireVars  == <<stateWire, modeWire>>
timerVars == <<republishIn, toRepublish>>
vars == <<stateVars, guardVars, up, wireVars, timerVars>>

Topics   == {"robot_state", "autonomous_mode"}
States   == {"start-up", "disabled", "enabled", "active"}
Readings == {RequiredState, "other"}

Message(values) == [value : values, age : 0 .. Delay]

FlagsTypeOK == autonomous \in BOOLEAN /\ up \in BOOLEAN

DataTypeOK ==
  /\ state \in States
  /\ seenState \in Readings \cup {"none"} /\ seenMode \in Modes \cup {"none"}
  /\ stateAge \in 0 .. UpdateTimeout + 1 /\ modeAge \in 0 .. UpdateTimeout + 1
  /\ stateWire \in Seq(Message(Readings)) /\ modeWire \in Seq(Message(Modes))
  /\ Len(stateWire) <= Depth /\ Len(modeWire) <= Depth
  /\ republishIn \in 0 .. Period /\ toRepublish \subseteq Topics

TypeOK == FlagsTypeOK /\ DataTypeOK

\* Mutant: a queue without a depth.
PushUnbounded(wire, value) == Append(wire, [value |-> value, age |-> 0])

\* A full queue drops its oldest message.
Push(wire, value) ==
  LET all == Append(wire, [value |-> value, age |-> 0])
  IN IF Len(all) > Depth THEN Tail(all) ELSE all

\* A guard tells only the required state from the others, and so do the messages.
Reading(s) == IF s = RequiredState THEN s ELSE "other"

ModeName(isAutonomous) == IF isAutonomous THEN "autonomous" ELSE "manual"

\* The constructor publishes the mode and the state; a guard that subscribes
\* later misses either.
Init ==
  /\ StateInit /\ GuardInit
  /\ up = TRUE
  /\ stateWire \in {<< >>, Push(<< >>, Reading(state))}
  /\ modeWire \in {<< >>, Push(<< >>, ModeName(autonomous))}
  /\ republishIn = Period /\ toRepublish = {}

----------------------------------------------------------------------------
(* The state machine's side.                                               *)

\* Mutant: a state that is left by a change of mode is not published.
PublishChangesOfOne ==
  /\ modeWire' = IF autonomous' # autonomous THEN Push(modeWire, ModeName(autonomous')) ELSE modeWire
  /\ stateWire' = IF state' # state /\ autonomous' = autonomous
                  THEN Push(stateWire, Reading(state')) ELSE stateWire

\* What changed is published in the same callback.
PublishChanges ==
  /\ modeWire' = IF autonomous' # autonomous THEN Push(modeWire, ModeName(autonomous')) ELSE modeWire
  /\ stateWire' = IF state' # state THEN Push(stateWire, Reading(state')) ELSE stateWire

RobotStep ==
  /\ up
  /\ StateNext
  /\ PublishChanges
  /\ UNCHANGED <<up, guardVars, timerVars>>

\* Mutant: the republishing timer fires once.
RepublishStateNever ==
  /\ up /\ "robot_state" \in toRepublish
  /\ toRepublish' = toRepublish \ {"robot_state"}
  /\ UNCHANGED <<stateVars, up, wireVars, guardVars, republishIn>>

RepublishState ==
  /\ up /\ "robot_state" \in toRepublish
  /\ toRepublish' = toRepublish \ {"robot_state"}
  /\ stateWire' = Push(stateWire, Reading(state))
  /\ UNCHANGED <<stateVars, up, modeWire, guardVars, republishIn>>

RepublishMode ==
  /\ up /\ "autonomous_mode" \in toRepublish
  /\ toRepublish' = toRepublish \ {"autonomous_mode"}
  /\ modeWire' = Push(modeWire, ModeName(autonomous))
  /\ UNCHANGED <<stateVars, up, stateWire, guardVars, republishIn>>

\* The robot of a crashed state machine is in no state: the last one is kept
\* only until the next start.
Crash ==
  /\ up
  /\ up' = FALSE /\ toRepublish' = {}
  /\ UNCHANGED <<stateVars, wireVars, guardVars, republishIn>>

\* The constructor of the new process publishes both; a guard whose subscription
\* it has not discovered yet misses either.
Restart ==
  /\ ~up
  /\ up' = TRUE
  /\ state' = "start-up" /\ autonomous' \in BOOLEAN
  /\ stateWire' \in {stateWire, Push(stateWire, Reading(state'))}
  /\ modeWire' \in {modeWire, Push(modeWire, ModeName(autonomous'))}
  /\ republishIn' = Period /\ toRepublish' = {}
  /\ UNCHANGED guardVars

----------------------------------------------------------------------------
(* The guard's side.                                                       *)

DeliverState ==
  /\ stateWire # << >>
  /\ StateCallback(Head(stateWire).value)
  /\ stateWire' = Tail(stateWire)
  /\ UNCHANGED <<stateVars, up, modeWire, timerVars>>

DeliverMode ==
  /\ modeWire # << >>
  /\ ModeCallback(Head(modeWire).value)
  /\ modeWire' = Tail(modeWire)
  /\ UNCHANGED <<stateVars, up, stateWire, timerVars>>

----------------------------------------------------------------------------
Aged(wire) == [i \in DOMAIN wire |-> [wire[i] EXCEPT !.age = @ + 1]]

InTime(wire) == \A i \in DOMAIN wire : wire[i].age < Delay

\* Time passes for messages in transit, timers and ages together.
Tick ==
  /\ InTime(stateWire) /\ InTime(modeWire) /\ toRepublish = {}
  /\ stateWire' = Aged(stateWire) /\ modeWire' = Aged(modeWire)
  /\ GuardTick
  /\ republishIn' = IF republishIn > 1 THEN republishIn - 1 ELSE Period
  /\ toRepublish' = IF up /\ republishIn = 1 THEN Topics ELSE {}
  /\ UNCHANGED <<stateVars, up>>

Next ==
  \/ RobotStep \/ RepublishState \/ RepublishMode \/ Crash \/ Restart
  \/ DeliverState \/ DeliverMode
  \/ Tick

\* A tick waits until the timers that are due are served and the messages that are
\* overdue have arrived, so all that has to be asked is that time passes.
Fairness == []<><<Tick>>_vars

Spec == Init /\ [][Next]_vars /\ Fairness
============================================================================
