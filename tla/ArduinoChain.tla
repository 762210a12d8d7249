--------------------------- MODULE ArduinoChain ----------------------------
(***************************************************************************)
(* The robot as it was run before sentor_node.py: bridge_to_arduino.py,    *)
(* the test node sentor.py, and robot_state_machine.py, joined by their    *)
(* heartbeats.  The older state machine has the transitions of             *)
(* robot_state_machine_sentor.py, one timeout for both heartbeats, and     *)
(* publishes nothing but its changes, so it is that module with its        *)
(* constants; what the operator does stays free.                           *)
(*                                                                         *)
(* Every period of 0.1 s each node runs its timers, in any order with      *)
(* those of the others, and a message arrives in the period it was sent    *)
(* in; the beat of the bridge is best effort and may be lost.              *)
(***************************************************************************)
EXTENDS BridgeToArduino, HeartbeatSentor

CONSTANTS
  NoncritVerdicts,   \* what a check may find of the non-critical sources
  DeadmanTimeout,    \* deadman_timeout, in ticks
  HeartbeatTimeout,  \* _crit_hb_to and _noncrit_hb_to, which are equal
  Grace,             \* period of the auto-activation timer
  StartupDelay       \* period of the start-up timer

ASSUME ChainAssumption ==
  /\ NoncritVerdicts \subseteq BOOLEAN
  /\ DeadmanTimeout \in Nat /\ HeartbeatTimeout \in Nat
  /\ Grace \in Nat \ {0} /\ StartupDelay \in Nat \ {0}

VARIABLES
  state, autonomous, noncritOk, recover, lastNoncrit,
  deadmanAge, critAge, noncritAge, startupTimer, autoTimer, due

Machine == INSTANCE RobotStateMachine
           WITH CritTimeout <- HeartbeatTimeout,
                NoncritTimeout <- HeartbeatTimeout

machineVars ==
  <<state, autonomous, noncritOk, recover, lastNoncrit,
    deadmanAge, critAge, noncritAge, startupTimer, autoTimer, due>>

chainVars == <<bridgeVars, sentorVars, machineVars>>

ChainTypeOK == BridgeTypeOK /\ SentorTypeOK /\ Machine!TypeOK

Init == BridgeInit /\ SentorInit /\ Machine!Init

----------------------------------------------------------------------------
(* The bridge and its heartbeat.                                           *)

BridgeTimer ==
  /\ CheckArduinoTimeout \/ \E outcome \in Outcomes : SerialIo(outcome)
  /\ UNCHANGED <<sentorVars, machineVars>>

BridgeStartOrCrash ==
  /\ WaitForArduino \/ BridgeCrash
  /\ UNCHANGED <<sentorVars, machineVars>>

DeliverAlive ==
  /\ aliveWire # << >>
  /\ aliveWire' = << >>
  /\ HbMark \/ UNCHANGED sentorVars
  /\ UNCHANGED <<bridge, failures, arduinoAge, checkIn, bridgeDue, machineVars>>

SentorTimer ==
  /\ \E missing \in NoncritVerdicts : Check(missing)
  /\ UNCHANGED <<bridgeVars, machineVars>>

SentorStops ==
  /\ SentorCrash
  /\ UNCHANGED <<bridgeVars, machineVars>>

----------------------------------------------------------------------------
(* The older state machine.                                                *)

CritHb ==
  /\ critWire # << >>
  /\ Machine!CritHb(Head(critWire))
  /\ critWire' = << >>
  /\ UNCHANGED <<bridgeVars, sentorUp, markAge, checkDue, noncritWire>>

NoncritHb ==
  /\ noncritWire # << >>
  /\ Machine!NoncritHb(Head(noncritWire))
  /\ noncritWire' = << >>
  /\ UNCHANGED <<bridgeVars, sentorUp, markAge, checkDue, critWire>>

SetMode(mode)    == Machine!SetMode(mode)
SetState(req)    == Machine!SetState(req)
Deadman(pressed) == Machine!Deadman(pressed)

Operator ==
  /\ \/ \E mode \in BOOLEAN : SetMode(mode)
     \/ \E req \in Machine!States : SetState(req)
     \/ \E pressed \in BOOLEAN : Deadman(pressed)
  /\ UNCHANGED <<bridgeVars, sentorVars>>

StartupComplete    == Machine!StartupComplete
AutonomousGoActive == Machine!AutonomousGoActive
DeadmanWatchdog    == Machine!DeadmanWatchdog
CheckHeartbeats    == Machine!CheckHeartbeats

Timer ==
  /\ StartupComplete \/ AutonomousGoActive \/ DeadmanWatchdog \/ CheckHeartbeats
  /\ UNCHANGED <<bridgeVars, sentorVars>>

Tick == BridgeTick /\ SentorTick /\ Machine!Tick

Next ==
  \/ BridgeTimer \/ BridgeStartOrCrash \/ DeliverAlive \/ SentorTimer \/ SentorStops
  \/ CritHb \/ NoncritHb \/ Operator \/ Timer
  \/ Tick

\* Timers that are due run, messages arrive or are lost, time passes.
Fairness ==
  /\ WF_chainVars(BridgeTimer) /\ WF_chainVars(SentorTimer) /\ WF_chainVars(Timer)
  /\ WF_chainVars(DeliverAlive) /\ WF_chainVars(CritHb) /\ WF_chainVars(NoncritHb)
  /\ WF_chainVars(Tick)
============================================================================
