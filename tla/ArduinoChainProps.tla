------------------------- MODULE ArduinoChainProps -------------------------
(***************************************************************************)
(* What the three nodes promise together: the whole chain is one watchdog  *)
(* over the bridge.  History variables measure the silence of the bridge   *)
(* and for how long the robot has been ENABLED or ACTIVE.                  *)
(***************************************************************************)
EXTENDS ArduinoChain

VARIABLES
  silence,  \* ticks since the bridge last published its heartbeat
  held      \* periods that have ended since it was last not Driving, up to 2

hvars == <<chainVars, silence, held>>

Driving == state \in {"enabled", "active"}

\* The timeouts of the two listeners add up.
Bound == MarkTimeout + HeartbeatTimeout

HInit == Init /\ silence = 0 /\ held = 0

\* What is on the wire was published in this period.
BridgeHistory ==
  /\ BridgeTimer \/ BridgeStartOrCrash
  /\ silence' = IF aliveWire' # << >> THEN 0 ELSE silence
  /\ UNCHANGED held

OtherHistory ==
  /\ DeliverAlive \/ SentorTimer \/ SentorStops \/ CritHb \/ NoncritHb \/ Operator \/ Timer
  /\ held' = IF Driving' THEN held ELSE 0
  /\ UNCHANGED silence

TickHistory ==
  /\ Tick
  /\ silence' = IF silence > Bound + 1 THEN silence ELSE silence + 1
  /\ held' = IF ~Driving THEN 0 ELSE IF held = 2 THEN 2 ELSE held + 1

HNext == BridgeHistory \/ OtherHistory \/ TickHistory

HSpec == HInit /\ [][HNext]_hvars /\ Fairness

----------------------------------------------------------------------------
\* The three nodes implement one Watchdog: when the bridge, which may have given
\* up or been killed, has been silent for longer than both timeouts together, no
\* robot is ENABLED or ACTIVE, but for the period in which the operator enabled it
\* again; a beat that is lost or a sentor that is gone makes it no later
\* (sentor.py 81-101, robot_state_machine.py 178-205).
Chain == INSTANCE Watchdog WITH tripped <- ~Driving
ChainIsWatchdog == Chain!WatchSpec

\* A serial line that is dead disables the robot for good: the write fails, the
\* bridge gives up, its FALSE beats, which count as beats, come to an end and the
\* silence runs through both listeners, unless the operator goes on enabling
\* (bridge_to_arduino.py 91-123).
Written  == SerialIo("done") \/ SerialIo("garbled")
Enabling == ~Driving /\ Driving'
DeadLinkDisables == <>[][~Written /\ ~Enabling]_hvars => <>[]~Driving
============================================================================
