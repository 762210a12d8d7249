-------------------------- MODULE SentorNodeProps --------------------------
(***************************************************************************)
(* What the heartbeat of sentor_node.py tells of the robot itself, behind  *)
(* the monitors.  History variables remember for how long each target has  *)
(* been ill, or has not been measured, and whether the monitors were ever  *)
(* stopped.                                                                *)
(***************************************************************************)
EXTENDS SentorNode

VARIABLES
  ill,         \* ticks each target has not been proven without a break
  everStopped  \* stop_monitoring was called

hvars == <<sentorVars, ill, everStopped>>

\* How old the sighting may be that keeps a monitor alive until it is polled.
StaleFor(m) == PollPeriod + PassPeriod + (IF m \in NodeMonitors THEN SeenTimeout - 1 ELSE 0)
IllCap == PollPeriod + PassPeriod + SeenTimeout + 1

\* A topic is proven while its rate is measured, a node as long as it is there.
Proven(m) == healthy[m] /\ (m \in TopicMonitors => running[m])
IllAfterStep == [m \in Monitor |-> IF Proven(m)' THEN 0 ELSE ill[m]]

HInit ==
  /\ SentorInit
  /\ ill = [m \in Monitor |-> IF healthy[m] THEN 0 ELSE IllCap]
  /\ everStopped = FALSE

HealthStep(m) ==
  /\ HealthChanges(m)
  /\ ill' = IllAfterStep
  /\ UNCHANGED everStopped

ServiceStep ==
  /\ StopMonitoring \/ StartMonitoring \/ ShutdownHandler
  /\ ill' = IllAfterStep
  /\ everStopped' = (everStopped \/ StopMonitoring)

OtherStep == (Polls \/ SafetyStep) /\ UNCHANGED <<ill, everStopped>>

TickStep ==
  /\ SentorTick
  /\ ill' = [m \in Monitor |->
               IF Proven(m) THEN 0 ELSE IF ill[m] < IllCap THEN ill[m] + 1 ELSE IllCap]
  /\ UNCHANGED everStopped

HNext ==
  \/ OtherStep
  \/ ServiceStep
  \/ \E m \in Monitor : HealthStep(m)
  \/ TickStep

HSpec == HInit /\ [][HNext]_hvars /\ SentorFairness

----------------------------------------------------------------------------
(* Safety.                                                                 *)

NewsOf(m) == beat = "TRUE" => ill[m] <= StaleFor(m)

\* A beat of TRUE is recent news of every target: none of them has been ill for
\* longer than the periods and the timeout between it and the beat, whatever is
\* overridden, as long as the monitors run (NodeMonitor.py 55-66,
\* SafetyMonitor.py 69-99).
TrueBeatIsRecent == ~everStopped => \A m \in Monitor : NewsOf(m)

\* Of a topic it is recent news whatever services are called: within a check and
\* a pass of stop_monitoring the beat is no longer TRUE, and after a
\* start_monitoring that raised on a node monitor it is TRUE only of topics that
\* are measured again (sentor_node.py 38-48, TopicMonitor.py 212-218,
\* SafetyMonitor.py 69-99).
StoppedTopicIsNoNews == \A m \in TopicMonitors : NewsOf(m)

\* The README says of the beat that it is TRUE "only when all safety-critical
\* items pass", without the proviso.
TrueBeatMeansHealthy == \A m \in Monitor : NewsOf(m)

----------------------------------------------------------------------------
(* Liveness.                                                               *)

\* While the monitors run, a target that stays ill keeps the beat FALSE in the
\* end; so does a topic that stays unmeasured, whoever stopped it
\* (NodeMonitor.py 55-66, SafetyMonitor.py 69-99).
IllnessIsReported ==
  \A m \in Monitor :
    <>[](~Proven(m) /\ ~ended /\ (m \in NodeMonitors => ~everStopped))
      => <>[](beat = "FALSE")

\* A system that stays healthy gets its TRUE once the operator makes no more
\* overrides, whatever the last of them left behind (SafetyMonitor.py 81-119).
HealthIsReported ==
  <>[](/\ \A m \in Monitor : healthy[m]
       /\ ~everStopped /\ ~ended)
  /\ <>[][\A value \in BOOLEAN : Override(value) => CountdownDone]_vars
    => <>[](beat = "TRUE")
=============================================================================
