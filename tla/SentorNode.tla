----------------------------- MODULE SentorNode -----------------------------
(***************************************************************************)
(* What sentor_node.py puts behind one heartbeat: topic monitors and node  *)
(* monitors (NodeMonitor.py) that are polled at their own periods, the     *)
(* SafetyMonitor that reads them, and the services that stop and start     *)
(* them.  The beat may be either of the two: each registers the monitors   *)
(* that are critical for it, and for these is_alive of a node monitor and  *)
(* is_autonomy_alive agree (NodeMonitor.py 68).  The passes of both beats  *)
(* refresh is_alive of the topic monitors, which only the safety beat      *)
(* reads.                                                                  *)
(*                                                                         *)
(* Of a topic monitor only the verdict of its check is kept                *)
(* (TopicMonitor.tla has the rest).  The services touch one monitor after  *)
(* the other; nothing here tells the states in between from those before   *)
(* or after.                                                               *)
(***************************************************************************)
EXTENDS SafetyMonitor

CONSTANTS
  Refreshing,    \* the beat reads is_alive: it is the safety beat
  NodeMonitors,  \* the registered monitors that watch a node; the others watch a topic
  OtherNodes,    \* there are node monitors that are not critical for this beat
  PollPeriod,    \* 1 / poll_rate, and the period of the topics' checks, in ticks
  SeenTimeout    \* timeout of the node monitors, in ticks

ASSUME SentorAssumption ==
  /\ Refreshing \in BOOLEAN /\ OtherNodes \in BOOLEAN
  /\ NodeMonitors \subseteq 1 .. N
  /\ PollPeriod \in Nat \ {0} /\ SeenTimeout \in Nat \ {0}

TopicMonitors == Monitor \ NodeMonitors

VARIABLES
  healthy,    \* the node is in the graph; the topic keeps its rate and conditions
  seen,       \* age of _last_seen of a node monitor, or Never
  pollTimer,  \* ticks to the next poll or check
  running,    \* the monitor's node exists; the topic's rate is measured
  reporting,  \* the MultiMonitor is not stopped
  ended       \* the process has ended

monitorVars == <<healthy, seen, pollTimer, running>>
sentorVars == <<vars, monitorVars, reporting, ended>>

Never == -1

MonitorsTypeOK ==
  /\ healthy \in [Monitor -> BOOLEAN] /\ running \in [Monitor -> BOOLEAN]
  /\ seen \in [NodeMonitors -> {Never} \cup (0 .. SeenTimeout)]
  /\ pollTimer \in [Monitor -> 0 .. PollPeriod]
  /\ reporting \in BOOLEAN /\ ended \in BOOLEAN

SentorTypeOK == TypeOK /\ MonitorsTypeOK

SentorInit ==
  /\ Init
  /\ healthy \in [Monitor -> BOOLEAN]
  /\ seen = [m \in NodeMonitors |-> Never]
  /\ pollTimer \in [Monitor -> 1 .. PollPeriod]
  /\ running = [m \in Monitor |-> TRUE]
  /\ reporting = TRUE /\ ended = FALSE

----------------------------------------------------------------------------
(* The monitors.                                                           *)

\* Mutant: the age of the last sighting is never looked at.
SeenInTimeEver(age) == age # Never

SeenInTime(age) == age # Never /\ age < SeenTimeout

\* Mutant: the sighting is recorded after the verdict.
PollNodeLate(m) ==
  /\ ~ended /\ running[m] /\ pollTimer[m] = 0
  /\ pollTimer' = [pollTimer EXCEPT ![m] = PollPeriod]
  /\ seen' = [seen EXCEPT ![m] = IF healthy[m] THEN 0 ELSE @]
  /\ alive' = [alive EXCEPT ![m] = SeenInTime(seen[m])]
  /\ UNCHANGED <<safetyVars, healthy, running, reporting, ended>>

\* _on_timer of a node monitor; a destroyed node has no timers any more.
PollNode(m) ==
  /\ ~ended /\ running[m] /\ pollTimer[m] = 0
  /\ pollTimer' = [pollTimer EXCEPT ![m] = PollPeriod]
  /\ seen' = [seen EXCEPT ![m] = IF healthy[m] THEN 0 ELSE @]
  /\ alive' = [alive EXCEPT ![m] = SeenInTime(seen'[m])]
  /\ UNCHANGED <<safetyVars, healthy, running, reporting, ended>>

\* Mutant: a topic that is stopped keeps its verdict, as a node does.
TopicVerdictFrozen(m) == IF running[m] THEN healthy[m] ELSE alive[m]

\* What a check of a topic finds: a meter that is stopped has no rate.
TopicVerdict(m) == running[m] /\ healthy[m]

\* The check of a topic monitor; its timer runs on when the meter is stopped.
CheckTopic(m) ==
  /\ ~ended /\ pollTimer[m] = 0
  /\ pollTimer' = [pollTimer EXCEPT ![m] = PollPeriod]
  /\ alive' = [alive EXCEPT ![m] = TopicVerdict(m)]
  /\ UNCHANGED <<safetyVars, healthy, seen, running, reporting, ended>>

\* A pass of the other beat refreshes is_alive of a topic both have registered.
OtherPass(m) ==
  /\ ~ended /\ Refreshing
  /\ alive' = [alive EXCEPT ![m] = TopicVerdict(m)]
  /\ UNCHANGED <<safetyVars, monitorVars, reporting, ended>>

----------------------------------------------------------------------------
(* The services of sentor_node.py and its signal handler.                  *)

\* The meters of the topics are switched off, the nodes of the others destroyed.
StopMonitoring ==
  /\ ~ended
  /\ running' = [m \in Monitor |-> FALSE]
  /\ reporting' = FALSE
  /\ UNCHANGED <<vars, healthy, seen, pollTimer, ended>>

NodesToStart == NodeMonitors # {} \/ OtherNodes

\* A node monitor, critical for this beat or not, has no start_monitor: the first
\* one makes the service raise, before the MultiMonitor is started.  The executor
\* raises this again and ends the process, or drops it, as the version of rclpy
\* will have it.
StartMonitoring ==
  /\ ~ended
  /\ running' = [m \in Monitor |-> running[m] \/ m \in TopicMonitors]
  /\ reporting' = (reporting \/ ~NodesToStart)
  /\ ended' \in IF NodesToStart THEN BOOLEAN ELSE {FALSE}
  /\ UNCHANGED <<vars, healthy, seen, pollTimer>>

\* SIGINT: everything is stopped and rclpy shut down.
ShutdownHandler ==
  /\ ~ended
  /\ running' = [m \in Monitor |-> FALSE]
  /\ reporting' = FALSE /\ ended' = TRUE
  /\ UNCHANGED <<vars, healthy, seen, pollTimer>>

----------------------------------------------------------------------------
(* The SafetyMonitor, the world and the clock.                             *)

\* What the monitors say once the pass has refreshed the one it reads.
Refreshed ==
  IF Refreshing /\ pos \in TopicMonitors
    THEN [alive EXCEPT ![pos] = TopicVerdict(pos)]
    ELSE alive

\* No one stops the SafetyMonitor: the services leave it alone.
SafetyStep ==
  /\ ~ended /\ alive' = Refreshed
  /\ Pass \/ CountdownDone \/ \E value \in BOOLEAN : Override(value)
  /\ UNCHANGED <<monitorVars, reporting, ended>>

HealthChanges(m) ==
  /\ healthy' = [healthy EXCEPT ![m] = ~@]
  /\ UNCHANGED <<vars, seen, pollTimer, running, reporting, ended>>

Ticking(m) == running[m] \/ m \in TopicMonitors

SentorTick ==
  /\ ~ended /\ Tick
  /\ \A m \in Monitor : Ticking(m) => pollTimer[m] # 0
  /\ pollTimer' = [m \in Monitor |-> IF Ticking(m) THEN pollTimer[m] - 1
                                                   ELSE pollTimer[m]]
  /\ seen' = [m \in NodeMonitors |->
                IF seen[m] \in {Never, SeenTimeout} THEN seen[m] ELSE seen[m] + 1]
  /\ UNCHANGED <<healthy, running, reporting, ended>>

Polls ==
  \/ \E m \in NodeMonitors : PollNode(m)
  \/ \E m \in TopicMonitors : CheckTopic(m) \/ OtherPass(m)

SentorNext ==
  \/ Polls
  \/ StopMonitoring \/ StartMonitoring \/ ShutdownHandler
  \/ SafetyStep
  \/ \E m \in Monitor : HealthChanges(m)
  \/ SentorTick

\* The executor serves the timers of every node it spins, and time passes.
SentorFairness ==
  /\ \A m \in NodeMonitors : WF_sentorVars(PollNode(m))
  /\ \A m \in TopicMonitors : WF_sentorVars(CheckTopic(m))
  /\ WF_sentorVars(SafetyStep /\ (Pass \/ CountdownDone))
  /\ WF_sentorVars(SentorTick)

SentorSpec == SentorInit /\ [][SentorNext]_sentorVars /\ SentorFairness

=============================================================================
