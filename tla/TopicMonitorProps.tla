------------------------- MODULE TopicMonitorProps -------------------------
(***************************************************************************)
(* What is_alive of a TopicMonitor tells of its topic, whatever the        *)
(* content of the messages and whoever stops and starts the monitor.       *)
(* History variables remember the rhythm of the topic, how many failing    *)
(* messages in a row each filter has received, which expressions have been *)
(* failing that long ever since a pass began to read the conditions, and   *)
(* which attributes a check has left TRUE because it raised.               *)
(***************************************************************************)
EXTENDS TopicMonitor

VARIABLES
  silent,        \* ticks since the topic's last message, at most Silent
  bad,           \* failing messages in a row, at most Throttle
  failingSince,  \* of each pass
  leftOver       \* the checks which raised last, and had found the topic alive before

hvars == <<vars, silent, bad, failingSince, leftOver>>

AliveBound == 2 * MaxGap + CheckPeriod
Silent == AliveBound + 1

Failing == {l \in Lambdas : bad[l] = Throttle}

\* The attribute that a check writes is TRUE.
Says(check) == (check = "alive" /\ isAlive) \/ (check = "autonomy" /\ isAutonomyAlive)

HInit ==
  /\ Init
  /\ silent = Silent
  /\ bad = [l \in Lambdas |-> 0]
  /\ failingSince = [p \in Passes |-> {}]
  /\ leftOver = {}

PublishStep ==
  /\ Publish
  /\ silent' = 0
  /\ UNCHANGED <<bad, failingSince, leftOver>>

FilterStep(l, result) ==
  /\ CallbackFilter(l, result)
  /\ bad' = [bad EXCEPT ![l] =
               IF result # "false" THEN 0
               ELSE IF @ < Throttle THEN @ + 1 ELSE @]
  /\ failingSince' = [p \in Passes |-> failingSince[p] \cap Failing']
  /\ UNCHANGED <<silent, leftOver>>

CheckStep(check) ==
  /\ BeginCheck(check) \/ EndCheck(check)
  /\ leftOver' = IF stage'[check] = "idle" THEN leftOver \ {check} ELSE leftOver
  /\ UNCHANGED <<silent, bad, failingSince>>

CheckRaisesStep(check) ==
  /\ GetHzRaises(check)
  /\ leftOver' = leftOver \cup {c \in {check} : Says(c)}
  /\ UNCHANGED <<silent, bad, failingSince>>

PassMeasuresStep(p) ==
  /\ PassMeasures(p)
  /\ failingSince' = [failingSince EXCEPT ![p] = Failing]
  /\ UNCHANGED <<silent, bad, leftOver>>

OtherStep ==
  /\ \/ HzReads \/ HzRecords \/ HzRaises \/ PublishedCb
     \/ \E r \in Readers : ReadLast(r)
     \/ \E p \in Passes : PassBegins(p) \/ GetHzRaises(p)
     \/ \E p \in Passes, c \in SafetyCritical : PassReads(p, c)
     \/ Caller
  /\ UNCHANGED <<silent, bad, failingSince, leftOver>>

PassWritesStep(p) ==
  /\ PassWrites(p)
  /\ failingSince' = [failingSince EXCEPT ![p] = {}]
  /\ leftOver' = leftOver \ {"alive"}
  /\ UNCHANGED <<silent, bad>>

TickStep ==
  /\ Tick
  /\ silent' = IF silent < Silent THEN silent + 1 ELSE silent
  /\ UNCHANGED <<bad, failingSince, leftOver>>

HNext ==
  \/ PublishStep
  \/ \E l \in Lambdas, result \in Results : FilterStep(l, result)
  \/ \E check \in Checks : CheckStep(check) \/ CheckRaisesStep(check)
  \/ \E p \in Passes : PassMeasuresStep(p) \/ PassWritesStep(p)
  \/ OtherStep
  \/ TickStep

HSpec == HInit /\ [][HNext]_hvars /\ Fairness

----------------------------------------------------------------------------
(* Safety.                                                                 *)

\* A topic that is called alive has sent a message within twice the slowest
\* accepted interval and one period of the checks, even if the meter is stopped
\* and started in the middle of a check, and however the checks of two passes and
\* of the node overlap; unless the last check raised, for then it left the
\* attribute as it was (ROSTopicHz.py 82-127, TopicMonitor.py 160-178,
\* SafetyMonitor.py 72-73).
AliveIsRecent ==
  \A check \in Checks : Says(check) /\ check \notin leftOver => silent <= AliveBound

\* No check finds the topic alive after as many messages in a row that fail a
\* safety-critical expression as the filter skips, and no pass writes that it is
\* if they had come before it read the conditions and none has held since: the
\* throttle delays a failure and never hides it (ROSTopicFilter.py 104-129,
\* TopicMonitor.py 160-169).
BadContentIsSeen ==
  [][/\ isAlive' /\ EndCheck("alive") => SafetyCritical \cap Failing = {}
     /\ \A p \in Passes :
          isAlive' /\ PassWrites(p) => SafetyCritical \cap failingSince[p] = {}]_hvars

----------------------------------------------------------------------------
(* Liveness.                                                               *)

\* A topic that keeps to its rate and whose critical conditions hold is called
\* alive in the end, whatever its past: gaps leave the window, and no check can
\* raise for ever (ROSTopicHz.py 69-80, TopicMonitor.py 160-169).
Steady ==
  /\ <>[](silent <= MaxGap /\ subscribed /\ caller = "none" /\ AllHold(SafetyCritical))
  /\ <>[][Publish => silent = MaxGap]_hvars
SteadyTopicLives == Steady => <>[]isAlive
=============================================================================
