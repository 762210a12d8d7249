-------------------------- MODULE SentorNodeProofs --------------------------
(***************************************************************************)
(* Proofs about sentor_node.py: a beat of TRUE is recent news of every     *)
(* target, and of a topic whatever services are called, for every set of   *)
(* monitors, every period and every timeout.                               *)
(***************************************************************************)
EXTENDS SentorNodeProps, TLAPS

----------------------------------------------------------------------------
(* The types of the SafetyMonitor, as its own proofs have them: its        *)
(* history variables play no part in them.                                 *)

Alone == INSTANCE SafetyMonitorProofs
           WITH clean <- 0, overridden <- FALSE, deadSince <- {}

LEMMA SameTypes == TypeOK <=> Alone!TypeOK
  BY DEF TypeOK, Alone!TypeOK, FlagsTypeOK, Alone!FlagsTypeOK, ClocksTypeOK,
         Alone!ClocksTypeOK, Monitor, Alone!Monitor, Idle, Alone!Idle, Off,
         Alone!Off

LEMMA SameSteps == [Next]_vars => [Alone!Next]_(Alone!vars)
  BY DEF Next, Alone!Next, vars, Alone!vars, safetyVars, Alone!safetyVars,
         passVars, Alone!passVars, eventVars, Alone!eventVars, Pass,
         Alone!Pass, BeginPass, Alone!BeginPass, ReadMonitor,
         Alone!ReadMonitor, EndPassAlive, Alone!EndPassAlive, EndPassDead,
         Alone!EndPassDead, CountdownDone, Alone!CountdownDone, Override,
         Alone!Override, SetStopped, Alone!SetStopped, MonitorChanges,
         Alone!MonitorChanges, Tick, Alone!Tick, Publish, Alone!Publish,
         Countdown, Alone!Countdown, Monitor, Alone!Monitor, Idle, Alone!Idle,
         Off, Alone!Off

LEMMA InitTypeOK == Init => TypeOK
<1>1. Alone!Init => Alone!TypeOK
  BY Alone!InitTypeOK, SafetyAssumption DEF SafetyAssumption
<1>2. QED
  BY <1>1, SameTypes DEF Init, Alone!Init, Idle, Alone!Idle, Off, Alone!Off,
                         Monitor, Alone!Monitor

LEMMA NextTypeOK == TypeOK /\ [Next]_vars => TypeOK'
<1>1. Alone!TypeOK /\ [Alone!Next]_(Alone!vars) => Alone!TypeOK'
  BY Alone!NextTypeOK, SafetyAssumption DEF SafetyAssumption
<1>2. TypeOK' <=> Alone!TypeOK'
  BY DEF TypeOK, Alone!TypeOK, FlagsTypeOK, Alone!FlagsTypeOK, ClocksTypeOK,
         Alone!ClocksTypeOK, Monitor, Alone!Monitor, Idle, Alone!Idle, Off,
         Alone!Off
<1>3. QED
  BY <1>1, <1>2, SameTypes, SameSteps

----------------------------------------------------------------------------
(* Each step of the node is a step of the SafetyMonitor or a stutter, so   *)
(* its types are kept.                                                     *)

\* A verdict either flips the attribute or leaves it.
LEMMA VerdictStep ==
  ASSUME FlagsTypeOK, NEW m \in Monitor, NEW verdict \in BOOLEAN,
         alive' = [alive EXCEPT ![m] = verdict], UNCHANGED safetyVars
  PROVE  [MonitorChanges(m)]_vars
<1>1. CASE verdict = alive[m]
  <2>1. alive' = alive
    BY <1>1 DEF FlagsTypeOK
  <2>2. QED
    BY <2>1 DEF vars
<1>2. CASE verdict # alive[m]
  <2>1. alive[m] \in BOOLEAN
    BY DEF FlagsTypeOK
  <2>2. verdict = ~alive[m]
    BY <1>2, <2>1
  <2>3. QED
    BY <2>2 DEF MonitorChanges
<1>3. QED
  BY <1>1, <1>2

LEMMA SentorStep == SentorTypeOK /\ [SentorNext]_sentorVars => [Next]_vars
<1> SUFFICES ASSUME SentorTypeOK, [SentorNext]_sentorVars PROVE [Next]_vars
  OBVIOUS
<1>0. FlagsTypeOK
  BY DEF SentorTypeOK, TypeOK
<1>1. ASSUME NEW m \in NodeMonitors, PollNode(m) PROVE [Next]_vars
  <2>1. m \in Monitor
    BY SentorAssumption DEF Monitor
  <2>2. SeenInTime(seen'[m]) \in BOOLEAN
    BY DEF SeenInTime
  <2>3. [MonitorChanges(m)]_vars
    BY <1>0, <1>1, <2>1, <2>2, VerdictStep DEF PollNode
  <2>4. QED
    BY <2>1, <2>3 DEF Next
<1>2. ASSUME NEW m \in TopicMonitors, CheckTopic(m) \/ OtherPass(m) PROVE [Next]_vars
  <2>1. m \in Monitor
    BY DEF TopicMonitors
  <2>2. TopicVerdict(m) \in BOOLEAN
    <3>1. running[m] \in BOOLEAN /\ healthy[m] \in BOOLEAN
      BY <2>1 DEF SentorTypeOK, MonitorsTypeOK
    <3>2. QED
      BY <3>1 DEF TopicVerdict
  <2>a. alive' = [alive EXCEPT ![m] = TopicVerdict(m)] /\ UNCHANGED safetyVars
    BY <1>2 DEF CheckTopic, OtherPass
  <2>3. [MonitorChanges(m)]_vars
    BY <1>0, <2>a, <2>1, <2>2, VerdictStep
  <2>4. QED
    BY <2>1, <2>3 DEF Next
<1>3. CASE StopMonitoring \/ StartMonitoring \/ ShutdownHandler
  BY <1>3 DEF StopMonitoring, StartMonitoring, ShutdownHandler
<1>4. CASE SafetyStep
  BY <1>4 DEF SafetyStep, Next
<1>5. ASSUME NEW m \in Monitor, HealthChanges(m) PROVE [Next]_vars
  BY <1>5 DEF HealthChanges
<1>6. CASE SentorTick
  BY <1>6 DEF SentorTick, Next
<1>7. CASE UNCHANGED sentorVars
  BY <1>7 DEF sentorVars
<1>8. QED
  BY <1>1, <1>2, <1>3, <1>4, <1>5, <1>6, <1>7 DEF SentorNext, Polls

----------------------------------------------------------------------------
(* Types.                                                                  *)

FlagsOK ==
  /\ healthy \in [Monitor -> BOOLEAN] /\ running \in [Monitor -> BOOLEAN]
  /\ reporting \in BOOLEAN /\ ended \in BOOLEAN

AgesOK ==
  /\ seen \in [NodeMonitors -> {Never} \cup (0 .. SeenTimeout)]
  /\ pollTimer \in [Monitor -> 0 .. PollPeriod]

LEMMA InitMonitors == SentorInit => FlagsOK /\ AgesOK
<1> SUFFICES ASSUME SentorInit PROVE FlagsOK /\ AgesOK
  OBVIOUS
<1>1. FlagsOK
  BY DEF SentorInit, FlagsOK
<1>2. seen \in [NodeMonitors -> {Never} \cup (0 .. SeenTimeout)]
  BY DEF SentorInit
<1>3. pollTimer \in [Monitor -> 0 .. PollPeriod]
  BY SentorAssumption DEF SentorInit
<1>4. QED
  BY <1>1, <1>2, <1>3 DEF AgesOK

LEMMA FlagsStep == FlagsOK /\ [SentorNext]_sentorVars => FlagsOK'
<1> SUFFICES ASSUME FlagsOK, [SentorNext]_sentorVars PROVE FlagsOK'
  OBVIOUS
<1> USE DEF FlagsOK
<1>1. CASE Polls
  BY <1>1 DEF Polls, PollNode, CheckTopic, OtherPass, monitorVars
<1>2. CASE StopMonitoring
  BY <1>2 DEF StopMonitoring
<1>3. CASE StartMonitoring
  <2>1. ended' \in BOOLEAN
    BY <1>3 DEF StartMonitoring
  <2>2. QED
    BY <1>3, <2>1 DEF StartMonitoring
<1>4. CASE ShutdownHandler
  BY <1>4 DEF ShutdownHandler
<1>5. CASE SafetyStep \/ SentorTick
  BY <1>5 DEF SafetyStep, SentorTick, monitorVars
<1>6. CASE \E m \in Monitor : HealthChanges(m)
  BY <1>6 DEF HealthChanges
<1>7. CASE UNCHANGED sentorVars
  BY <1>7 DEF sentorVars, monitorVars
<1>8. QED
  BY <1>1, <1>2, <1>3, <1>4, <1>5, <1>6, <1>7 DEF SentorNext

LEMMA AgesStep == AgesOK /\ [SentorNext]_sentorVars => AgesOK'
<1> SUFFICES ASSUME AgesOK, [SentorNext]_sentorVars PROVE AgesOK'
  OBVIOUS
<1>0. ASSUME NEW m, pollTimer' = [pollTimer EXCEPT ![m] = PollPeriod]
      PROVE  pollTimer' \in [Monitor -> 0 .. PollPeriod]
  <2>1. PollPeriod \in 0 .. PollPeriod
    BY SentorAssumption
  <2>2. QED
    BY <1>0, <2>1 DEF AgesOK
<1> USE SentorAssumption DEF AgesOK, Never
<1>1. ASSUME NEW m \in NodeMonitors, PollNode(m) PROVE AgesOK'
  <2>1. seen' \in [NodeMonitors -> {Never} \cup (0 .. SeenTimeout)]
    BY <1>1 DEF PollNode
  <2>2. pollTimer' \in [Monitor -> 0 .. PollPeriod]
    BY <1>0, <1>1 DEF PollNode
  <2>3. QED
    BY <2>1, <2>2
<1>2. ASSUME NEW m \in TopicMonitors, CheckTopic(m) PROVE AgesOK'
  <2>1. seen' = seen
    BY <1>2 DEF CheckTopic
  <2>2. pollTimer' \in [Monitor -> 0 .. PollPeriod]
    BY <1>0, <1>2 DEF CheckTopic
  <2>3. QED
    BY <2>1, <2>2
<1>3. CASE StopMonitoring \/ StartMonitoring \/ ShutdownHandler \/ SafetyStep
  BY <1>3 DEF StopMonitoring, StartMonitoring, ShutdownHandler, SafetyStep, monitorVars
<1>a. CASE \E m \in TopicMonitors : OtherPass(m)
  BY <1>a DEF OtherPass, monitorVars
<1>4. CASE \E m \in Monitor : HealthChanges(m)
  BY <1>4 DEF HealthChanges
<1>5. CASE SentorTick
  <2>1. seen' \in [NodeMonitors -> {Never} \cup (0 .. SeenTimeout)]
    BY <1>5 DEF SentorTick
  <2>2. pollTimer' \in [Monitor -> 0 .. PollPeriod]
    BY <1>5 DEF SentorTick
  <2>3. QED
    BY <2>1, <2>2
<1>6. CASE UNCHANGED sentorVars
  BY <1>6 DEF sentorVars, monitorVars
<1>7. QED
  BY <1>1, <1>2, <1>a, <1>3, <1>4, <1>5, <1>6 DEF SentorNext, Polls

LEMMA SentorTypeStep == SentorTypeOK /\ [SentorNext]_sentorVars => SentorTypeOK'
<1> SUFFICES ASSUME SentorTypeOK, [SentorNext]_sentorVars PROVE SentorTypeOK'
  OBVIOUS
<1>1. TypeOK'
  BY SentorStep, NextTypeOK DEF SentorTypeOK
<1>2. MonitorsTypeOK'
  BY FlagsStep, AgesStep DEF SentorTypeOK, MonitorsTypeOK, FlagsOK, AgesOK
<1>3. QED
  BY <1>1, <1>2 DEF SentorTypeOK

LEMMA SentorInitTypeOK == SentorInit => SentorTypeOK
  BY InitTypeOK, InitMonitors DEF SentorInit, SentorTypeOK, MonitorsTypeOK, FlagsOK, AgesOK

LEMMA HistStep == [HNext]_hvars => [SentorNext]_sentorVars
  BY DEF HNext, hvars, SentorNext, OtherStep, ServiceStep, HealthStep, TickStep

\* Every variable of the monitors and of the SafetyMonitor keeps its type.
THEOREM SentorTypeCorrect == HSpec => []SentorTypeOK
<1>1. HInit => SentorTypeOK
  BY SentorInitTypeOK DEF HInit
<1>2. QED
  BY <1>1, SentorTypeStep, HistStep, PTL DEF HSpec

----------------------------------------------------------------------------
(* How old the news behind a beat is, from the target to the beat.         *)

HistTypeOK == ill \in [Monitor -> Nat] /\ everStopped \in BOOLEAN

\* Stopping a topic is news; stopping a node monitor freezes it.
Vouched(m) == m \in NodeMonitors => ~everStopped

\* No one stops the SafetyMonitor, and the monitors run until they are stopped.
NothingStops ==
  /\ ~stopped
  /\ \A m \in Monitor : everStopped \/ ended \/ running[m]

\* A sighting is at least as old as the illness that follows it.
SightingIsRecent ==
  /\ \A m \in Monitor : Proven(m) => ill[m] = 0
  /\ \A m \in NodeMonitors : SeenInTime(seen[m]) => ill[m] <= seen[m]

Lag(m) == IF m \in NodeMonitors THEN SeenTimeout - 1 ELSE 0

\* A verdict adds the age of the sighting and ages until the next poll.
VerdictIsRecent ==
  \A m \in Monitor :
    alive[m] /\ Vouched(m) => ill[m] <= Lag(m) + PollPeriod - pollTimer[m]

\* No time passes while the monitors are read.
PassIsRecent ==
  pos # Idle /\ allAlive =>
    \A m \in Monitor : m < pos /\ Vouched(m) => ill[m] <= Lag(m) + PollPeriod

\* The beat ages until the next pass is over.
LastBeatIsRecent ==
  beat = "TRUE" =>
    \A m \in Monitor : Vouched(m) =>
      ill[m] <= Lag(m) + PollPeriod + PassPeriod - (IF pos = Idle THEN passTimer ELSE 0)

RecencyInv ==
  /\ HistTypeOK /\ NothingStops /\ SightingIsRecent
  /\ VerdictIsRecent /\ PassIsRecent /\ LastBeatIsRecent

LEMMA LagType == \A m \in Monitor : Lag(m) \in Nat
  BY SentorAssumption DEF Lag

LEMMA InitRecency == HInit => RecencyInv
<1> SUFFICES ASSUME HInit PROVE RecencyInv
  OBVIOUS
<1> USE DEF HInit, SentorInit, Init
<1>1. HistTypeOK
  <2>1. IllCap \in Nat
    BY SafetyAssumption, SentorAssumption DEF IllCap
  <2>2. QED
    BY <2>1 DEF HistTypeOK
<1>2. NothingStops
  BY DEF NothingStops
<1>3. SightingIsRecent
  BY SentorAssumption DEF SightingIsRecent, SeenInTime, Never, Monitor, Proven
<1>4. VerdictIsRecent /\ PassIsRecent /\ LastBeatIsRecent
  BY DEF VerdictIsRecent, PassIsRecent, LastBeatIsRecent
<1>5. QED
  BY <1>1, <1>2, <1>3, <1>4 DEF RecencyInv

LEMMA HistTypeStep == HistTypeOK /\ [HNext]_hvars => HistTypeOK'
<1> SUFFICES ASSUME HistTypeOK, [HNext]_hvars PROVE HistTypeOK'
  OBVIOUS
<1> USE DEF HistTypeOK
<1>1. CASE OtherStep
  BY <1>1 DEF OtherStep
<1>2. CASE ServiceStep
  BY <1>2 DEF ServiceStep, IllAfterStep
<1>3. CASE \E m \in Monitor : HealthStep(m)
  BY <1>3 DEF HealthStep, IllAfterStep
<1>4. CASE TickStep
  <2>1. IllCap \in Nat
    BY SafetyAssumption, SentorAssumption DEF IllCap
  <2>2. \A m \in Monitor : ill[m] \in Nat
    OBVIOUS
  <2>3. ill' \in [Monitor -> Nat]
    BY <1>4, <2>1, <2>2 DEF TickStep
  <2>4. QED
    BY <1>4, <2>3 DEF TickStep
<1>5. CASE UNCHANGED hvars
  BY <1>5 DEF hvars
<1>6. QED
  BY <1>1, <1>2, <1>3, <1>4, <1>5 DEF HNext

\* Only a tick lengthens an illness, and only of who is not proven.
LEMMA IllGrows ==
  ASSUME HistTypeOK, [HNext]_hvars, NEW m \in Monitor
  PROVE  /\ ill[m] \in Nat /\ ill'[m] \in Nat
         /\ ill'[m] <= ill[m] + 1
         /\ ~TickStep => ill'[m] <= ill[m]
         /\ Proven(m) /\ TickStep => ill'[m] = 0
<1>0. ill[m] \in Nat /\ ill'[m] \in Nat
  BY HistTypeStep DEF HistTypeOK
<1>1. CASE TickStep
  <2>1. ill'[m] = IF Proven(m) THEN 0 ELSE IF ill[m] < IllCap THEN ill[m] + 1 ELSE IllCap
    BY <1>1 DEF TickStep
  <2>2. IllCap \in Nat
    BY SafetyAssumption, SentorAssumption DEF IllCap
  <2>3. QED
    BY <1>0, <1>1, <2>1, <2>2
<1>2. CASE ~TickStep
  <2>1. ill'[m] <= ill[m]
    <3>1. CASE ServiceStep \/ \E k \in Monitor : HealthStep(k)
      <4>1. ill' = IllAfterStep
        BY <3>1 DEF ServiceStep, HealthStep
      <4>2. ill'[m] \in {0, ill[m]}
        BY <4>1 DEF IllAfterStep
      <4>3. QED
        BY <1>0, <4>2
    <3>2. CASE OtherStep \/ UNCHANGED hvars
      <4>1. ill' = ill
        BY <3>2 DEF OtherStep, hvars
      <4>2. QED
        BY <1>0, <4>1
    <3>3. QED
      BY <1>2, <3>1, <3>2 DEF HNext
  <2>2. QED
    BY <1>0, <1>2, <2>1
<1>3. QED
  BY <1>1, <1>2

LEMMA ServiceLeavesSafety ==
  ASSUME ServiceStep
  PROVE  UNCHANGED <<vars, pollTimer>> /\ (everStopped => everStopped')
<1>1. UNCHANGED vars
  BY DEF ServiceStep, StopMonitoring, StartMonitoring, ShutdownHandler
<1>2. UNCHANGED pollTimer
  BY DEF ServiceStep, StopMonitoring, StartMonitoring, ShutdownHandler
<1>3. everStopped => everStopped'
  BY DEF ServiceStep
<1>4. QED
  BY <1>1, <1>2, <1>3

LEMMA NothingStopsStep == NothingStops /\ [HNext]_hvars => NothingStops'
<1> SUFFICES ASSUME NothingStops, [HNext]_hvars PROVE NothingStops'
  OBVIOUS
<1> USE DEF NothingStops
<1>1. CASE OtherStep
  <2>1. CASE Polls
    BY <1>1, <2>1 DEF OtherStep, Polls, PollNode, CheckTopic, OtherPass, safetyVars, monitorVars
  <2>2. CASE SafetyStep
    <3>1. UNCHANGED stopped
      BY <2>2 DEF SafetyStep, Pass, BeginPass, ReadMonitor, EndPassAlive, EndPassDead,
                  CountdownDone, Override
    <3>2. QED
      BY <1>1, <2>2, <3>1 DEF OtherStep, SafetyStep, monitorVars
  <2>3. QED
    BY <1>1, <2>1, <2>2 DEF OtherStep
<1>2. CASE ServiceStep
  <2>1. UNCHANGED stopped
    BY <1>2, ServiceLeavesSafety DEF vars, safetyVars
  <2>2. CASE StopMonitoring
    <3>1. everStopped'
      BY <1>2, <2>2 DEF ServiceStep
    <3>2. QED
      BY <2>1, <3>1
  <2>3. CASE StartMonitoring
    <3>1. \A m \in Monitor : running[m] => running'[m]
      BY <2>3 DEF StartMonitoring
    <3>2. ended => ended'
      BY <2>3 DEF StartMonitoring
    <3>3. QED
      BY <1>2, <2>1, <3>1, <3>2, ServiceLeavesSafety
  <2>4. CASE ShutdownHandler
    <3>1. ended'
      BY <2>4 DEF ShutdownHandler
    <3>2. QED
      BY <2>1, <3>1
  <2>5. QED
    BY <1>2, <2>2, <2>3, <2>4 DEF ServiceStep
<1>3. CASE \E m \in Monitor : HealthStep(m)
  BY <1>3 DEF HealthStep, HealthChanges, vars, safetyVars
<1>4. CASE TickStep
  BY <1>4 DEF TickStep, SentorTick, Tick
<1>5. CASE UNCHANGED hvars
  BY <1>5 DEF hvars, sentorVars, vars, safetyVars, monitorVars
<1>6. QED
  BY <1>1, <1>2, <1>3, <1>4, <1>5 DEF HNext

\* A sighting is forgotten no faster than the illness grows.
LEMMA SightingStep ==
  SentorTypeOK /\ HistTypeOK /\ SightingIsRecent /\ [HNext]_hvars => SightingIsRecent'
<1> SUFFICES ASSUME SentorTypeOK, HistTypeOK, SightingIsRecent, [HNext]_hvars
             PROVE  SightingIsRecent'
  OBVIOUS
<1>a. \A m \in NodeMonitors : m \in Monitor
  BY SentorAssumption DEF Monitor
<1>b. \A m \in NodeMonitors : seen[m] \in {Never} \cup (0 .. SeenTimeout)
  BY DEF SentorTypeOK, MonitorsTypeOK
<1>c. \A m \in NodeMonitors : m \notin TopicMonitors
  BY DEF TopicMonitors
<1>1. CASE OtherStep
  <2>1. UNCHANGED <<ill, healthy, running>>
    BY <1>1 DEF OtherStep, Polls, PollNode, CheckTopic, OtherPass, SafetyStep, monitorVars
  <2>2. ASSUME NEW m \in NodeMonitors, SeenInTime(seen'[m]) PROVE ill'[m] <= seen'[m]
    <3>1. CASE seen'[m] = seen[m]
      BY <2>1, <2>2, <3>1 DEF SightingIsRecent
    <3>2. CASE seen'[m] # seen[m]
      <4>1. healthy[m] /\ seen'[m] = 0
        <5>1. ~SafetyStep
          BY <3>2 DEF SafetyStep, monitorVars
        <5>2. ~\E k \in TopicMonitors : CheckTopic(k) \/ OtherPass(k)
          BY <3>2 DEF CheckTopic, OtherPass, monitorVars
        <5>3. PICK k \in NodeMonitors : PollNode(k)
          BY <1>1, <5>1, <5>2 DEF OtherStep, Polls
        <5>4. seen' = [seen EXCEPT ![k] = IF healthy[k] THEN 0 ELSE @]
          BY <5>3 DEF PollNode
        <5>5. QED
          BY <3>2, <5>4 DEF SentorTypeOK, MonitorsTypeOK
      <4>2. QED
        BY <1>a, <1>c, <2>1, <4>1 DEF SightingIsRecent, Proven
    <3>3. QED
      BY <3>1, <3>2
  <2>3. QED
    BY <2>1, <2>2 DEF SightingIsRecent, Proven
<1>2. CASE UNCHANGED hvars
  BY <1>2 DEF hvars, sentorVars, monitorVars, SightingIsRecent, Proven
<1>3. CASE ServiceStep \/ \E k \in Monitor : HealthStep(k)
  <2>1. ill' = IllAfterStep /\ UNCHANGED seen
    BY <1>3 DEF ServiceStep, StopMonitoring, StartMonitoring, ShutdownHandler,
                HealthStep, HealthChanges
  <2>2. \A m \in Monitor : Proven(m)' => ill'[m] = 0
    BY <2>1 DEF IllAfterStep
  <2>3. \A m \in Monitor : ill'[m] \in {0, ill[m]}
    BY <2>1 DEF IllAfterStep
  <2>4. ASSUME NEW m \in NodeMonitors, SeenInTime(seen'[m]) PROVE ill'[m] <= seen'[m]
    <3>1. ill'[m] \in {0, ill[m]} /\ ill[m] <= seen[m] /\ ill[m] \in Nat
      BY <1>a, <2>1, <2>3, <2>4 DEF SightingIsRecent, HistTypeOK
    <3>2. QED
      BY <1>b, <2>1, <3>1, SentorAssumption DEF Never
  <2>5. QED
    BY <2>2, <2>4 DEF SightingIsRecent
<1>4. CASE TickStep
  <2>1. UNCHANGED <<healthy, running>>
    BY <1>4 DEF TickStep, SentorTick
  <2>2. \A m \in Monitor : Proven(m)' => ill'[m] = 0
    BY <1>4, <2>1, IllGrows DEF Proven
  <2>3. ASSUME NEW m \in NodeMonitors, SeenInTime(seen'[m]) PROVE ill'[m] <= seen'[m]
    <3>1. seen'[m] = IF seen[m] \in {Never, SeenTimeout} THEN seen[m] ELSE seen[m] + 1
      BY <1>4 DEF TickStep, SentorTick
    <3>2. seen'[m] = seen[m] + 1 /\ SeenInTime(seen[m])
      BY <1>b, <2>3, <3>1, SentorAssumption DEF SeenInTime, Never
    <3>3. ill[m] <= seen[m]
      BY <3>2 DEF SightingIsRecent
    <3>4. ill[m] \in Nat /\ ill'[m] \in Nat /\ ill'[m] <= ill[m] + 1
      BY <1>a, IllGrows
    <3>5. QED
      BY <1>b, <3>2, <3>3, <3>4, SentorAssumption DEF Never
  <2>4. QED
    BY <2>2, <2>3 DEF SightingIsRecent
<1>5. QED
  BY <1>1, <1>2, <1>3, <1>4 DEF HNext

\* Polls renew the verdicts; a tick brings the next poll of a running monitor
\* as near as it lengthens the illness.
LEMMA VerdictTick ==
  ASSUME SentorTypeOK, HistTypeOK, NothingStops, VerdictIsRecent, TickStep
  PROVE  VerdictIsRecent'
<1> SUFFICES ASSUME NEW m \in Monitor, alive'[m], Vouched(m)'
             PROVE  ill'[m] <= Lag(m) + PollPeriod - pollTimer'[m]
  BY DEF VerdictIsRecent
<1>1. Vouched(m) /\ ~ended /\ alive[m]
  BY DEF TickStep, SentorTick, Tick, Vouched
<1>2. Ticking(m)
  BY <1>1 DEF NothingStops, Ticking, Vouched, TopicMonitors
<1>3. pollTimer'[m] = pollTimer[m] - 1
  BY <1>2 DEF TickStep, SentorTick
<1>4. ill[m] <= Lag(m) + PollPeriod - pollTimer[m]
  BY <1>1 DEF VerdictIsRecent
<1>5. ill[m] \in Nat /\ ill'[m] \in Nat /\ ill'[m] <= ill[m] + 1
  BY IllGrows DEF HNext
<1>6. pollTimer[m] \in Int
  BY DEF SentorTypeOK, MonitorsTypeOK
<1>7. QED
  BY <1>3, <1>4, <1>5, <1>6, LagType, SentorAssumption

LEMMA VerdictPoll ==
  ASSUME SentorTypeOK, HistTypeOK, SightingIsRecent', VerdictIsRecent,
         NEW k \in NodeMonitors, PollNode(k), UNCHANGED <<ill, everStopped>>
  PROVE  VerdictIsRecent'
<1> SUFFICES ASSUME NEW m \in Monitor, alive'[m], Vouched(m)'
             PROVE  ill'[m] <= Lag(m) + PollPeriod - pollTimer'[m]
  BY DEF VerdictIsRecent
<1>1. alive \in [Monitor -> BOOLEAN] /\ pollTimer \in [Monitor -> 0 .. PollPeriod]
  BY DEF SentorTypeOK, MonitorsTypeOK, TypeOK, FlagsTypeOK
<1>2. CASE m = k
  <2>1. pollTimer'[m] = PollPeriod
    BY <1>1, <1>2 DEF PollNode
  <2>2. SeenInTime(seen'[m])
    BY <1>1, <1>2 DEF PollNode
  <2>3. ill'[m] <= seen'[m]
    BY <1>2, <2>2 DEF SightingIsRecent
  <2>4. seen'[m] \in {Never} \cup (0 .. SeenTimeout)
    <3>1. seen \in [NodeMonitors -> {Never} \cup (0 .. SeenTimeout)]
      BY DEF SentorTypeOK, MonitorsTypeOK
    <3>2. seen'[m] = IF healthy[m] THEN 0 ELSE seen[m]
      BY <1>2, <3>1 DEF PollNode
    <3>3. QED
      BY <1>2, <3>1, <3>2, SentorAssumption
  <2>5. ill'[m] \in Nat
    BY DEF HistTypeOK
  <2>6. QED
    BY <1>2, <2>1, <2>2, <2>3, <2>4, <2>5, SentorAssumption DEF SeenInTime, Lag, Never
<1>3. CASE m # k
  <2>1. alive'[m] = alive[m] /\ pollTimer'[m] = pollTimer[m]
    BY <1>1, <1>3 DEF PollNode
  <2>2. QED
    BY <2>1 DEF VerdictIsRecent, Vouched
<1>4. QED
  BY <1>2, <1>3

LEMMA VerdictCheck ==
  ASSUME SentorTypeOK, HistTypeOK, SightingIsRecent, VerdictIsRecent,
         NEW k \in TopicMonitors, CheckTopic(k), UNCHANGED <<ill, everStopped>>
  PROVE  VerdictIsRecent'
<1> SUFFICES ASSUME NEW m \in Monitor, alive'[m], Vouched(m)'
             PROVE  ill'[m] <= Lag(m) + PollPeriod - pollTimer'[m]
  BY DEF VerdictIsRecent
<1>1. alive \in [Monitor -> BOOLEAN] /\ pollTimer \in [Monitor -> 0 .. PollPeriod]
  BY DEF SentorTypeOK, MonitorsTypeOK, TypeOK, FlagsTypeOK
<1>2. CASE m = k
  <2>1. pollTimer'[m] = PollPeriod
    BY <1>1, <1>2 DEF CheckTopic
  <2>2. Proven(m)
    BY <1>1, <1>2 DEF CheckTopic, TopicVerdict, Proven
  <2>3. ill'[m] = 0
    BY <2>2 DEF SightingIsRecent
  <2>4. QED
    BY <2>1, <2>3, LagType, SentorAssumption
<1>3. CASE m # k
  <2>1. alive'[m] = alive[m] /\ pollTimer'[m] = pollTimer[m]
    BY <1>1, <1>3 DEF CheckTopic
  <2>2. QED
    BY <2>1 DEF VerdictIsRecent, Vouched
<1>4. QED
  BY <1>2, <1>3

\* A pass, of either beat, that refreshes a topic makes its verdict as good as new.
LEMMA VerdictRefresh ==
  ASSUME SentorTypeOK, HistTypeOK, SightingIsRecent, VerdictIsRecent, NEW k \in TopicMonitors,
         alive' = [alive EXCEPT ![k] = TopicVerdict(k)],
         UNCHANGED <<pollTimer, ill, everStopped>>
  PROVE  VerdictIsRecent'
<1> SUFFICES ASSUME NEW m \in Monitor, alive'[m], Vouched(m)'
             PROVE  ill'[m] <= Lag(m) + PollPeriod - pollTimer'[m]
  BY DEF VerdictIsRecent
<1>1. alive \in [Monitor -> BOOLEAN] /\ pollTimer \in [Monitor -> 0 .. PollPeriod]
  BY DEF SentorTypeOK, MonitorsTypeOK, TypeOK, FlagsTypeOK
<1>2. CASE m = k
  <2>1. Proven(m)
    BY <1>1, <1>2 DEF TopicVerdict, Proven
  <2>2. ill'[m] = 0
    BY <2>1 DEF SightingIsRecent
  <2>3. pollTimer'[m] \in 0 .. PollPeriod
    BY <1>1
  <2>4. QED
    BY <2>2, <2>3, LagType, SentorAssumption
<1>3. CASE m # k
  <2>1. alive'[m] = alive[m]
    BY <1>1, <1>3
  <2>2. QED
    BY <2>1 DEF VerdictIsRecent, Vouched
<1>4. QED
  BY <1>2, <1>3

LEMMA VerdictStepRecent ==
  ASSUME SentorTypeOK, HistTypeOK, NothingStops, SightingIsRecent, VerdictIsRecent,
         [HNext]_hvars
  PROVE  VerdictIsRecent'
<1>1. CASE OtherStep /\ Polls
  <2>1. ASSUME NEW k \in NodeMonitors, PollNode(k) PROVE VerdictIsRecent'
    BY <1>1, <2>1, SightingStep, VerdictPoll DEF OtherStep
  <2>2. ASSUME NEW k \in TopicMonitors, CheckTopic(k) PROVE VerdictIsRecent'
    BY <1>1, <2>2, VerdictCheck DEF OtherStep
  <2>3. ASSUME NEW k \in TopicMonitors, OtherPass(k) PROVE VerdictIsRecent'
    BY <1>1, <2>3, VerdictRefresh DEF OtherStep, OtherPass, monitorVars
  <2>4. QED
    BY <1>1, <2>1, <2>2, <2>3 DEF Polls
<1>a. CASE OtherStep /\ SafetyStep /\ Refreshing /\ pos \in TopicMonitors
  BY <1>a, VerdictRefresh DEF OtherStep, SafetyStep, Refreshed, monitorVars
<1>2. CASE TickStep
  BY <1>2, VerdictTick
<1>3. CASE /\ ~TickStep /\ ~(OtherStep /\ Polls)
           /\ ~(OtherStep /\ SafetyStep /\ Refreshing /\ pos \in TopicMonitors)
  <2>1. UNCHANGED <<alive, pollTimer>> /\ (everStopped => everStopped')
    <3>1. CASE OtherStep
      <4>1. SafetyStep /\ UNCHANGED everStopped
        BY <1>3, <3>1 DEF OtherStep
      <4>2. UNCHANGED alive
        BY <1>3, <3>1, <4>1 DEF SafetyStep, Refreshed
      <4>3. UNCHANGED pollTimer
        BY <4>1 DEF SafetyStep, monitorVars
      <4>4. QED
        BY <4>1, <4>2, <4>3
    <3>2. CASE ServiceStep
      BY <3>2, ServiceLeavesSafety DEF vars
    <3>3. CASE \E k \in Monitor : HealthStep(k)
      BY <3>3 DEF HealthStep, HealthChanges, vars
    <3>4. CASE UNCHANGED hvars
      BY <3>4 DEF hvars, sentorVars, monitorVars, vars
    <3>5. QED
      BY <1>3, <3>1, <3>2, <3>3, <3>4 DEF HNext
  <2>2. SUFFICES ASSUME NEW m \in Monitor, alive'[m], Vouched(m)'
                 PROVE  ill'[m] <= Lag(m) + PollPeriod - pollTimer'[m]
    BY DEF VerdictIsRecent
  <2>3. ill[m] \in Nat /\ ill'[m] \in Nat /\ ill'[m] <= ill[m]
    BY <1>3, IllGrows
  <2>4. ill[m] <= Lag(m) + PollPeriod - pollTimer[m]
    BY <2>1, <2>2 DEF VerdictIsRecent, Vouched
  <2>5. pollTimer[m] \in Int
    BY DEF SentorTypeOK, MonitorsTypeOK
  <2>6. QED
    BY <2>1, <2>3, <2>4, <2>5, LagType, SentorAssumption
<1>4. QED
  BY <1>1, <1>a, <1>2, <1>3

----------------------------------------------------------------------------
(* From the verdicts to the beat.                                          *)

\* What a step does to the pass and the beat, apart from the SafetyMonitor's own.
LEMMA OthersLeaveThePass ==
  ASSUME [HNext]_hvars, ~(OtherStep /\ SafetyStep), ~TickStep
  PROVE  UNCHANGED <<pos, allAlive, beat, passTimer>> /\ (everStopped => everStopped')
<1>1. CASE OtherStep
  <2>1. Polls /\ UNCHANGED everStopped
    BY <1>1 DEF OtherStep
  <2>2. UNCHANGED safetyVars
    BY <2>1 DEF Polls, PollNode, CheckTopic, OtherPass
  <2>3. QED
    BY <2>1, <2>2 DEF safetyVars, passVars
<1>2. CASE ServiceStep
  BY <1>2, ServiceLeavesSafety DEF vars, safetyVars, passVars
<1>3. CASE \E k \in Monitor : HealthStep(k)
  BY <1>3 DEF HealthStep, HealthChanges, vars, safetyVars, passVars
<1>4. CASE UNCHANGED hvars
  BY <1>4 DEF hvars, sentorVars, vars, safetyVars, passVars
<1>5. QED
  BY <1>1, <1>2, <1>3, <1>4 DEF HNext

LEMMA PassTypes ==
  ASSUME SentorTypeOK
  PROVE  /\ pos \in {Idle} \cup Monitor \cup {N + 1} /\ passTimer \in 0 .. PassPeriod
         /\ allAlive \in BOOLEAN /\ alive \in [Monitor -> BOOLEAN]
         /\ pollTimer \in [Monitor -> 0 .. PollPeriod]
  BY DEF SentorTypeOK, MonitorsTypeOK, TypeOK, FlagsTypeOK, ClocksTypeOK

LEMMA PassStepRecent ==
  ASSUME SentorTypeOK, SentorTypeOK', HistTypeOK, VerdictIsRecent', PassIsRecent,
         [HNext]_hvars
  PROVE  PassIsRecent'
<1>0. SUFFICES ASSUME pos' # Idle, allAlive',
                      NEW m \in Monitor, m < pos', Vouched(m)'
               PROVE  ill'[m] <= Lag(m) + PollPeriod
  BY DEF PassIsRecent
<1>a. ill[m] \in Nat /\ ill'[m] \in Nat
  BY IllGrows
<1>b. Lag(m) + PollPeriod \in Nat
  BY LagType, SentorAssumption
<1>1. CASE OtherStep /\ SafetyStep
  <2>1. ill' = ill /\ Vouched(m)
    BY <1>0, <1>1 DEF OtherStep, Vouched
  <2>2. CASE BeginPass
    <3>1. pos' = 1
      BY <1>0, <2>2 DEF BeginPass, passVars
    <3>2. QED
      BY <1>0, <3>1, SafetyAssumption DEF Monitor
  <2>3. CASE ReadMonitor
    <3>1. allAlive /\ alive'[pos] /\ pos' = pos + 1 /\ pos \in Monitor
      BY <1>0, <2>3 DEF ReadMonitor
    <3>2. CASE m = pos
      <4>1. ill'[m] <= Lag(m) + PollPeriod - pollTimer'[m]
        BY <1>0, <3>1, <3>2 DEF VerdictIsRecent
      <4>2. pollTimer'[m] \in Nat
        BY SentorAssumption DEF SentorTypeOK, MonitorsTypeOK
      <4>3. QED
        BY <1>a, <4>1, <4>2, LagType, SentorAssumption
    <3>3. CASE m # pos
      <4>1. m < pos
        BY <1>0, <3>1, <3>3, SafetyAssumption DEF Monitor
      <4>2. pos # Idle
        BY <3>1, SafetyAssumption DEF Monitor, Idle
      <4>3. QED
        BY <2>1, <3>1, <4>1, <4>2 DEF PassIsRecent
    <3>4. QED
      BY <3>2, <3>3
  <2>4. CASE EndPassAlive \/ EndPassDead
    BY <1>0, <2>4 DEF EndPassAlive, EndPassDead
  <2>5. CASE CountdownDone \/ \E value \in BOOLEAN : Override(value)
    BY <1>0, <2>5 DEF CountdownDone, Override, passVars
  <2>6. QED
    BY <1>1, <2>2, <2>3, <2>4, <2>5 DEF SafetyStep, Pass
<1>2. CASE TickStep
  BY <1>0, <1>2 DEF TickStep, SentorTick, Tick, passVars
<1>3. CASE ~(OtherStep /\ SafetyStep) /\ ~TickStep
  <2>1. UNCHANGED <<pos, allAlive>> /\ Vouched(m)
    BY <1>0, <1>3, OthersLeaveThePass DEF Vouched
  <2>2. ill[m] <= Lag(m) + PollPeriod
    BY <1>0, <2>1 DEF PassIsRecent
  <2>3. QED
    BY <1>3, <1>a, <1>b, <2>2, IllGrows
<1>4. QED
  BY <1>1, <1>2, <1>3

LEMMA BeatStepRecent ==
  ASSUME SentorTypeOK, HistTypeOK, NothingStops, PassIsRecent, LastBeatIsRecent,
         [HNext]_hvars
  PROVE  LastBeatIsRecent'
<1> USE PassTypes DEF Idle, Monitor
<1>0. SUFFICES ASSUME beat' = "TRUE", NEW m \in Monitor, Vouched(m)'
               PROVE  ill'[m] <= Lag(m) + PollPeriod + PassPeriod
                                 - (IF pos' = Idle THEN passTimer' ELSE 0)
  BY DEF LastBeatIsRecent
<1>a. ill[m] \in Nat /\ ill'[m] \in Nat
  BY IllGrows
<1>b. Lag(m) + PollPeriod \in Nat /\ PassPeriod \in Nat
  BY LagType, SentorAssumption, SafetyAssumption
<1>c. Vouched(m) /\ beat = "TRUE" =>
        ill[m] <= Lag(m) + PollPeriod + PassPeriod - (IF pos = Idle THEN passTimer ELSE 0)
  BY DEF LastBeatIsRecent
<1>1. CASE OtherStep /\ SafetyStep
  <2>1. ill' = ill /\ Vouched(m)
    BY <1>0, <1>1 DEF OtherStep, Vouched
  <2>2. CASE BeginPass
    <3>1. pos' = 1 /\ beat = "TRUE" /\ pos = Idle /\ passTimer = 0
      BY <1>0, <2>2 DEF BeginPass, NothingStops
    <3>2. QED
      BY <1>a, <1>b, <1>c, <2>1, <3>1
  <2>3. CASE ReadMonitor
    <3>1. pos' # Idle /\ beat = "TRUE" /\ pos # Idle
      BY <1>0, <2>3, SafetyAssumption DEF ReadMonitor
    <3>2. QED
      BY <1>a, <1>b, <1>c, <2>1, <3>1
  <2>4. CASE EndPassAlive
    <3>1. pos = N + 1 /\ allAlive /\ passTimer' = passTimer
      BY <2>4 DEF EndPassAlive
    <3>2. ill[m] <= Lag(m) + PollPeriod
      BY <2>1, <3>1, SafetyAssumption DEF PassIsRecent
    <3>3. QED
      BY <1>a, <1>b, <2>1, <3>1, <3>2
  <2>5. CASE EndPassDead
    BY <1>0, <2>5 DEF EndPassDead, Publish
  <2>6. CASE CountdownDone \/ \E value \in BOOLEAN : Override(value)
    <3>1. UNCHANGED <<pos, passTimer, beat>>
      BY <2>6 DEF CountdownDone, Override, passVars
    <3>2. QED
      BY <1>0, <1>c, <2>1, <3>1
  <2>7. QED
    BY <1>1, <2>2, <2>3, <2>4, <2>5, <2>6 DEF SafetyStep, Pass
<1>2. CASE TickStep
  <2>1. pos = Idle /\ pos' = pos /\ beat' = beat /\ passTimer' = passTimer - 1
    BY <1>2 DEF TickStep, SentorTick, Tick, passVars
  <2>2. Vouched(m)
    BY <1>0, <1>2 DEF TickStep, Vouched
  <2>3. ill'[m] <= ill[m] + 1
    BY IllGrows
  <2>4. QED
    BY <1>0, <1>a, <1>b, <1>c, <2>1, <2>2, <2>3
<1>3. CASE ~(OtherStep /\ SafetyStep) /\ ~TickStep
  <2>1. UNCHANGED <<pos, beat, passTimer>> /\ Vouched(m)
    BY <1>0, <1>3, OthersLeaveThePass DEF Vouched
  <2>2. ill'[m] <= ill[m]
    BY <1>3, IllGrows
  <2>3. QED
    BY <1>0, <1>a, <1>b, <1>c, <2>1, <2>2
<1>4. QED
  BY <1>1, <1>2, <1>3

LEMMA RecencyImplies ==
  ASSUME SentorTypeOK, RecencyInv, NEW m \in Monitor, Vouched(m)
  PROVE  NewsOf(m)
<1> SUFFICES ASSUME beat = "TRUE" PROVE ill[m] <= StaleFor(m)
  BY DEF NewsOf
<1>1. ill[m] <= Lag(m) + PollPeriod + PassPeriod - (IF pos = Idle THEN passTimer ELSE 0)
  BY DEF RecencyInv, LastBeatIsRecent
<1>2. passTimer \in Nat /\ ill[m] \in Nat /\ Lag(m) \in Nat
  BY PassTypes, LagType DEF RecencyInv, HistTypeOK
<1>3. StaleFor(m) = PollPeriod + PassPeriod + Lag(m)
  BY DEF StaleFor, Lag
<1>4. QED
  BY <1>1, <1>2, <1>3, SentorAssumption, SafetyAssumption

LEMMA Recency == HSpec => [](SentorTypeOK /\ RecencyInv)
<1>1. HInit => RecencyInv
  BY InitRecency
<1>2. SentorTypeOK /\ RecencyInv /\ [HNext]_hvars => RecencyInv'
  <2> SUFFICES ASSUME SentorTypeOK, RecencyInv, [HNext]_hvars PROVE RecencyInv'
    OBVIOUS
  <2>1. SentorTypeOK'
    BY SentorTypeStep, HistStep
  <2>2. HistTypeOK' /\ NothingStops' /\ SightingIsRecent'
    BY HistTypeStep, NothingStopsStep, SightingStep DEF RecencyInv
  <2>3. VerdictIsRecent'
    BY VerdictStepRecent DEF RecencyInv
  <2>4. PassIsRecent'
    BY <2>1, <2>3, PassStepRecent DEF RecencyInv
  <2>5. LastBeatIsRecent'
    BY BeatStepRecent DEF RecencyInv
  <2>6. QED
    BY <2>2, <2>3, <2>4, <2>5 DEF RecencyInv
<1>3. QED
  BY <1>1, <1>2, SentorTypeCorrect, PTL DEF HSpec

\* As long as the monitors run, a beat of TRUE is recent news of every target,
\* whatever else happens to the node.
THEOREM BeatIsRecentNews == HSpec => []TrueBeatIsRecent
<1>1. SentorTypeOK /\ RecencyInv => TrueBeatIsRecent
  BY RecencyImplies DEF TrueBeatIsRecent, Vouched
<1>2. QED
  BY <1>1, Recency, PTL

\* Of a topic a beat of TRUE is recent news whoever stops and starts the monitors,
\* a start that raises on a node monitor included: the checks of a topic go on
\* when its meter is stopped, and find it dead.
THEOREM StoppedTopicIsNoNewsEver == HSpec => []StoppedTopicIsNoNews
<1>1. ASSUME NEW m \in TopicMonitors PROVE m \in Monitor /\ Vouched(m)
  BY <1>1 DEF TopicMonitors, Vouched
<1>2. SentorTypeOK /\ RecencyInv => StoppedTopicIsNoNews
  BY <1>1, RecencyImplies DEF StoppedTopicIsNoNews
<1>3. QED
  BY <1>2, Recency, PTL
=============================================================================
