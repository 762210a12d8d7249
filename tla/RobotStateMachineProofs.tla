---------------------- MODULE RobotStateMachineProofs ----------------------
(***************************************************************************)
(* The safety properties of RobotStateMachineProps, for every value of the *)
(* timeouts.                                                               *)
(***************************************************************************)
EXTENDS RobotStateMachineProps, TLAPS

HistTypeOK ==
  /\ TypeOK
  /\ commanded \in BOOLEAN
  /\ sinceIssue \in 0 .. Grace
  /\ unseen \subseteq Watchdogs

\* An ENABLED robot that still means to resume, or whose timer is armed, was
\* made ACTIVE by the operator since it was last disabled.
ResumeIsCommanded ==
  state = "enabled" /\ (recover \/ autoTimer # Off) => commanded

\* What is left of the grace period and what has passed since the issue make up
\* the whole period.
TimerCoversGrace == autoTimer # Off => autoTimer + sinceIssue >= Grace

----------------------------------------------------------------------------
LEMMA InitTypeOK == Init => TypeOK
<1>1. Init => FlagsTypeOK
  BY DEF Init, FlagsTypeOK
<1>2. Init => ClocksTypeOK
  BY TimesAssumption DEF Init, ClocksTypeOK, States, Watchdogs, Off
<1>3. QED
  BY <1>1, <1>2 DEF TypeOK

LEMMA OperatorTypeOK == TypeOK /\ Operator => TypeOK'
<1> SUFFICES ASSUME TypeOK, Operator PROVE FlagsTypeOK' /\ ClocksTypeOK'
  BY DEF TypeOK
<1> USE TimesAssumption DEF TypeOK, FlagsTypeOK, ClocksTypeOK, States, Watchdogs, Off
<1>1. ASSUME NEW mode \in BOOLEAN, SetMode(mode) PROVE FlagsTypeOK' /\ ClocksTypeOK'
  <2>1. FlagsTypeOK'
    BY <1>1 DEF SetMode
  <2>2. ClocksTypeOK'
    BY <1>1 DEF SetMode, HandleEnabledEntry, ageVars
  <2>3. QED
    BY <2>1, <2>2
<1>2. ASSUME NEW req \in States, SetState(req) PROVE FlagsTypeOK' /\ ClocksTypeOK'
  <2>1. FlagsTypeOK'
    BY <1>2 DEF SetState
  <2>2. ClocksTypeOK'
    BY <1>2 DEF SetState, HandleEnabledEntry, ageVars
  <2>3. QED
    BY <2>1, <2>2
<1>3. ASSUME NEW pressed \in BOOLEAN, Deadman(pressed) PROVE FlagsTypeOK' /\ ClocksTypeOK'
  <2>1. FlagsTypeOK'
    BY <1>3 DEF Deadman
  <2>2. ClocksTypeOK'
    BY <1>3 DEF Deadman, timerVars
  <2>3. QED
    BY <2>1, <2>2
<1>4. QED
  BY <1>1, <1>2, <1>3 DEF Operator

LEMMA HeartbeatTypeOK == TypeOK /\ Heartbeat => TypeOK'
<1> SUFFICES ASSUME TypeOK, NEW ok \in BOOLEAN, CritHb(ok) \/ NoncritHb(ok)
             PROVE  FlagsTypeOK' /\ ClocksTypeOK'
  BY DEF Heartbeat, TypeOK
<1> USE TimesAssumption DEF TypeOK, FlagsTypeOK, ClocksTypeOK, States, Watchdogs, Off
<1>1. CASE CritHb(ok)
  <2>1. FlagsTypeOK'
    BY <1>1 DEF CritHb
  <2>2. ClocksTypeOK'
    BY <1>1 DEF CritHb, timerVars
  <2>3. QED
    BY <2>1, <2>2
<1>2. CASE NoncritHb(ok)
  <2>1. FlagsTypeOK'
    BY <1>2 DEF NoncritHb, NoncritRecovered, NoncritIssue
  <2>2. ClocksTypeOK'
    BY <1>2 DEF NoncritHb, NoncritRecovered, NoncritIssue, HandleEnabledEntry
  <2>3. QED
    BY <2>1, <2>2
<1>3. QED
  BY <1>1, <1>2

LEMMA TimerTypeOK == TypeOK /\ Timer => TypeOK'
<1> SUFFICES ASSUME TypeOK, Timer PROVE FlagsTypeOK' /\ ClocksTypeOK'
  BY DEF TypeOK
<1> USE TimesAssumption DEF TypeOK, FlagsTypeOK, ClocksTypeOK, States, Watchdogs, Off
<1>1. FlagsTypeOK'
  BY DEF Timer, StartupComplete, AutonomousGoActive, DeadmanWatchdog, CheckHeartbeats, modeVars
<1>2. ClocksTypeOK'
  <2>1. CASE StartupComplete
    BY <2>1 DEF StartupComplete, ageVars
  <2>2. CASE AutonomousGoActive
    BY <2>2 DEF AutonomousGoActive, ageVars
  <2>3. CASE DeadmanWatchdog
    BY <2>3 DEF DeadmanWatchdog, ageVars
  <2>4. CASE CheckHeartbeats
    BY <2>4 DEF CheckHeartbeats, ageVars
  <2>5. QED
    BY <2>1, <2>2, <2>3, <2>4 DEF Timer
<1>3. QED
  BY <1>1, <1>2

LEMMA TickTypeOK == TypeOK /\ Tick => TypeOK'
<1> SUFFICES ASSUME TypeOK, Tick PROVE FlagsTypeOK' /\ ClocksTypeOK'
  BY DEF TypeOK
<1>1. FlagsTypeOK'
  BY DEF TypeOK, FlagsTypeOK, Tick, modeVars
<1>2. ClocksTypeOK'
  BY TimesAssumption
  DEF TypeOK, ClocksTypeOK, States, Watchdogs, Off, Tick, Older, Countdown
<1>3. QED
  BY <1>1, <1>2

\* Every variable of the state machine keeps its type: timers and ages stay
\* within the periods and timeouts they count.
THEOREM TypeCorrect == Spec => []TypeOK
<1>1. TypeOK /\ [Next]_vars => TypeOK'
  <2> SUFFICES ASSUME TypeOK, [Next]_vars PROVE TypeOK'
    OBVIOUS
  <2>1. CASE Next
    BY <2>1, OperatorTypeOK, HeartbeatTypeOK, TimerTypeOK, TickTypeOK DEF Next
  <2>2. CASE UNCHANGED vars
    BY <2>2 DEF TypeOK, FlagsTypeOK, ClocksTypeOK, vars, modeVars, ageVars, timerVars
  <2>3. QED
    BY <2>1, <2>2
<1>2. QED
  BY InitTypeOK, <1>1, PTL DEF Spec

----------------------------------------------------------------------------
(* The history variables ride on the steps of the state machine.           *)

LEMMA HistStep == HNext => Next
  BY DEF HNext, Next, OperatorStep, HeartbeatStep, TimerStep, TickStep

LEMMA HistTypeCorrect == HSpec => []HistTypeOK
<1>1. HInit => HistTypeOK
  <2>1. HInit => TypeOK /\ commanded \in BOOLEAN
    BY InitTypeOK DEF HInit
  <2>2. HInit => sinceIssue \in 0 .. Grace /\ unseen \subseteq Watchdogs
    BY TimesAssumption DEF HInit
  <2>3. QED
    BY <2>1, <2>2 DEF HistTypeOK
<1>2. HistTypeOK /\ [HNext]_hvars => HistTypeOK'
  <2> SUFFICES ASSUME HistTypeOK, [HNext]_hvars PROVE HistTypeOK'
    OBVIOUS
  <2>1. CASE UNCHANGED hvars
    BY <2>1 DEF HistTypeOK, TypeOK, FlagsTypeOK, ClocksTypeOK, hvars, histVars, vars,
                modeVars, ageVars, timerVars
  <2>2. CASE HNext
    <3>1. TypeOK'
      BY <2>2, OperatorTypeOK, HeartbeatTypeOK, TimerTypeOK, TickTypeOK
      DEF HNext, OperatorStep, HeartbeatStep, TimerStep, TickStep, HistTypeOK
    <3>2. commanded' \in BOOLEAN
      BY <2>2 DEF HNext, OperatorStep, HeartbeatStep, TimerStep, TickStep, HistTypeOK
    <3>3. sinceIssue' \in 0 .. Grace
      BY <2>2, TimesAssumption
      DEF HNext, OperatorStep, HeartbeatStep, TimerStep, TickStep, HistTypeOK
    <3>4. unseen' \subseteq Watchdogs
      BY <2>2 DEF HNext, OperatorStep, HeartbeatStep, TimerStep, TickStep, HistTypeOK
    <3>5. QED
      BY <3>1, <3>2, <3>3, <3>4 DEF HistTypeOK
  <2>3. QED
    BY <2>1, <2>2
<1>3. QED
  BY <1>1, <1>2, PTL DEF HSpec

----------------------------------------------------------------------------
(* No step but an operator's takes the robot from DISABLED to ACTIVE.      *)

DriveInv == NoResumeThroughDisabled /\ ResumeIsCommanded

\* Every step of the operator that ends in ENABLED from DISABLED clears the
\* intent to resume and the timer.
LEMMA OperatorDrive == HistTypeOK /\ DriveInv /\ OperatorStep => DriveInv'
<1> SUFFICES ASSUME HistTypeOK, DriveInv, OperatorStep PROVE DriveInv'
  OBVIOUS
<1> USE DEF HistTypeOK, TypeOK, FlagsTypeOK, ClocksTypeOK, States,
            DriveInv, NoResumeThroughDisabled, ResumeIsCommanded
<1>1. commanded' <=> (state' # "disabled" /\ (commanded \/ state' = "active"))
  BY DEF OperatorStep
<1>2. ASSUME NEW mode \in BOOLEAN, SetMode(mode) PROVE DriveInv'
  BY <1>1, <1>2 DEF SetMode, HandleEnabledEntry
<1>3. ASSUME NEW req \in States, SetState(req) PROVE DriveInv'
  BY <1>1, <1>3 DEF SetState, HandleEnabledEntry
<1>4. ASSUME NEW pressed \in BOOLEAN, Deadman(pressed) PROVE DriveInv'
  BY <1>1, <1>4 DEF Deadman, timerVars
<1>5. QED
  BY <1>2, <1>3, <1>4 DEF OperatorStep, Operator

\* A heartbeat arms the timer only for a robot that was to resume.
LEMMA HeartbeatDrive == HistTypeOK /\ DriveInv /\ HeartbeatStep => DriveInv'
<1> SUFFICES ASSUME HistTypeOK, DriveInv, HeartbeatStep,
                    NEW ok \in BOOLEAN, CritHb(ok) \/ NoncritHb(ok)
             PROVE  DriveInv'
  BY DEF HeartbeatStep, Heartbeat
<1> USE DEF HistTypeOK, TypeOK, FlagsTypeOK, ClocksTypeOK, States,
            DriveInv, NoResumeThroughDisabled, ResumeIsCommanded
<1>1. commanded' <=> (state' # "disabled" /\ commanded)
  BY DEF HeartbeatStep
<1>2. CASE CritHb(ok)
  BY <1>1, <1>2 DEF CritHb, timerVars
<1>3. CASE NoncritHb(ok)
  BY <1>1, <1>3 DEF NoncritHb, NoncritRecovered, NoncritIssue, HandleEnabledEntry
<1>4. QED
  BY <1>2, <1>3

LEMMA TimerDrive == HistTypeOK /\ DriveInv /\ TimerStep => DriveInv'
<1> SUFFICES ASSUME HistTypeOK, DriveInv, TimerStep PROVE DriveInv'
  OBVIOUS
<1> USE DEF HistTypeOK, TypeOK, FlagsTypeOK, ClocksTypeOK, States,
            DriveInv, NoResumeThroughDisabled, ResumeIsCommanded
<1>1. commanded' <=> (state' # "disabled" /\ commanded)
  BY DEF TimerStep
<1>2. CASE StartupComplete
  BY <1>1, <1>2 DEF StartupComplete
<1>3. CASE AutonomousGoActive
  BY <1>1, <1>3 DEF AutonomousGoActive, MayGoActive, Off
<1>4. CASE DeadmanWatchdog
  BY <1>1, <1>4 DEF DeadmanWatchdog
<1>5. CASE CheckHeartbeats
  BY <1>1, <1>5 DEF CheckHeartbeats
<1>6. QED
  BY <1>2, <1>3, <1>4, <1>5 DEF TimerStep, Timer

LEMMA TickDrive == HistTypeOK /\ DriveInv /\ TickStep => DriveInv'
  BY DEF HistTypeOK, TypeOK, ClocksTypeOK, DriveInv, NoResumeThroughDisabled,
         ResumeIsCommanded, TickStep, Tick, Countdown, Off, modeVars

\* After the robot has been DISABLED, nothing but the operator makes it ACTIVE
\* again, whatever the timers, the beats and the modes did in between.
THEOREM OperatorHasTheLastWord == HSpec => []NoResumeThroughDisabled
<1>1. HInit => DriveInv
  BY DEF HInit, Init, DriveInv, NoResumeThroughDisabled, ResumeIsCommanded
<1>2. HistTypeOK /\ DriveInv /\ [HNext]_hvars => DriveInv'
  <2>1. DriveInv /\ UNCHANGED hvars => DriveInv'
    BY DEF DriveInv, NoResumeThroughDisabled, ResumeIsCommanded, hvars, histVars,
           vars, modeVars, timerVars
  <2>2. QED
    BY <2>1, OperatorDrive, HeartbeatDrive, TimerDrive, TickDrive DEF HNext
<1>3. DriveInv => NoResumeThroughDisabled
  BY DEF DriveInv
<1>4. QED
  BY <1>1, <1>2, <1>3, HistTypeCorrect, PTL DEF HSpec

----------------------------------------------------------------------------
(* The grace period.                                                       *)

\* The timer is armed for the whole period and cancelled by an issue; a tick
\* moves one unit from what is left to what has passed.
LEMMA GraceStep == HistTypeOK /\ TimerCoversGrace /\ [HNext]_hvars => TimerCoversGrace'
<1> SUFFICES ASSUME HistTypeOK, TimerCoversGrace, [HNext]_hvars PROVE TimerCoversGrace'
  OBVIOUS
<1> USE TimesAssumption DEF HistTypeOK, TypeOK, ClocksTypeOK, TimerCoversGrace, Off
<1>1. CASE UNCHANGED hvars
  BY <1>1 DEF hvars, histVars, vars, timerVars
<1>2. CASE OperatorStep
  <2>1. (autoTimer' = autoTimer \/ autoTimer' = Grace \/ autoTimer' = Off) /\ sinceIssue' = sinceIssue
    BY <1>2 DEF OperatorStep, Operator, SetMode, SetState, Deadman, HandleEnabledEntry, timerVars
  <2>2. QED
    BY <2>1
<1>3. CASE HeartbeatStep
  <2> SUFFICES ASSUME NEW ok \in BOOLEAN, CritHb(ok) \/ NoncritHb(ok)
               PROVE  TimerCoversGrace'
    BY <1>3 DEF HeartbeatStep, Heartbeat
  <2>1. sinceIssue' = IF state = "active" /\ state' = "enabled" THEN 0 ELSE sinceIssue
    BY <1>3 DEF HeartbeatStep
  <2>2. CASE CritHb(ok)
    BY <2>1, <2>2 DEF CritHb, timerVars
  <2>3. CASE NoncritHb(ok)
    BY <2>1, <2>3 DEF NoncritHb, NoncritRecovered, NoncritIssue, HandleEnabledEntry
  <2>4. QED
    BY <2>2, <2>3
<1>4. CASE TimerStep
  <2>1. (autoTimer' = autoTimer \/ autoTimer' = Grace \/ autoTimer' = Off) /\ sinceIssue' = sinceIssue
    BY <1>4 DEF TimerStep, Timer, StartupComplete, AutonomousGoActive, DeadmanWatchdog,
                CheckHeartbeats
  <2>2. QED
    BY <2>1
<1>5. CASE TickStep
  BY <1>5 DEF TickStep, Tick, Countdown
<1>6. QED
  BY <1>1, <1>2, <1>3, <1>4, <1>5 DEF HNext

\* The robot activates itself only when the whole grace period has passed since
\* the last non-critical issue that stopped it.
THEOREM GraceIsFull == HSpec => FullGraceBeforeResume
<1>1. HInit => TimerCoversGrace
  BY DEF HInit, Init, TimerCoversGrace
<1>2. HistTypeOK /\ TimerCoversGrace => [AutoActivation => sinceIssue = Grace]_hvars
  BY TimesAssumption
  DEF HistTypeOK, TimerCoversGrace, AutoActivation, AutonomousGoActive, Off
<1>3. QED
  BY <1>1, <1>2, GraceStep, HistTypeCorrect, PTL DEF HSpec, FullGraceBeforeResume

----------------------------------------------------------------------------
(* The watchdogs.                                                          *)

\* A watchdog that has looked leaves a state the timeouts allow, and until the
\* next tick only the operator moves the robot out of it.
LEMMA WatchStep ==
  HistTypeOK /\ LostBeatStopsRobot /\ [HNext]_hvars => LostBeatStopsRobot'
<1> SUFFICES ASSUME HistTypeOK, LostBeatStopsRobot, [HNext]_hvars PROVE LostBeatStopsRobot'
  OBVIOUS
<1> USE TimesAssumption DEF HistTypeOK, TypeOK, ClocksTypeOK, States, Watchdogs,
        LostBeatStopsRobot, CritLost, NoncritLost
<1>1. CASE UNCHANGED hvars
  BY <1>1 DEF hvars, histVars, vars, ageVars, timerVars
<1>2. CASE OperatorStep
  <2>1. critAge' = critAge /\ noncritAge' = noncritAge /\ due' = due
    BY <1>2 DEF OperatorStep, Operator, SetMode, SetState, Deadman, ageVars, timerVars
  <2>2. unseen' = IF state' # state THEN Watchdogs ELSE unseen
    BY <1>2 DEF OperatorStep
  <2>3. QED
    BY <2>1, <2>2
<1>3. CASE HeartbeatStep
  <2> SUFFICES ASSUME NEW ok \in BOOLEAN, CritHb(ok) \/ NoncritHb(ok)
               PROVE  LostBeatStopsRobot'
    BY <1>3 DEF HeartbeatStep, Heartbeat
  <2>1. unseen' = unseen
    BY <1>3 DEF HeartbeatStep
  <2>2. CASE CritHb(ok)
    BY <2>1, <2>2 DEF CritHb, timerVars
  <2>3. CASE NoncritHb(ok)
    <3>1. state' \in {"enabled", "active"} => state \in {"enabled", "active"}
      BY <2>3 DEF NoncritHb, NoncritRecovered, NoncritIssue
    <3>2. noncritAge' = 0 /\ critAge' = critAge /\ due' = due
      BY <2>3 DEF NoncritHb
    <3>3. QED
      BY <2>1, <3>1, <3>2
  <2>4. QED
    BY <2>2, <2>3
<1>4. CASE TimerStep
  <2>1. unseen' = unseen \ (due \ due')
    BY <1>4 DEF TimerStep
  <2>2. CASE StartupComplete
    BY <2>2 DEF StartupComplete
  <2>3. CASE AutonomousGoActive
    BY <2>1, <2>3 DEF AutonomousGoActive, MayGoActive, ageVars
  <2>4. CASE DeadmanWatchdog
    BY <2>1, <2>4 DEF DeadmanWatchdog, ageVars
  <2>5. CASE CheckHeartbeats
    BY <2>5 DEF CheckHeartbeats, ageVars
  <2>6. QED
    BY <1>4, <2>2, <2>3, <2>4, <2>5 DEF TimerStep, Timer
<1>5. CASE TickStep
  BY <1>5 DEF TickStep, Tick
<1>6. QED
  BY <1>1, <1>2, <1>3, <1>4, <1>5 DEF HNext

\* A robot that may move has heard both beats within their timeouts, up to the
\* watchdog period in which the loss, or the operator's request, is still new.
THEOREM NoMotionWithoutBeats == HSpec => []LostBeatStopsRobot
<1>1. HInit => LostBeatStopsRobot
  BY DEF HInit, Init, LostBeatStopsRobot
<1>2. QED
  BY <1>1, WatchStep, HistTypeCorrect, PTL DEF HSpec

LEMMA AttendedStep ==
  HistTypeOK /\ ManualActiveIsAttended /\ [HNext]_hvars => ManualActiveIsAttended'
<1> SUFFICES ASSUME HistTypeOK, ManualActiveIsAttended, [HNext]_hvars
             PROVE  ManualActiveIsAttended'
  OBVIOUS
<1> USE TimesAssumption DEF HistTypeOK, TypeOK, ClocksTypeOK, States, Watchdogs,
        ManualActiveIsAttended
<1>1. CASE UNCHANGED hvars
  BY <1>1 DEF hvars, histVars, vars, modeVars, ageVars, timerVars
<1>2. CASE OperatorStep
  <2> SUFFICES ASSUME state' = "active", state = "active"
               PROVE  ManualActiveIsAttended'
    BY <1>2 DEF OperatorStep
  <2>1. ASSUME NEW mode \in BOOLEAN, SetMode(mode) PROVE FALSE
    BY <2>1 DEF SetMode
  <2>2. ASSUME NEW req \in States, SetState(req) PROVE FALSE
    BY <2>2 DEF SetState, Valid
  <2>3. ASSUME NEW pressed \in BOOLEAN, Deadman(pressed) PROVE ManualActiveIsAttended'
    BY <2>3 DEF Deadman
  <2>4. QED
    BY <1>2, <2>1, <2>2, <2>3 DEF OperatorStep, Operator
<1>3. CASE HeartbeatStep
  <2>1. /\ state' = "active" => state = "active"
        /\ UNCHANGED <<autonomous, deadmanAge, due>>
    BY <1>3 DEF HeartbeatStep, Heartbeat, CritHb, NoncritHb, NoncritRecovered, NoncritIssue,
                timerVars
  <2>2. unseen' = unseen
    BY <1>3 DEF HeartbeatStep
  <2>3. QED
    BY <2>1, <2>2
<1>4. CASE TimerStep
  <2>1. unseen' = unseen \ (due \ due')
    BY <1>4 DEF TimerStep
  <2>2. CASE StartupComplete
    BY <2>2 DEF StartupComplete
  <2>3. CASE AutonomousGoActive
    BY <2>1, <2>3 DEF AutonomousGoActive, MayGoActive, ageVars
  <2>4. CASE DeadmanWatchdog
    BY <2>4 DEF DeadmanWatchdog, ageVars
  <2>5. CASE CheckHeartbeats
    BY <2>1, <2>5 DEF CheckHeartbeats, ageVars
  <2>6. QED
    BY <1>4, <2>2, <2>3, <2>4, <2>5 DEF TimerStep, Timer
<1>5. CASE TickStep
  BY <1>5 DEF TickStep, Tick
<1>6. QED
  BY <1>1, <1>2, <1>3, <1>4, <1>5 DEF HNext

\* In manual mode the robot outlives a silent deadman by no more than the time
\* the watchdog takes to look.
THEOREM DeadmanIsWatched == HSpec => []ManualActiveIsAttended
<1>1. HInit => ManualActiveIsAttended
  BY DEF HInit, Init, ManualActiveIsAttended
<1>2. QED
  BY <1>1, AttendedStep, HistTypeCorrect, PTL DEF HSpec

----------------------------------------------------------------------------
(* The interface.                                                          *)

LEMMA InterfaceStep == TypeOK /\ [Next]_vars => [Interface!StateNext]_Interface!stateVars
<1> SUFFICES ASSUME TypeOK, [Next]_vars
             PROVE  [Interface!StateNext]_Interface!stateVars
  OBVIOUS
<1> USE DEF TypeOK, FlagsTypeOK, ClocksTypeOK, States, Interface!stateVars, Interface!StateNext,
        Interface!Disable, Interface!Enable, Interface!Activate, Interface!Suspend,
        Interface!ChangeMode
<1>1. ASSUME NEW mode \in BOOLEAN, SetMode(mode)
      PROVE  [Interface!StateNext]_Interface!stateVars
  BY <1>1 DEF SetMode
<1>2. ASSUME NEW req \in States, SetState(req)
      PROVE  [Interface!StateNext]_Interface!stateVars
  BY <1>2 DEF SetState, Valid
<1>3. ASSUME NEW pressed \in BOOLEAN, Deadman(pressed)
      PROVE  [Interface!StateNext]_Interface!stateVars
  BY <1>3 DEF Deadman
<1>4. ASSUME NEW ok \in BOOLEAN, CritHb(ok)
      PROVE  [Interface!StateNext]_Interface!stateVars
  BY <1>4 DEF CritHb
<1>5. ASSUME NEW ok \in BOOLEAN, NoncritHb(ok)
      PROVE  [Interface!StateNext]_Interface!stateVars
  BY <1>5 DEF NoncritHb, NoncritRecovered, NoncritIssue
<1>6. CASE StartupComplete \/ AutonomousGoActive
  BY <1>6 DEF StartupComplete, AutonomousGoActive, MayGoActive, modeVars
<1>7. CASE DeadmanWatchdog \/ CheckHeartbeats
  BY <1>7 DEF DeadmanWatchdog, CheckHeartbeats
<1>8. CASE Tick \/ UNCHANGED vars
  BY <1>8 DEF Tick, vars, modeVars
<1>9. QED
  BY <1>1, <1>2, <1>3, <1>4, <1>5, <1>6, <1>7, <1>8 DEF Next, Operator, Heartbeat, Timer

\* The state machine implements its interface, whatever its timeouts: the modules
\* that use RobotState in its place lose no behaviour.
THEOREM StateMachineImplementsInterface == HSpec => ImplementsInterface
<1>1. HInit => Interface!StateInit
  BY DEF HInit, Init, Interface!StateInit
<1>2. [HNext]_hvars => [Next]_vars
  BY HistStep DEF hvars
<1>3. HistTypeOK => TypeOK
  BY DEF HistTypeOK
<1>4. QED
  BY <1>1, <1>2, <1>3, InterfaceStep, HistTypeCorrect, PTL
  DEF HSpec, ImplementsInterface, Interface!StateSpec

============================================================================
