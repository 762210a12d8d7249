------------------------- MODULE ArduinoChainProofs ------------------------
(***************************************************************************)
(* The three nodes of the older robot implement one Watchdog, for every    *)
(* value of their timeouts.                                                *)
(***************************************************************************)
EXTENDS ArduinoChainProps, TLAPS

HistTypeOK == silence \in 0 .. Bound + 2 /\ held \in 0 .. 2

\* The bridge was heard as long ago as the test node thinks, or later.
MarkIsNews ==
  /\ aliveWire # << >> => silence = 0
  /\ markAge <= MarkTimeout => silence <= markAge

\* A critical beat, on its way or received, rests on a mark in time.
BeatRestsOnMark ==
  /\ critWire # << >> => silence <= MarkTimeout
  /\ critAge <= HeartbeatTimeout => silence <= MarkTimeout + critAge

\* Once the watchdog of this period has run, only a robot that was enabled again
\* since is driving.
CheckedOrReset ==
  /\ ~Driving => held = 0
  /\ "heartbeats" \notin due /\ silence > Bound /\ Driving => held = 0

\* A bridge that has not ended has failures to spare: without it the count would
\* have no bound.
FailuresToSpare == bridge # "ended" => failures < FailureLimit

ChainInv ==
  /\ ChainTypeOK /\ HistTypeOK /\ FailuresToSpare
  /\ MarkIsNews /\ BeatRestsOnMark /\ CheckedOrReset

----------------------------------------------------------------------------
(* The types of the three nodes, in parts: the wires and flags, which are  *)
(* Boolean, and the numbers.                                               *)

BridgeNumbersOK ==
  /\ bridge \in {"waiting", "running", "ended"}
  /\ failures \in 0 .. FailureLimit
  /\ arduinoAge \in 0 .. ArduinoTimeout + 1
  /\ checkIn \in 1 .. CheckPeriod
  /\ bridgeDue \subseteq {"serial", "timeout"}

AliveOK == aliveWire \in {<< >>, <<TRUE>>, <<FALSE>>}

SentorFlagsOK ==
  /\ sentorUp \in BOOLEAN /\ checkDue \in BOOLEAN
  /\ critWire \in {<< >>, <<TRUE>>}
  /\ noncritWire \in {<< >>, <<TRUE>>, <<FALSE>>}

MarkOK == markAge \in 0 .. MarkTimeout + 1

TypeParts ==
  /\ BridgeNumbersOK /\ AliveOK /\ SentorFlagsOK /\ MarkOK
  /\ Machine!FlagsTypeOK /\ Machine!ClocksTypeOK

LEMMA TypeIsParts == (ChainTypeOK <=> TypeParts) /\ (ChainTypeOK' <=> TypeParts')
BY Zenon
DEF ChainTypeOK, BridgeTypeOK, SentorTypeOK, Machine!TypeOK,
    TypeParts, BridgeNumbersOK, AliveOK, SentorFlagsOK, MarkOK

LEMMA InitTypeOK == Init => ChainTypeOK
<1> SUFFICES ASSUME Init PROVE ChainTypeOK
  OBVIOUS
<1>1. BridgeNumbersOK
  BY BridgeAssumption DEF Init, BridgeInit, BridgeNumbersOK
<1>2. AliveOK
  BY Zenon DEF Init, BridgeInit, AliveOK
<1>3. SentorFlagsOK
  BY Zenon DEF Init, SentorInit, SentorFlagsOK
<1>4. MarkOK
  BY MarkAssumption DEF Init, SentorInit, MarkOK
<1>5. Machine!FlagsTypeOK
  BY Zenon DEF Init, Machine!Init, Machine!FlagsTypeOK
<1>6. Machine!ClocksTypeOK
  BY ChainAssumption
  DEF Init, Machine!Init, Machine!ClocksTypeOK, Machine!States, Machine!Watchdogs, Machine!Off
<1>7. QED
  BY <1>1, <1>2, <1>3, <1>4, <1>5, <1>6, TypeIsParts DEF TypeParts

LEMMA BridgeTypeStep ==
  ASSUME BridgeNumbersOK, FailuresToSpare, AliveOK, BridgeTimer \/ BridgeStartOrCrash
  PROVE  BridgeNumbersOK' /\ FailuresToSpare' /\ AliveOK'
<1> USE BridgeAssumption DEF BridgeNumbersOK, FailuresToSpare
<1>1. CASE CheckArduinoTimeout
  <2>1. BridgeNumbersOK' /\ FailuresToSpare'
    BY <1>1 DEF CheckArduinoTimeout
  <2>2. (arduinoAge <= ArduinoTimeout) \in BOOLEAN
    OBVIOUS
  <2>3. AliveOK'
    BY <1>1, <2>2, Zenon DEF CheckArduinoTimeout, AliveOK
  <2>4. QED
    BY <2>1, <2>3
<1>2. ASSUME NEW outcome \in Outcomes, SerialIo(outcome)
      PROVE  BridgeNumbersOK' /\ FailuresToSpare' /\ AliveOK'
  <2>1. failures' \in 0 .. FailureLimit
    <3>1. CASE outcome = "done"
      BY <1>2, <3>1 DEF SerialIo, FailuresAfter
    <3>2. CASE outcome = "garbled"
      BY <1>2, <3>2 DEF SerialIo, FailuresAfter
    <3>3. CASE outcome = "unwritten"
      BY <1>2, <3>3 DEF SerialIo, FailuresAfter
    <3>4. QED
      BY <3>1, <3>2, <3>3 DEF Outcomes
  <2>2. BridgeNumbersOK'
    <3>1. arduinoAge' \in {arduinoAge, 0} /\ checkIn' = checkIn
      BY <1>2, Zenon DEF SerialIo
    <3>2. bridge' \in {bridge, "ended"} /\ bridgeDue' \subseteq bridgeDue
      BY <1>2, Zenon DEF SerialIo
    <3>3. QED
      BY <2>1, <3>1, <3>2
  <2>3. aliveWire' = aliveWire \/ aliveWire' = <<FALSE>>
    BY <1>2 DEF SerialIo
  <2>4. AliveOK'
    BY <2>3, Zenon DEF AliveOK
  <2>5. FailuresToSpare'
    BY <1>2, <2>1 DEF SerialIo, GivesUp
  <2>6. QED
    BY <2>2, <2>4, <2>5
<1>3. CASE BridgeStartOrCrash
  <2>1. BridgeNumbersOK'
    <3>1. failures' = failures /\ arduinoAge' \in {arduinoAge, 0} /\ checkIn' = checkIn
      BY <1>3, Zenon DEF BridgeStartOrCrash, WaitForArduino, BridgeCrash
    <3>2. bridge' \in {"running", "ended"} /\ bridgeDue' \subseteq bridgeDue
      BY <1>3, Zenon DEF BridgeStartOrCrash, WaitForArduino, BridgeCrash
    <3>3. QED
      BY <3>1, <3>2
  <2>2. aliveWire' = aliveWire
    BY <1>3 DEF BridgeStartOrCrash, WaitForArduino, BridgeCrash
  <2>3. AliveOK'
    BY <2>2, Zenon DEF AliveOK
  <2>4. FailuresToSpare'
    BY <1>3 DEF BridgeStartOrCrash, WaitForArduino, BridgeCrash
  <2>5. QED
    BY <2>1, <2>3, <2>4
<1>4. QED
  BY <1>1, <1>2, <1>3 DEF BridgeTimer

LEMMA SentorTypeStep ==
  ASSUME SentorFlagsOK, MarkOK, SentorTimer \/ SentorStops \/ HbMark
  PROVE  SentorFlagsOK' /\ MarkOK'
<1>1. MarkOK'
  <2>1. markAge' = markAge \/ markAge' = 0
    BY Zenon DEF SentorTimer, Check, SentorStops, SentorCrash, HbMark
  <2>2. QED
    BY <2>1, MarkAssumption DEF MarkOK
<1>2. CASE SentorTimer
  <2>1. PICK missing \in NoncritVerdicts : Check(missing)
    BY <1>2 DEF SentorTimer
  <2>2. (~missing) \in BOOLEAN
    OBVIOUS
  <2>3. SentorFlagsOK'
    BY <2>1, <2>2, Zenon DEF Check, SentorFlagsOK
  <2>4. QED
    BY <1>1, <2>3
<1>3. CASE SentorStops \/ HbMark
  <2>1. SentorFlagsOK'
    BY <1>3, Zenon DEF SentorStops, SentorCrash, HbMark, SentorFlagsOK
  <2>2. QED
    BY <1>1, <2>1
<1>4. QED
  BY <1>2, <1>3

LEMMA MachineOperatorTypeOK ==
  ASSUME Machine!FlagsTypeOK, Machine!ClocksTypeOK, Operator
  PROVE  Machine!FlagsTypeOK' /\ Machine!ClocksTypeOK'
<1> USE ChainAssumption
    DEF Machine!FlagsTypeOK, Machine!ClocksTypeOK, Machine!States, Machine!Watchdogs, Machine!Off
<1>1. ASSUME NEW mode \in BOOLEAN, SetMode(mode)
      PROVE  Machine!FlagsTypeOK' /\ Machine!ClocksTypeOK'
  <2>1. Machine!FlagsTypeOK'
    BY <1>1 DEF SetMode, Machine!SetMode
  <2>2. Machine!ClocksTypeOK'
    BY <1>1 DEF SetMode, Machine!SetMode, Machine!HandleEnabledEntry, Machine!ageVars
  <2>3. QED
    BY <2>1, <2>2
<1>2. ASSUME NEW req \in Machine!States, SetState(req)
      PROVE  Machine!FlagsTypeOK' /\ Machine!ClocksTypeOK'
  <2>1. Machine!FlagsTypeOK'
    BY <1>2 DEF SetState, Machine!SetState
  <2>2. Machine!ClocksTypeOK'
    BY <1>2 DEF SetState, Machine!SetState, Machine!HandleEnabledEntry, Machine!ageVars
  <2>3. QED
    BY <2>1, <2>2
<1>3. ASSUME NEW pressed \in BOOLEAN, Deadman(pressed)
      PROVE  Machine!FlagsTypeOK' /\ Machine!ClocksTypeOK'
  <2>1. Machine!FlagsTypeOK'
    BY <1>3 DEF Deadman, Machine!Deadman
  <2>2. Machine!ClocksTypeOK'
    BY <1>3 DEF Deadman, Machine!Deadman, Machine!timerVars
  <2>3. QED
    BY <2>1, <2>2
<1>4. QED
  BY <1>1, <1>2, <1>3 DEF Operator

LEMMA MachineHeartbeatTypeOK ==
  ASSUME Machine!FlagsTypeOK, Machine!ClocksTypeOK,
         NEW ok \in BOOLEAN, Machine!CritHb(ok) \/ Machine!NoncritHb(ok)
  PROVE  Machine!FlagsTypeOK' /\ Machine!ClocksTypeOK'
<1> USE ChainAssumption
    DEF Machine!FlagsTypeOK, Machine!ClocksTypeOK, Machine!States, Machine!Watchdogs, Machine!Off
<1>1. CASE Machine!CritHb(ok)
  <2>1. Machine!FlagsTypeOK'
    BY <1>1 DEF Machine!CritHb
  <2>2. Machine!ClocksTypeOK'
    BY <1>1 DEF Machine!CritHb, Machine!timerVars
  <2>3. QED
    BY <2>1, <2>2
<1>2. CASE Machine!NoncritHb(ok)
  <2>1. Machine!FlagsTypeOK'
    BY <1>2 DEF Machine!NoncritHb, Machine!NoncritRecovered, Machine!NoncritIssue
  <2>2. Machine!ClocksTypeOK'
    BY <1>2 DEF Machine!NoncritHb, Machine!NoncritRecovered, Machine!NoncritIssue,
                Machine!HandleEnabledEntry
  <2>3. QED
    BY <2>1, <2>2
<1>3. QED
  BY <1>1, <1>2

LEMMA MachineTimerTypeOK ==
  ASSUME Machine!FlagsTypeOK, Machine!ClocksTypeOK, Timer
  PROVE  Machine!FlagsTypeOK' /\ Machine!ClocksTypeOK'
<1> USE ChainAssumption
    DEF Machine!FlagsTypeOK, Machine!ClocksTypeOK, Machine!States, Machine!Watchdogs, Machine!Off
<1>1. CASE StartupComplete
  BY <1>1 DEF StartupComplete, Machine!StartupComplete, Machine!modeVars, Machine!ageVars
<1>2. CASE AutonomousGoActive
  <2>1. Machine!FlagsTypeOK'
    BY <1>2 DEF AutonomousGoActive, Machine!AutonomousGoActive
  <2>2. Machine!ClocksTypeOK'
    BY <1>2 DEF AutonomousGoActive, Machine!AutonomousGoActive, Machine!ageVars
  <2>3. QED
    BY <2>1, <2>2
<1>3. CASE DeadmanWatchdog
  <2>1. Machine!FlagsTypeOK'
    BY <1>3 DEF DeadmanWatchdog, Machine!DeadmanWatchdog
  <2>2. Machine!ClocksTypeOK'
    BY <1>3 DEF DeadmanWatchdog, Machine!DeadmanWatchdog, Machine!ageVars
  <2>3. QED
    BY <2>1, <2>2
<1>4. CASE CheckHeartbeats
  <2>1. Machine!FlagsTypeOK'
    BY <1>4 DEF CheckHeartbeats, Machine!CheckHeartbeats
  <2>2. Machine!ClocksTypeOK'
    BY <1>4 DEF CheckHeartbeats, Machine!CheckHeartbeats, Machine!ageVars
  <2>3. QED
    BY <2>1, <2>2
<1>5. QED
  BY <1>1, <1>2, <1>3, <1>4 DEF Timer

LEMMA TickTypeOK ==
  ASSUME BridgeNumbersOK, FailuresToSpare, AliveOK, SentorFlagsOK, MarkOK,
         Machine!FlagsTypeOK, Machine!ClocksTypeOK, Tick
  PROVE  /\ BridgeNumbersOK' /\ FailuresToSpare' /\ AliveOK' /\ SentorFlagsOK' /\ MarkOK'
         /\ Machine!FlagsTypeOK' /\ Machine!ClocksTypeOK'
<1>1. BridgeNumbersOK' /\ FailuresToSpare'
  BY BridgeAssumption DEF Tick, BridgeTick, BridgeNumbersOK, FailuresToSpare
<1>2. AliveOK'
  BY Zenon DEF Tick, BridgeTick, AliveOK
<1>3. SentorFlagsOK'
  BY Zenon DEF Tick, SentorTick, SentorFlagsOK
<1>4. MarkOK'
  BY MarkAssumption DEF Tick, SentorTick, MarkOK
<1>5. Machine!FlagsTypeOK'
  BY Zenon DEF Tick, Machine!Tick, Machine!FlagsTypeOK, Machine!modeVars
<1>6. Machine!ClocksTypeOK'
  BY ChainAssumption
  DEF Tick, Machine!Tick, Machine!ClocksTypeOK, Machine!States, Machine!Watchdogs, Machine!Off,
      Machine!Older, Machine!Countdown
<1>7. QED
  BY <1>1, <1>2, <1>3, <1>4, <1>5, <1>6

----------------------------------------------------------------------------
(* The news grows old along the chain.                                     *)

LEMMA InitChainInv == HInit => ChainInv
<1> SUFFICES ASSUME HInit PROVE ChainInv
  OBVIOUS
<1>1. ChainTypeOK
  BY InitTypeOK DEF HInit
<1>2. /\ failures = 0 /\ aliveWire = << >> /\ markAge = 0 /\ critWire = << >> /\ critAge = 0
      /\ silence = 0 /\ held = 0
  BY DEF HInit, Init, BridgeInit, SentorInit, Machine!Init
<1>3. HistTypeOK /\ FailuresToSpare
  BY <1>2, BridgeAssumption, MarkAssumption, ChainAssumption DEF HistTypeOK, FailuresToSpare, Bound
<1>4. MarkIsNews /\ BeatRestsOnMark /\ CheckedOrReset
  BY <1>2, MarkAssumption DEF MarkIsNews, BeatRestsOnMark, CheckedOrReset
<1>5. QED
  BY <1>1, <1>3, <1>4 DEF ChainInv

\* The bridge only renews the news.
LEMMA BridgeStep == ChainInv /\ BridgeHistory => ChainInv'
<1> SUFFICES ASSUME ChainInv, BridgeHistory PROVE ChainInv'
  OBVIOUS
<1>1. /\ ChainTypeOK /\ HistTypeOK /\ FailuresToSpare
      /\ MarkIsNews /\ BeatRestsOnMark /\ CheckedOrReset
  BY DEF ChainInv
<1>0. /\ BridgeNumbersOK /\ AliveOK /\ SentorFlagsOK /\ MarkOK
      /\ Machine!FlagsTypeOK /\ Machine!ClocksTypeOK
  BY <1>1, TypeIsParts DEF TypeParts
<1>2. BridgeTimer \/ BridgeStartOrCrash
  BY DEF BridgeHistory
<1>3. UNCHANGED sentorVars /\ UNCHANGED machineVars
  BY <1>2, Zenon DEF BridgeTimer, BridgeStartOrCrash
<1>4. /\ UNCHANGED held
      /\ silence' = 0 \/ (silence' = silence /\ aliveWire' = << >>)
  BY DEF BridgeHistory
<1>5. /\ UNCHANGED <<sentorUp, checkDue, critWire, noncritWire>>
      /\ UNCHANGED markAge
      /\ UNCHANGED <<state, critAge, due>>
  BY <1>3 DEF sentorVars, machineVars
<1>6. ChainTypeOK' /\ FailuresToSpare'
  <2>1. BridgeNumbersOK' /\ FailuresToSpare' /\ AliveOK'
    BY <1>1, <1>2, BridgeTypeStep, <1>0
  <2>2. SentorFlagsOK' /\ MarkOK'
    BY <1>1, <1>5, <1>0, Zenon DEF SentorFlagsOK, MarkOK
  <2>3. Machine!FlagsTypeOK' /\ Machine!ClocksTypeOK'
    BY <1>1, <1>3, <1>0, Zenon DEF Machine!FlagsTypeOK, Machine!ClocksTypeOK, machineVars
  <2>4. QED
    BY <2>1, <2>2, <2>3, TypeIsParts DEF TypeParts
<1>7. HistTypeOK'
  BY <1>1, <1>4, MarkAssumption, ChainAssumption DEF HistTypeOK, Bound
<1>8. markAge \in Nat /\ critAge \in Nat
  BY <1>1, <1>0, MarkAssumption, ChainAssumption DEF MarkOK, Machine!ClocksTypeOK
<1>9. MarkIsNews' /\ BeatRestsOnMark'
  BY <1>1, <1>4, <1>5, <1>8, MarkAssumption, ChainAssumption DEF MarkIsNews, BeatRestsOnMark
<1>10. CheckedOrReset'
  BY <1>1, <1>4, <1>5, MarkAssumption, ChainAssumption
  DEF CheckedOrReset, Driving, Bound, HistTypeOK
<1>11. QED
  BY <1>6, <1>7, <1>9, <1>10 DEF ChainInv

\* What the steps between two ticks do to the parts of the invariant: they reset
\* an age only when the wire before it carries the news, and they take the watchdog
\* off its list only when it has seen to it that a robot whose beat is lost rests.
OtherMoves ==
  /\ aliveWire' # << >> => aliveWire' = aliveWire
  /\ markAge' = markAge \/ (markAge' = 0 /\ aliveWire # << >>)
  /\ critWire' # << >> => critWire # << >> \/ markAge <= MarkTimeout
  /\ critAge' = critAge \/ (critAge' = 0 /\ critWire # << >>)
  /\ "heartbeats" \notin due' => \/ "heartbeats" \notin due
                                 \/ state' = "disabled"
                                 \/ critAge <= HeartbeatTimeout

LEMMA OperatorMoves ==
  ASSUME ChainTypeOK, Operator
  PROVE  OtherMoves /\ ChainTypeOK'
<1>1. UNCHANGED bridgeVars /\ UNCHANGED sentorVars
  BY Zenon DEF Operator
<1>2. UNCHANGED <<critAge, due>>
  BY Zenon DEF Operator, SetMode, SetState, Deadman,
         Machine!SetMode, Machine!SetState, Machine!Deadman, Machine!ageVars, Machine!timerVars
<1>3. TypeParts'
  BY <1>1, MachineOperatorTypeOK, TypeIsParts, Zenon
  DEF TypeParts, bridgeVars, sentorVars, BridgeNumbersOK, AliveOK, SentorFlagsOK, MarkOK
<1>4. OtherMoves
  BY <1>1, <1>2, Zenon DEF bridgeVars, sentorVars, OtherMoves
<1>5. QED
  BY <1>3, <1>4, TypeIsParts

LEMMA TimerMoves ==
  ASSUME ChainTypeOK, Timer
  PROVE  OtherMoves /\ ChainTypeOK'
<1>1. UNCHANGED bridgeVars /\ UNCHANGED sentorVars
  BY Zenon DEF Timer
<1>2. TypeParts'
  BY <1>1, MachineTimerTypeOK, TypeIsParts, Zenon
  DEF TypeParts, bridgeVars, sentorVars, BridgeNumbersOK, AliveOK, SentorFlagsOK, MarkOK
<1>3. critAge' = critAge
  BY Zenon DEF Timer, StartupComplete, AutonomousGoActive, DeadmanWatchdog, CheckHeartbeats,
         Machine!StartupComplete, Machine!AutonomousGoActive, Machine!DeadmanWatchdog,
         Machine!CheckHeartbeats, Machine!ageVars
<1>4. critAge \in Nat
  BY TypeIsParts, ChainAssumption DEF TypeParts, Machine!ClocksTypeOK
<1>5. "heartbeats" \notin due' => \/ "heartbeats" \notin due
                                 \/ state' = "disabled"
                                 \/ critAge <= HeartbeatTimeout
  <2>1. CASE CheckHeartbeats
    BY <1>4, <2>1, ChainAssumption
    DEF CheckHeartbeats, Machine!CheckHeartbeats, Machine!CritLost, Machine!NoncritLost
  <2>2. CASE StartupComplete \/ AutonomousGoActive \/ DeadmanWatchdog
    BY <2>2 DEF StartupComplete, AutonomousGoActive, DeadmanWatchdog,
         Machine!StartupComplete, Machine!AutonomousGoActive, Machine!DeadmanWatchdog
  <2>3. QED
    BY <2>1, <2>2 DEF Timer
<1>6. OtherMoves
  BY <1>1, <1>3, <1>5, Zenon DEF bridgeVars, sentorVars, OtherMoves
<1>7. QED
  BY <1>2, <1>6, TypeIsParts

LEMMA HeadOfOne == ASSUME NEW message PROVE Head(<<message>>) = message
OBVIOUS

LEMMA DeliveryMoves ==
  ASSUME ChainTypeOK, DeliverAlive \/ CritHb \/ NoncritHb
  PROVE  OtherMoves /\ ChainTypeOK'
<1>1. TypeParts
  BY TypeIsParts
<1>2. CASE DeliverAlive
  <2>1. /\ aliveWire # << >> /\ aliveWire' = << >>
        /\ UNCHANGED <<bridge, failures, arduinoAge, checkIn, bridgeDue>>
        /\ UNCHANGED machineVars
        /\ HbMark \/ UNCHANGED sentorVars
    BY <1>2, Zenon DEF DeliverAlive
  <2>2. SentorFlagsOK' /\ MarkOK'
    <3>1. CASE HbMark
      BY <1>1, <3>1, SentorTypeStep DEF TypeParts
    <3>2. CASE UNCHANGED sentorVars
      BY <1>1, <3>2, Zenon DEF TypeParts, sentorVars, SentorFlagsOK, MarkOK
    <3>3. QED
      BY <2>1, <3>1, <3>2
  <2>3. TypeParts'
    BY <1>1, <2>1, <2>2, Zenon
    DEF TypeParts, machineVars, BridgeNumbersOK, AliveOK,
        Machine!FlagsTypeOK, Machine!ClocksTypeOK
  <2>4. /\ critWire' = critWire
        /\ markAge' \in {markAge, 0}
    BY <2>1, Zenon DEF HbMark, sentorVars
  <2>5. OtherMoves
    BY <2>1, <2>4, Zenon DEF OtherMoves, machineVars
  <2>6. QED
    BY <2>3, <2>5, TypeIsParts
<1>3. CASE CritHb
  <2>1. critWire = <<TRUE>>
    BY <1>1, <1>3, Zenon DEF CritHb, TypeParts, SentorFlagsOK
  <2>2. Machine!CritHb(TRUE)
    <3>1. Head(critWire) = TRUE
      BY <2>1, HeadOfOne, Zenon
    <3>2. QED
      BY <1>3, <3>1, Zenon DEF CritHb
  <2>3. UNCHANGED bridgeVars /\ UNCHANGED <<sentorUp, markAge, checkDue, noncritWire>>
    BY <1>3, Zenon DEF CritHb
  <2>4. critWire' = << >>
    BY <1>3, Zenon DEF CritHb
  <2>5. TypeParts'
    <3>1. Machine!FlagsTypeOK' /\ Machine!ClocksTypeOK'
      BY <1>1, <2>2, MachineHeartbeatTypeOK, Zenon DEF TypeParts
    <3>2. QED
      BY <1>1, <2>3, <2>4, <3>1, Zenon
      DEF TypeParts, bridgeVars, BridgeNumbersOK, AliveOK, SentorFlagsOK, MarkOK
  <2>6. critAge' = 0 /\ due' = due
    BY <2>2, Zenon DEF Machine!CritHb, Machine!timerVars
  <2>7. critWire # << >>
    BY <1>3, Zenon DEF CritHb
  <2>8. OtherMoves
    BY <2>3, <2>4, <2>6, <2>7, Zenon DEF OtherMoves, bridgeVars
  <2>9. QED
    BY <2>5, <2>8, TypeIsParts
<1>4. CASE NoncritHb
  <2>1. Head(noncritWire) \in BOOLEAN
    <3>1. noncritWire = <<TRUE>> \/ noncritWire = <<FALSE>>
      BY <1>1, <1>4, Zenon DEF NoncritHb, TypeParts, SentorFlagsOK
    <3>2. QED
      BY <3>1, HeadOfOne, Zenon
  <2>2. Machine!NoncritHb(Head(noncritWire)) /\ noncritWire' = << >>
    BY <1>4, Zenon DEF NoncritHb
  <2>3. UNCHANGED bridgeVars /\ UNCHANGED <<sentorUp, markAge, checkDue, critWire>>
    BY <1>4, Zenon DEF NoncritHb
  <2>4. TypeParts'
    <3>1. Machine!FlagsTypeOK' /\ Machine!ClocksTypeOK'
      BY <1>1, <2>1, <2>2, MachineHeartbeatTypeOK, Zenon DEF TypeParts
    <3>2. QED
      BY <1>1, <2>2, <2>3, <3>1, Zenon
      DEF TypeParts, bridgeVars, BridgeNumbersOK, AliveOK, SentorFlagsOK, MarkOK
  <2>5. critAge' = critAge /\ due' = due
    BY <2>2, Zenon DEF Machine!NoncritHb
  <2>6. OtherMoves
    BY <2>3, <2>5, Zenon DEF OtherMoves, bridgeVars
  <2>7. QED
    BY <2>4, <2>6, TypeIsParts
<1>5. QED
  BY <1>2, <1>3, <1>4

LEMMA SentorMoves ==
  ASSUME ChainTypeOK, SentorTimer \/ SentorStops
  PROVE  OtherMoves /\ ChainTypeOK'
<1>1. TypeParts
  BY TypeIsParts
<1>2. UNCHANGED bridgeVars /\ UNCHANGED machineVars
  BY Zenon DEF SentorTimer, SentorStops
<1>3. TypeParts'
  <2>1. SentorFlagsOK' /\ MarkOK'
    BY <1>1, SentorTypeStep DEF TypeParts
  <2>2. QED
    BY <1>1, <1>2, <2>1, Zenon
    DEF TypeParts, bridgeVars, machineVars, BridgeNumbersOK, AliveOK,
        Machine!FlagsTypeOK, Machine!ClocksTypeOK
<1>4. markAge' = markAge
  BY Zenon DEF SentorTimer, SentorStops, Check, SentorCrash
<1>5. critWire' # << >> => critWire # << >> \/ markAge <= MarkTimeout
  <2>1. markAge > MarkTimeout \/ markAge <= MarkTimeout
    BY <1>1, MarkAssumption DEF TypeParts, MarkOK
  <2>2. critWire' = critWire \/ (markAge > MarkTimeout /\ critWire' = << >>) \/ ~(markAge > MarkTimeout)
    BY Zenon DEF SentorTimer, SentorStops, Check, SentorCrash
  <2>3. QED
    BY <2>1, <2>2, Zenon
<1>6. OtherMoves
  BY <1>2, <1>4, <1>5, Zenon DEF OtherMoves, bridgeVars, machineVars
<1>7. QED
  BY <1>3, <1>6, TypeIsParts

LEMMA OtherStep == ChainInv /\ OtherHistory => ChainInv'
<1> SUFFICES ASSUME ChainInv, OtherHistory PROVE ChainInv'
  OBVIOUS
<1>1. /\ ChainTypeOK /\ HistTypeOK /\ FailuresToSpare
      /\ MarkIsNews /\ BeatRestsOnMark /\ CheckedOrReset
  BY DEF ChainInv
<1>2. OtherMoves /\ ChainTypeOK'
  <2>1. CASE DeliverAlive \/ CritHb \/ NoncritHb
    BY <1>1, <2>1, DeliveryMoves
  <2>2. CASE SentorTimer \/ SentorStops
    BY <1>1, <2>2, SentorMoves
  <2>3. CASE Operator
    BY <1>1, <2>3, OperatorMoves
  <2>4. CASE Timer
    BY <1>1, <2>4, TimerMoves
  <2>5. QED
    BY <2>1, <2>2, <2>3, <2>4 DEF OtherHistory
<1>3. FailuresToSpare'
  <2>1. bridge' = bridge /\ failures' = failures
    BY Zenon DEF OtherHistory, DeliverAlive, SentorTimer, SentorStops, CritHb, NoncritHb, Operator,
                 Timer, bridgeVars
  <2>2. QED
    BY <1>1, <2>1 DEF FailuresToSpare
<1>4. silence' = silence /\ held' = IF Driving' THEN held ELSE 0
  BY Zenon DEF OtherHistory
<1>5. /\ markAge \in Nat /\ critAge \in Nat /\ silence \in Nat
      /\ MarkTimeout \in Nat /\ HeartbeatTimeout \in Nat
  BY <1>1, TypeIsParts, MarkAssumption, ChainAssumption
  DEF TypeParts, MarkOK, Machine!ClocksTypeOK, HistTypeOK
<1>6. HistTypeOK'
  BY <1>1, <1>4, <1>5 DEF HistTypeOK, Bound
<1>7. MarkIsNews' /\ BeatRestsOnMark'
  BY <1>1, <1>2, <1>4, <1>5 DEF OtherMoves, MarkIsNews, BeatRestsOnMark
<1>8. CheckedOrReset'
  <2>1. ~Driving' => held' = 0
    BY <1>4
  <2>2. ASSUME "heartbeats" \notin due', silence' > Bound', Driving' PROVE held' = 0
    <3>1. silence > Bound /\ ~(critAge <= HeartbeatTimeout)
      BY <1>1, <1>4, <1>5, <2>2 DEF Bound, BeatRestsOnMark
    <3>2. "heartbeats" \notin due
      BY <1>2, <2>2, <3>1 DEF OtherMoves, Driving
    <3>3. held = 0
      BY <1>1, <3>1, <3>2 DEF CheckedOrReset
    <3>4. QED
      BY <1>4, <3>3
  <2>3. QED
    BY <2>1, <2>2 DEF CheckedOrReset
<1>9. QED
  BY <1>2, <1>3, <1>6, <1>7, <1>8 DEF ChainInv

\* Every link of the chain grows older by the same tick.
LEMMA TickStep == ChainInv /\ TickHistory => ChainInv'
<1> SUFFICES ASSUME ChainInv, TickHistory PROVE ChainInv'
  OBVIOUS
<1>1. /\ ChainTypeOK /\ HistTypeOK /\ FailuresToSpare
      /\ MarkIsNews /\ BeatRestsOnMark /\ CheckedOrReset
  BY DEF ChainInv
<1>2. /\ Tick
      /\ silence' = IF silence > Bound + 1 THEN silence ELSE silence + 1
      /\ held' = IF ~Driving THEN 0 ELSE IF held = 2 THEN 2 ELSE held + 1
  BY DEF TickHistory
<1>3. ChainTypeOK' /\ FailuresToSpare'
  BY <1>1, <1>2, TickTypeOK, TypeIsParts DEF TypeParts
<1>4. /\ markAge \in Nat /\ critAge \in Nat /\ silence \in Nat /\ held \in 0 .. 2
      /\ MarkTimeout \in Nat /\ HeartbeatTimeout \in Nat
  BY <1>1, TypeIsParts, MarkAssumption, ChainAssumption
  DEF TypeParts, MarkOK, Machine!ClocksTypeOK, HistTypeOK
<1>5. /\ markAge' = IF markAge > MarkTimeout THEN markAge ELSE markAge + 1
      /\ critAge' = IF critAge > HeartbeatTimeout THEN critAge ELSE critAge + 1
  BY <1>2 DEF Tick, SentorTick, Machine!Tick, Machine!Older
<1>6. aliveWire' = << >> /\ critWire' = << >>
  BY <1>2, Zenon DEF Tick, BridgeTick, SentorTick
<1>7. "heartbeats" \in due' /\ state' = state
  BY <1>2 DEF Tick, Machine!Tick, Machine!Watchdogs
<1>8. HistTypeOK'
  BY <1>1, <1>2, <1>4 DEF HistTypeOK, Bound
<1>9. MarkIsNews'
  BY <1>1, <1>2, <1>4, <1>5, <1>6 DEF MarkIsNews
<1>10. BeatRestsOnMark'
  BY <1>1, <1>2, <1>4, <1>5, <1>6 DEF BeatRestsOnMark
<1>11. CheckedOrReset'
  BY <1>2, <1>7 DEF CheckedOrReset, Driving
<1>12. QED
  BY <1>3, <1>8, <1>9, <1>10, <1>11 DEF ChainInv

LEMMA ChainInvariant == HSpec => []ChainInv
<1>1. HInit => ChainInv
  BY InitChainInv
<1>2. ChainInv /\ [HNext]_hvars => ChainInv'
  <2> SUFFICES ASSUME ChainInv, [HNext]_hvars PROVE ChainInv'
    OBVIOUS
  <2>1. CASE HNext
    BY <2>1, BridgeStep, OtherStep, TickStep DEF HNext
  <2>2. CASE UNCHANGED hvars
    <3>1. TypeParts
      BY TypeIsParts DEF ChainInv
    <3>2. TypeParts'
      <4>1. UNCHANGED bridgeVars /\ UNCHANGED sentorVars /\ UNCHANGED machineVars
        BY <2>2, Zenon DEF hvars, chainVars
      <4>2. BridgeNumbersOK' /\ AliveOK' /\ SentorFlagsOK' /\ MarkOK'
        BY <3>1, <4>1, Zenon
        DEF bridgeVars, sentorVars, TypeParts, BridgeNumbersOK, AliveOK, SentorFlagsOK, MarkOK
      <4>3. Machine!FlagsTypeOK' /\ Machine!ClocksTypeOK'
        BY <3>1, <4>1, Zenon
        DEF machineVars, TypeParts, Machine!FlagsTypeOK, Machine!ClocksTypeOK
      <4>4. QED
        BY <4>2, <4>3 DEF TypeParts
    <3>3. HistTypeOK' /\ FailuresToSpare' /\ MarkIsNews' /\ BeatRestsOnMark' /\ CheckedOrReset'
      BY <2>2, Zenon
      DEF ChainInv, HistTypeOK, FailuresToSpare, MarkIsNews, BeatRestsOnMark, CheckedOrReset, Driving, Bound,
          hvars, chainVars, bridgeVars, sentorVars, machineVars
    <3>4. QED
      BY <3>2, <3>3, TypeIsParts DEF ChainInv
  <2>3. QED
    BY <2>1, <2>2
<1>3. QED
  BY <1>1, <1>2, PTL DEF HSpec

----------------------------------------------------------------------------
\* Every variable of the three nodes keeps its type: the bridge, for one, never
\* counts beyond its limit of failures (bridge_to_arduino.py 91-123).
THEOREM ChainTypeCorrect == HSpec => []ChainTypeOK
<1>1. ChainInv => ChainTypeOK
  BY DEF ChainInv
<1>2. QED
  BY <1>1, ChainInvariant, PTL

\* The end of a period is the only step at which the watchdog can be late: by then
\* the news of the bridge has run through both listeners, and the check of this
\* period has seen its age.
LEMMA WatchTick == ChainInv /\ TickHistory => Chain!Elapse
<1> SUFFICES ASSUME ChainInv, TickHistory PROVE Chain!Elapse
  OBVIOUS
<1>1. /\ Tick
      /\ silence' = IF silence > Bound + 1 THEN silence ELSE silence + 1
      /\ held' = IF ~Driving THEN 0 ELSE IF held = 2 THEN 2 ELSE held + 1
  BY DEF TickHistory
<1>2. due = {} /\ state' = state
  BY <1>1 DEF Tick, Machine!Tick
<1>3. silence \in Nat /\ Bound \in Nat
  BY MarkAssumption, ChainAssumption DEF ChainInv, HistTypeOK, Bound
<1>4. silence <= Bound \/ ~Driving \/ held = 0
  BY <1>2, <1>3 DEF ChainInv, CheckedOrReset
<1>5. (~Driving)' = ~Driving
  BY <1>2 DEF Driving
<1>6. QED
  BY <1>1, <1>4, <1>5, Zenon DEF Chain!Elapse

\* Any other step is a beat, a trip, a reset or nothing at all to the watchdog.
LEMMA WatchOther == OtherHistory \/ BridgeHistory =>
  Chain!Beat \/ Chain!Trip \/ Chain!Reset \/ UNCHANGED Chain!watchVars
<1>1. ASSUME OtherHistory PROVE Chain!Trip \/ Chain!Reset \/ UNCHANGED Chain!watchVars
  <2>1. silence' = silence /\ held' = IF Driving' THEN held ELSE 0
    BY <1>1, Zenon DEF OtherHistory
  <2>2. CASE ~Driving'
    BY <2>1, <2>2, Zenon DEF Chain!Trip
  <2>3. CASE Driving' /\ ~Driving
    BY <2>1, <2>3, Zenon DEF Chain!Reset
  <2>4. CASE Driving' /\ Driving
    BY <2>1, <2>4, Zenon DEF Chain!watchVars
  <2>5. QED
    BY <2>2, <2>3, <2>4
<1>2. ASSUME BridgeHistory PROVE Chain!Beat \/ UNCHANGED Chain!watchVars
  <2>1. held' = held /\ (silence' = 0 \/ silence' = silence)
    BY <1>2 DEF BridgeHistory
  <2>2. Driving' <=> Driving
    BY <1>2, Zenon DEF BridgeHistory, BridgeTimer, BridgeStartOrCrash, machineVars, Driving
  <2>3. QED
    BY <2>1, <2>2, Zenon DEF Chain!Beat, Chain!watchVars
<1>3. QED
  BY <1>1, <1>2

\* The bridge, the test node and the older state machine together implement one
\* watchdog whose bound is the sum of their two timeouts: however beats are lost,
\* processes end and messages overtake one another, a robot whose bridge is silent
\* for longer does not drive (sentor.py 81-101, robot_state_machine.py 178-205).
THEOREM ChainImplementsWatchdog == HSpec => ChainIsWatchdog
<1>1. HInit => Chain!WatchInit
  BY DEF HInit, Init, Machine!Init, Chain!WatchInit, Driving
<1>2. ChainInv /\ [HNext]_hvars =>
        [Chain!Beat \/ Chain!Trip \/ Chain!Reset \/ Chain!Elapse]_Chain!watchVars
  <2> SUFFICES ASSUME ChainInv, [HNext]_hvars
               PROVE  [Chain!Beat \/ Chain!Trip \/ Chain!Reset \/ Chain!Elapse]_Chain!watchVars
    OBVIOUS
  <2>1. CASE HNext
    BY <2>1, WatchTick, WatchOther DEF HNext
  <2>2. CASE UNCHANGED hvars
    <3>1. silence' = silence /\ held' = held /\ (Driving' <=> Driving)
      BY <2>2, Zenon DEF hvars, chainVars, machineVars, Driving
    <3>2. QED
      BY <3>1, Zenon DEF Chain!watchVars
  <2>3. QED
    BY <2>1, <2>2
<1>3. QED
  BY <1>1, <1>2, ChainInvariant, PTL DEF HSpec, ChainIsWatchdog, Chain!WatchSpec
============================================================================
