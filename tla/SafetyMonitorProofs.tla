------------------------ MODULE SafetyMonitorProofs ------------------------
(***************************************************************************)
(* The safety properties of SafetyMonitorProps, for every number of        *)
(* monitors and every period and timeout.                                  *)
(***************************************************************************)
EXTENDS SafetyMonitorProps, TLAPS

----------------------------------------------------------------------------
(* Types: every step keeps them.                                         *)

LEMMA InitTypeOK == Init => TypeOK
<1>1. Init => FlagsTypeOK
  BY DEF Init, FlagsTypeOK
<1>2. Init => ClocksTypeOK
  BY SafetyAssumption DEF Init, ClocksTypeOK, Idle, Off, Monitor
<1>3. QED
  BY <1>1, <1>2 DEF TypeOK

LEMMA PassFlags == FlagsTypeOK /\ ClocksTypeOK /\ Pass => FlagsTypeOK'
  BY DEF FlagsTypeOK, ClocksTypeOK, Pass, BeginPass, ReadMonitor, EndPassAlive, EndPassDead,
         passVars, eventVars

LEMMA PassClocks == ClocksTypeOK /\ Pass => ClocksTypeOK'
<1> SUFFICES ASSUME ClocksTypeOK, Pass PROVE ClocksTypeOK'
  OBVIOUS
<1> USE SafetyAssumption DEF ClocksTypeOK, Idle, Off, Monitor
<1>1. CASE BeginPass
  BY <1>1 DEF BeginPass, passVars
<1>2. CASE ReadMonitor
  BY <1>2 DEF ReadMonitor
<1>3. CASE EndPassAlive
  BY <1>3 DEF EndPassAlive, Publish
<1>4. CASE EndPassDead
  BY <1>4 DEF EndPassDead, Publish
<1>5. QED
  BY <1>1, <1>2, <1>3, <1>4 DEF Pass

LEMMA NextTypeOK == TypeOK /\ [Next]_vars => TypeOK'
<1> SUFFICES ASSUME FlagsTypeOK, ClocksTypeOK, [Next]_vars
             PROVE  FlagsTypeOK' /\ ClocksTypeOK'
  BY DEF TypeOK
<1>1. CASE Pass
  BY <1>1, PassFlags, PassClocks
<1>2. CASE CountdownDone
  <2>1. FlagsTypeOK'
    BY <1>2 DEF FlagsTypeOK, CountdownDone, passVars
  <2>2. ClocksTypeOK'
    BY <1>2, SafetyAssumption DEF ClocksTypeOK, CountdownDone, Idle, Off, passVars
  <2>3. QED
    BY <2>1, <2>2
<1>3. ASSUME NEW value \in BOOLEAN, Override(value) PROVE FlagsTypeOK' /\ ClocksTypeOK'
  <2>1. FlagsTypeOK'
    BY <1>3 DEF FlagsTypeOK, Override, passVars, eventVars
  <2>2. ClocksTypeOK'
    BY <1>3 DEF ClocksTypeOK, Override, passVars
  <2>3. QED
    BY <2>1, <2>2
<1>4. ASSUME NEW value \in BOOLEAN, SetStopped(value) PROVE FlagsTypeOK' /\ ClocksTypeOK'
  <2>1. FlagsTypeOK'
    BY <1>4 DEF FlagsTypeOK, SetStopped, passVars, eventVars
  <2>2. ClocksTypeOK'
    BY <1>4 DEF ClocksTypeOK, SetStopped, passVars
  <2>3. QED
    BY <2>1, <2>2
<1>5. ASSUME NEW m \in Monitor, MonitorChanges(m) PROVE FlagsTypeOK' /\ ClocksTypeOK'
  <2>1. FlagsTypeOK'
    BY <1>5 DEF FlagsTypeOK, MonitorChanges, safetyVars, passVars, eventVars
  <2>2. ClocksTypeOK'
    BY <1>5 DEF ClocksTypeOK, MonitorChanges, safetyVars, passVars
  <2>3. QED
    BY <2>1, <2>2
<1>6. CASE Tick
  <2>1. FlagsTypeOK'
    BY <1>6 DEF FlagsTypeOK, Tick, passVars, eventVars
  <2>2. ClocksTypeOK'
    BY <1>6, SafetyAssumption DEF ClocksTypeOK, Tick, Countdown, Off, passVars
  <2>3. QED
    BY <2>1, <2>2
<1>7. CASE UNCHANGED vars
  BY <1>7 DEF FlagsTypeOK, ClocksTypeOK, vars, safetyVars, passVars, eventVars
<1>8. QED
  BY <1>1, <1>2, <1>3, <1>4, <1>5, <1>6, <1>7 DEF Next


----------------------------------------------------------------------------
LEMMA HistStep == [HNext]_hvars => [Next]_vars
  BY DEF HNext, hvars, Next, PassStep, CountdownStep, OverrideStep, StopStep, MonitorStep,
         TickStep

\* Every variable of the monitor keeps its type, whatever the number of
\* monitors and the lengths of the timers.
THEOREM TypeCorrect == HSpec => []TypeOK
<1>1. HInit => TypeOK
  BY InitTypeOK DEF HInit
<1>2. QED
  BY <1>1, NextTypeOK, HistStep, PTL DEF HSpec

----------------------------------------------------------------------------
(* The clean time.                                                         *)

CleanTypeOK == clean \in 0 .. SafeTimeout /\ overridden \in BOOLEAN

\* A countdown that runs and the clean time behind it make up the timeout.
CountdownIsClean == timer # Off => timer + clean >= SafeTimeout

CleanInv == CleanTypeOK /\ CountdownIsClean /\ SafeAfterCleanTimeout

LEMMA InitClean == HInit => CleanTypeOK
<1>1. HInit => clean \in 0 .. SafeTimeout
  BY SafetyAssumption DEF HInit
<1>2. HInit => overridden \in BOOLEAN
  BY DEF HInit
<1>3. QED
  BY <1>1, <1>2 DEF CleanTypeOK

\* Only the end of a failed pass clears the clean time.
LEMMA PassClean ==
  ASSUME TypeOK, CleanTypeOK, PassStep
  PROVE  \/ /\ EndPassDead
            /\ clean' = 0 /\ ~overridden'
         \/ /\ BeginPass \/ ReadMonitor \/ EndPassAlive
            /\ clean' = clean /\ (overridden' <=> overridden)
<1> USE DEF TypeOK, ClocksTypeOK, CleanTypeOK, PassStep
<1>1. CASE EndPassDead
  BY <1>1
<1>2. CASE ~EndPassDead
  BY <1>2 DEF Pass
<1>3. QED
  BY <1>1, <1>2

LEMMA CleanTypeStep == TypeOK /\ CleanTypeOK /\ [HNext]_hvars => CleanTypeOK'
<1> SUFFICES ASSUME TypeOK, CleanTypeOK, [HNext]_hvars PROVE CleanTypeOK'
  OBVIOUS
<1> USE SafetyAssumption DEF CleanTypeOK
<1>1. CASE PassStep
  <2>1. clean' \in 0 .. SafeTimeout
    BY <1>1, PassClean
  <2>2. overridden' \in BOOLEAN
    BY <1>1 DEF PassStep
  <2>3. QED
    BY <2>1, <2>2
<1>2. CASE CountdownStep
  BY <1>2 DEF CountdownStep
<1>3. CASE OverrideStep
  BY <1>3 DEF OverrideStep
<1>4. CASE StopStep \/ MonitorStep
  BY <1>4 DEF StopStep, MonitorStep
<1>5. CASE TickStep
  BY <1>5 DEF TickStep
<1>6. CASE UNCHANGED hvars
  BY <1>6 DEF hvars
<1>7. QED
  BY <1>1, <1>2, <1>3, <1>4, <1>5, <1>6 DEF HNext

LEMMA CleanStep ==
  TypeOK /\ CleanInv /\ [HNext]_hvars => CountdownIsClean' /\ SafeAfterCleanTimeout'
<1> SUFFICES ASSUME TypeOK, CleanInv, [HNext]_hvars
             PROVE  CountdownIsClean' /\ SafeAfterCleanTimeout'
  OBVIOUS
<1> USE SafetyAssumption
    DEF TypeOK, ClocksTypeOK, CleanInv, CleanTypeOK, CountdownIsClean,
        SafeAfterCleanTimeout, Off
<1>1. CASE PassStep
  <2>1. CASE EndPassDead /\ clean' = 0 /\ ~overridden'
    BY <2>1 DEF EndPassDead
  <2>2. CASE /\ BeginPass \/ ReadMonitor \/ EndPassAlive
             /\ clean' = clean /\ (overridden' <=> overridden)
    <3>1. (safe' <=> safe) /\ (timer' = timer \/ timer' = SafeTimeout)
      BY <2>2 DEF BeginPass, ReadMonitor, EndPassAlive
    <3>2. QED
      BY <2>2, <3>1
  <2>3. QED
    BY <1>1, <2>1, <2>2, PassClean
<1>2. CASE CountdownStep
  BY <1>2 DEF CountdownStep, CountdownDone
<1>3. CASE OverrideStep
  BY <1>3 DEF OverrideStep, Override
<1>4. CASE StopStep
  <2>1. UNCHANGED <<timer, safe, clean, overridden>>
    BY <1>4 DEF StopStep, SetStopped
  <2>2. QED
    BY <2>1
<1>5. CASE MonitorStep
  <2>1. UNCHANGED <<timer, safe, clean, overridden>>
    BY <1>5 DEF MonitorStep, MonitorChanges, safetyVars
  <2>2. QED
    BY <2>1
<1>6. CASE TickStep
  BY <1>6 DEF TickStep, Tick, Countdown
<1>7. CASE UNCHANGED hvars
  BY <1>7 DEF hvars, vars, safetyVars
<1>8. QED
  BY <1>1, <1>2, <1>3, <1>4, <1>5, <1>6, <1>7 DEF HNext

\* The beat turns TRUE by itself only after safe_operation_timeout without a
\* failed pass or an override.
THEOREM SafeIsEarned == HSpec => []SafeAfterCleanTimeout
<1>1. HInit => CleanInv
  <2>1. HInit => CountdownIsClean /\ SafeAfterCleanTimeout
    BY DEF HInit, Init, CountdownIsClean, SafeAfterCleanTimeout
  <2>2. QED
    BY <2>1, InitClean DEF CleanInv
<1>2. TypeOK /\ CleanInv /\ [HNext]_hvars => CleanInv'
  BY CleanTypeStep, CleanStep DEF CleanInv
<1>3. CleanInv => SafeAfterCleanTimeout
  BY DEF CleanInv
<1>4. QED
  BY <1>1, <1>2, <1>3, TypeCorrect, PTL DEF HSpec

----------------------------------------------------------------------------
(* The events.                                                             *)

EventInv == EventsTellTheBeat /\ ~(safeSent /\ unsafeSent)

LEMMA EventStep ==
  TypeOK /\ CleanTypeOK /\ EventInv /\ [HNext]_hvars => EventInv'
<1> SUFFICES ASSUME TypeOK, CleanTypeOK, EventInv, [HNext]_hvars PROVE EventInv'
  OBVIOUS
<1> USE DEF EventInv, EventsTellTheBeat
<1>1. CASE PassStep
  <2>1. CASE EndPassDead /\ clean' = 0 /\ ~overridden'
    BY <2>1 DEF EndPassDead
  <2>2. CASE /\ BeginPass \/ ReadMonitor \/ EndPassAlive
             /\ clean' = clean /\ (overridden' <=> overridden)
    <3>1. UNCHANGED <<safe, safeSent, unsafeSent>>
      BY <2>2 DEF BeginPass, ReadMonitor, EndPassAlive, eventVars
    <3>2. QED
      BY <2>2, <3>1
  <2>3. QED
    BY <1>1, <2>1, <2>2, PassClean
<1>2. CASE CountdownStep
  BY <1>2 DEF CountdownStep, CountdownDone
<1>3. CASE OverrideStep
  BY <1>3 DEF OverrideStep, Override, eventVars
<1>4. CASE StopStep
  BY <1>4 DEF StopStep, SetStopped, eventVars
<1>5. CASE MonitorStep
  BY <1>5 DEF MonitorStep, MonitorChanges, safetyVars, eventVars
<1>6. CASE TickStep
  BY <1>6 DEF TickStep, Tick, eventVars
<1>7. CASE UNCHANGED hvars
  BY <1>7 DEF hvars, vars, safetyVars, eventVars
<1>8. QED
  BY <1>1, <1>2, <1>3, <1>4, <1>5, <1>6, <1>7 DEF HNext

\* Without an override in force the last event sent tells what the beat is.
THEOREM EventsAreTrue == HSpec => []EventsTellTheBeat
<1>1. HInit => EventInv /\ CleanTypeOK
  <2>1. HInit => EventInv
    BY DEF HInit, Init, EventInv, EventsTellTheBeat
  <2>2. QED
    BY <2>1, InitClean
<1>2. TypeOK /\ EventInv /\ CleanTypeOK /\ [HNext]_hvars => EventInv' /\ CleanTypeOK'
  BY EventStep, CleanTypeStep
<1>3. EventInv => EventsTellTheBeat
  BY DEF EventInv
<1>4. QED
  BY <1>1, <1>2, <1>3, TypeCorrect, PTL DEF HSpec

----------------------------------------------------------------------------
(* A pass and the failures it runs into.                                   *)

\* Among the monitors read so far none has been dead all along, as long as the
\* pass has found them all alive.
ReadWereAlive ==
  pos # Idle /\ allAlive => \A m \in deadSince : m \in Monitor /\ m >= pos /\ ~alive[m]

DeadSinceInv == ReadWereAlive /\ (pos # Idle => \A m \in deadSince : m \in Monitor /\ ~alive[m])

LEMMA DeadSinceStep == TypeOK /\ DeadSinceInv /\ [HNext]_hvars => DeadSinceInv'
<1> SUFFICES ASSUME TypeOK, DeadSinceInv, [HNext]_hvars PROVE DeadSinceInv'
  OBVIOUS
<1> USE SafetyAssumption
    DEF TypeOK, FlagsTypeOK, ClocksTypeOK, DeadSinceInv, ReadWereAlive, Idle, Monitor
<1>1. CASE PassStep
  <2>1. CASE BeginPass
    BY <1>1, <2>1 DEF PassStep, BeginPass, Dead, passVars
  <2>2. CASE ReadMonitor
    <3>1. pos' = pos + 1 /\ pos \in Monitor
      BY <2>2 DEF ReadMonitor
    <3>2. deadSince' = {m \in deadSince : ~alive'[m]}
      BY <1>1, <2>2, <3>1 DEF PassStep, BeginPass
    <3>3. allAlive' => allAlive /\ alive'[pos]
      BY <2>2 DEF ReadMonitor
    <3>4. QED
      BY <3>1, <3>2, <3>3
  <2>3. CASE EndPassAlive \/ EndPassDead
    BY <2>3 DEF EndPassAlive, EndPassDead
  <2>4. QED
    BY <1>1, <2>1, <2>2, <2>3 DEF PassStep, Pass
<1>2. CASE CountdownStep \/ OverrideStep \/ TickStep
  <2>1. UNCHANGED <<alive, pos, allAlive, deadSince>>
    BY <1>2 DEF CountdownStep, CountdownDone, OverrideStep, Override, TickStep, Tick, passVars
  <2>2. QED
    BY <2>1
<1>3. CASE StopStep
  <2>1. UNCHANGED <<alive, pos, allAlive, deadSince>>
    BY <1>3 DEF StopStep, SetStopped, passVars
  <2>2. QED
    BY <2>1
<1>4. CASE MonitorStep
  <2>1. deadSince' = {m \in deadSince : ~alive'[m]} /\ UNCHANGED <<pos, allAlive>>
    BY <1>4 DEF MonitorStep, MonitorChanges, safetyVars, passVars
  <2>2. QED
    BY <2>1
<1>5. CASE UNCHANGED hvars
  BY <1>5 DEF hvars, vars, safetyVars, passVars
<1>6. QED
  BY <1>1, <1>2, <1>3, <1>4, <1>5 DEF HNext

\* A pass that publishes TRUE has missed no monitor that was dead throughout.
THEOREM TrueBeatIsSound == HSpec => TrueBeatMissesNoDeath
<1>1. HInit => DeadSinceInv
  BY DEF HInit, Init, DeadSinceInv, ReadWereAlive
<1>2. TypeOK /\ DeadSinceInv /\ [HNext]_hvars
        => [PassPublishes /\ beat' = "TRUE" => deadSince = {}]_hvars
  <2> SUFFICES ASSUME TypeOK, DeadSinceInv, HNext, PassPublishes, beat' = "TRUE"
               PROVE  deadSince = {}
    OBVIOUS
  <2> USE SafetyAssumption DEF TypeOK, ClocksTypeOK, Idle, Monitor, PassPublishes
  <2>1. PassStep
    BY DEF HNext, CountdownStep, CountdownDone, OverrideStep, Override, StopStep, SetStopped,
           MonitorStep, MonitorChanges, TickStep, Tick, safetyVars, passVars
  <2>2. allAlive
    BY <2>1 DEF PassStep, Pass, BeginPass, ReadMonitor, EndPassAlive, EndPassDead, Publish
  <2>3. QED
    BY <2>2 DEF DeadSinceInv, ReadWereAlive
<1>3. QED
  BY <1>1, <1>2, DeadSinceStep, TypeCorrect, PTL DEF HSpec, TrueBeatMissesNoDeath

============================================================================
