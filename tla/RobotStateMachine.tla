------------------------- MODULE RobotStateMachine -------------------------
(***************************************************************************)
(* The node of robot_state_machine_sentor.py: the owner of the robot's     *)
(* state (start-up, disabled, enabled, active) and of its mode (manual or  *)
(* autonomous).  rclpy.spin runs it on one thread, so every callback is    *)
(* one action.  Messages arrive in any order, are lost or repeated at      *)
(* will: each subscription is an action of the environment with any        *)
(* payload.                                                                *)
(*                                                                         *)
(* Time advances by Tick, one period (0.1 s) of the two watchdog timers.   *)
(* A time stamp of the code is kept as its age in ticks, a one-shot timer  *)
(* as the ticks it has left.  Tick waits for the timers that are due: a    *)
(* timer runs within its period, but in any order with the other timers    *)
(* and with any number of messages before and after it.                    *)
(***************************************************************************)
EXTENDS Integers

CONSTANTS
  DeadmanTimeout,   \* deadman_timeout, in ticks
  CritTimeout,      \* _crit_hb_to
  NoncritTimeout,   \* _noncrit_hb_to
  Grace,            \* period of the auto-activation timer
  StartupDelay      \* period of the start-up timer

ASSUME TimesAssumption ==
  /\ DeadmanTimeout \in Nat /\ CritTimeout \in Nat /\ NoncritTimeout \in Nat
  /\ Grace \in Nat \ {0} /\ StartupDelay \in Nat \ {0}

VARIABLES
  state,         \* current_state
  autonomous,    \* autonomous_mode
  noncritOk,     \* noncrit_ok
  recover,       \* _recover_from_noncrit
  lastNoncrit,   \* _noncrit_last_value
  deadmanAge,    \* time.time() - last_deadman
  critAge,       \* time.time() - _last_crit_hb
  noncritAge,    \* time.time() - _last_noncrit_hb
  startupTimer,  \* ticks the start-up timer has left, or Off
  autoTimer,     \* ticks autonomous_active_timer has left, or Off
  due            \* the watchdogs that have still to run in this period

modeVars   == <<autonomous, noncritOk, recover, lastNoncrit>>
ageVars    == <<deadmanAge, critAge, noncritAge>>
timerVars  == <<startupTimer, autoTimer, due>>
vars == <<state, modeVars, ageVars, timerVars>>

States    == {"start-up", "disabled", "enabled", "active"}
Watchdogs == {"deadman", "heartbeats"}

\* A timer that is not created, or cancelled: the two are alike to the code.
Off == -1

\* Ages saturate one past the timeout they are compared with.
Older(age, timeout) == IF age > timeout THEN age ELSE age + 1

CritLost    == critAge > CritTimeout
NoncritLost == noncritAge > NoncritTimeout

FlagsTypeOK ==
  /\ autonomous \in BOOLEAN /\ noncritOk \in BOOLEAN
  /\ recover \in BOOLEAN /\ lastNoncrit \in BOOLEAN

ClocksTypeOK ==
  /\ state \in States
  /\ deadmanAge \in 0 .. DeadmanTimeout + 1
  /\ critAge \in 0 .. CritTimeout + 1
  /\ noncritAge \in 0 .. NoncritTimeout + 1
  /\ startupTimer \in {Off} \cup (0 .. StartupDelay)
  /\ autoTimer \in {Off} \cup (0 .. Grace)
  /\ due \subseteq Watchdogs

TypeOK == FlagsTypeOK /\ ClocksTypeOK

\* The mode is a launch parameter; the first non-critical message is compared
\* with TRUE.
Init ==
  /\ state = "start-up"
  /\ autonomous \in BOOLEAN
  /\ noncritOk = TRUE /\ recover = FALSE /\ lastNoncrit = TRUE
  /\ deadmanAge = 0 /\ critAge = 0 /\ noncritAge = 0
  /\ startupTimer = StartupDelay /\ autoTimer = Off
  /\ due = {}

----------------------------------------------------------------------------
(* Operator messages.                                                      *)

\* Mutant: an entry to ENABLED forgets to cancel the pending timer.
HandleEnabledEntryKeepsTimer(mode, ok, coming) ==
  autoTimer' = IF mode /\ ok /\ coming THEN Grace ELSE autoTimer

\* Cancel the pending auto-activation; arm a new one when the robot comes from
\* a non-critical issue that is over.
HandleEnabledEntry(mode, ok, coming) ==
  autoTimer' = IF mode /\ ok /\ coming THEN Grace ELSE Off

\* Mutant: a mode change leaves an ACTIVE robot ACTIVE.
SetModeStaysActive(mode) ==
  /\ mode # autonomous
  /\ autonomous' = mode
  /\ UNCHANGED <<state, recover, autoTimer, noncritOk, lastNoncrit, ageVars, startupTimer, due>>

\* A request for the mode in force changes nothing.
SetMode(mode) ==
  /\ mode # autonomous
  /\ autonomous' = mode
  /\ \/ /\ state = "active"
        /\ state' = "enabled" /\ recover' = FALSE
        /\ HandleEnabledEntry(mode, noncritOk, FALSE)
     \/ /\ state # "active"
        /\ UNCHANGED <<state, recover, autoTimer>>
  /\ UNCHANGED <<noncritOk, lastNoncrit, ageVars, startupTimer, due>>

\* The transitions the operator may ask for; any other request is ignored.
Valid == [s \in States |->
            CASE s = "start-up" -> {}
              [] s = "disabled" -> {"enabled"}
              [] s = "enabled"  -> {"disabled", "active"}
              [] s = "active"   -> {"enabled", "disabled"}]

SetState(req) ==
  /\ req \in Valid[state]
  /\ state' = req
  /\ \/ /\ req = "enabled"
        /\ recover' = FALSE
        /\ HandleEnabledEntry(autonomous, noncritOk, FALSE)
     \/ /\ req # "enabled"
        /\ UNCHANGED <<recover, autoTimer>>
  /\ UNCHANGED <<autonomous, noncritOk, lastNoncrit, ageVars, startupTimer, due>>

\* Any deadman message refreshes the deadman; it moves the robot in manual mode.
Deadman(pressed) ==
  /\ deadmanAge' = 0
  /\ \/ /\ ~autonomous /\ state = "enabled" /\ pressed
        /\ state' = "active" /\ UNCHANGED recover
     \/ /\ ~autonomous /\ state = "active" /\ ~pressed
        /\ state' = "enabled" /\ recover' = FALSE
     \/ /\ autonomous \/ state \notin {"enabled", "active"} \/ pressed = (state = "active")
        /\ UNCHANGED <<state, recover>>
  /\ UNCHANGED <<autonomous, noncritOk, lastNoncrit, critAge, noncritAge, timerVars>>

----------------------------------------------------------------------------
(* Heartbeats of the safety monitors.                                      *)

\* Only TRUE refreshes the critical beat; FALSE disables, whatever the state,
\* and leaves a pending auto-activation armed.
CritHb(ok) ==
  /\ \/ /\ ok
        /\ critAge' = 0 /\ UNCHANGED <<state, recover>>
     \/ /\ ~ok
        /\ state' = "disabled" /\ recover' = FALSE /\ UNCHANGED critAge
  /\ UNCHANGED <<autonomous, noncritOk, lastNoncrit, deadmanAge, noncritAge, timerVars>>

\* The non-critical value turns TRUE: the issue is over.
NoncritRecovered ==
  /\ noncritOk' = TRUE
  /\ \/ /\ state = "enabled"
        /\ HandleEnabledEntry(autonomous, TRUE, recover)
     \/ /\ state # "enabled"
        /\ UNCHANGED autoTimer
  /\ UNCHANGED <<state, recover>>

\* The non-critical value turns FALSE: in autonomous ACTIVE, back to ENABLED.
NoncritIssue ==
  /\ noncritOk' = FALSE
  /\ \/ /\ autonomous /\ state = "active"
        /\ state' = "enabled" /\ recover' = TRUE
        /\ HandleEnabledEntry(TRUE, FALSE, TRUE)
     \/ /\ ~(autonomous /\ state = "active")
        /\ UNCHANGED <<state, recover, autoTimer>>

\* Every beat is fresh; only a flip of the value is acted on.
NoncritHb(ok) ==
  /\ noncritAge' = 0
  /\ lastNoncrit' = ok
  /\ \/ ok /\ ~lastNoncrit /\ NoncritRecovered
     \/ ~ok /\ lastNoncrit /\ NoncritIssue
     \/ ok = lastNoncrit /\ UNCHANGED <<state, noncritOk, recover, autoTimer>>
  /\ UNCHANGED <<autonomous, deadmanAge, critAge, startupTimer, due>>

----------------------------------------------------------------------------
(* Timers.                                                                 *)

StartupComplete ==
  /\ startupTimer = 0
  /\ startupTimer' = Off
  /\ state' = "disabled"
  /\ UNCHANGED <<modeVars, ageVars, autoTimer, due>>

\* Mutant: the recovery intent must be clear before the robot resumes.
MayGoActiveAfterReset == state = "enabled" /\ autonomous /\ noncritOk /\ ~recover

MayGoActive == state = "enabled" /\ autonomous /\ noncritOk

\* A timer of rclpy is periodic: it fires again unless the robot goes active.
AutonomousGoActive ==
  /\ autoTimer = 0
  /\ \/ /\ MayGoActive
        /\ autoTimer' = Off /\ state' = "active" /\ recover' = FALSE
     \/ /\ ~MayGoActive
        /\ autoTimer' = Grace /\ UNCHANGED <<state, recover>>
  /\ UNCHANGED <<autonomous, noncritOk, lastNoncrit, ageVars, startupTimer, due>>

\* Mutant: the deadman is watched in the wrong mode.
DeadmanWatchdogWrongMode ==
  /\ "deadman" \in due
  /\ due' = due \ {"deadman"}
  /\ LET expired == autonomous /\ state = "active" /\ deadmanAge > DeadmanTimeout
     IN \/ expired /\ state' = "enabled" /\ recover' = FALSE
        \/ ~expired /\ UNCHANGED <<state, recover>>
  /\ UNCHANGED <<autonomous, noncritOk, lastNoncrit, ageVars, startupTimer, autoTimer>>

DeadmanWatchdog ==
  /\ "deadman" \in due
  /\ due' = due \ {"deadman"}
  /\ LET expired == ~autonomous /\ state = "active" /\ deadmanAge > DeadmanTimeout
     IN \/ expired /\ state' = "enabled" /\ recover' = FALSE
        \/ ~expired /\ UNCHANGED <<state, recover>>
  /\ UNCHANGED <<autonomous, noncritOk, lastNoncrit, ageVars, startupTimer, autoTimer>>

\* Mutant: both beats have to be lost.
CheckHeartbeatsBothLost ==
  /\ "heartbeats" \in due
  /\ due' = due \ {"heartbeats"}
  /\ \/ /\ CritLost /\ NoncritLost
        /\ state' = "disabled" /\ recover' = FALSE /\ autoTimer' = Off
        /\ noncritOk' = (CritLost /\ noncritOk)
     \/ /\ ~(CritLost /\ NoncritLost)
        /\ noncritOk' = TRUE
        /\ UNCHANGED <<state, recover, autoTimer>>
  /\ UNCHANGED <<autonomous, lastNoncrit, ageVars, startupTimer>>

\* A lost beat disables; a fresh non-critical beat restores noncritOk whatever
\* value it carried.
CheckHeartbeats ==
  /\ "heartbeats" \in due
  /\ due' = due \ {"heartbeats"}
  /\ \/ /\ CritLost \/ NoncritLost
        /\ state' = "disabled" /\ recover' = FALSE /\ autoTimer' = Off
        /\ noncritOk' = (CritLost /\ noncritOk)
     \/ /\ ~CritLost /\ ~NoncritLost
        /\ noncritOk' = TRUE
        /\ UNCHANGED <<state, recover, autoTimer>>
  /\ UNCHANGED <<autonomous, lastNoncrit, ageVars, startupTimer>>

\* Mutant: a cancelled timer keeps counting.
CountdownCancelled(timer) == timer - 1

Countdown(timer) == IF timer = Off THEN Off ELSE timer - 1

Tick ==
  /\ due = {} /\ autoTimer # 0 /\ startupTimer # 0
  /\ due' = Watchdogs
  /\ deadmanAge' = Older(deadmanAge, DeadmanTimeout)
  /\ critAge' = Older(critAge, CritTimeout)
  /\ noncritAge' = Older(noncritAge, NoncritTimeout)
  /\ autoTimer' = Countdown(autoTimer)
  /\ startupTimer' = Countdown(startupTimer)
  /\ UNCHANGED <<state, modeVars>>

----------------------------------------------------------------------------
Operator ==
  \/ \E mode \in BOOLEAN : SetMode(mode)
  \/ \E req \in States : SetState(req)
  \/ \E pressed \in BOOLEAN : Deadman(pressed)

Heartbeat == \E ok \in BOOLEAN : CritHb(ok) \/ NoncritHb(ok)

Timer == StartupComplete \/ AutonomousGoActive \/ DeadmanWatchdog \/ CheckHeartbeats

Next == Operator \/ Heartbeat \/ Timer \/ Tick

\* Time passes and the executor serves a timer that is due; no message need
\* ever arrive.
Fairness ==
  /\ WF_vars(Tick) /\ WF_vars(StartupComplete) /\ WF_vars(AutonomousGoActive)
  /\ WF_vars(DeadmanWatchdog) /\ WF_vars(CheckHeartbeats)

Spec == Init /\ [][Next]_vars /\ Fairness
============================================================================
