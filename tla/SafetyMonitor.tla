--------------------------- MODULE SafetyMonitor ---------------------------
(***************************************************************************)
(* One SafetyMonitor node (SafetyMonitor.py): it polls its monitors and    *)
(* publishes one heartbeat, TRUE once they have all been alive for         *)
(* safe_operation_timeout.                                                 *)
(*                                                                         *)
(* The node's callbacks exclude each other, but the monitors run on other  *)
(* threads of the executor: a pass of _safety_pub_cb reads them one by one *)
(* while they change.  A pass is short against the periods of the timers,  *)
(* so time does not advance in the middle of one.                          *)
(***************************************************************************)
EXTENDS Integers

CONSTANTS
  N,             \* number of registered monitors, fixed before the node spins
  PassPeriod,    \* 1 / safety_pub_rate, in ticks
  SafeTimeout,   \* safe_operation_timeout, in ticks
  AutoTagging    \* auto_safety_tagging

ASSUME SafetyAssumption ==
  /\ N \in Nat \ {0} /\ PassPeriod \in Nat \ {0} /\ SafeTimeout \in Nat \ {0}
  /\ AutoTagging \in BOOLEAN

VARIABLES
  alive,       \* the attribute the node reads of each monitor
  pos,         \* the monitor a pass reads next, or Idle
  allAlive,    \* all(states) of the pass so far
  passTimer,   \* ticks to the next pass
  timer,       \* ticks the countdown to safe has left, or Off
  safe,        \* safe_operation
  safeSent,    \* safe_msg_sent
  unsafeSent,  \* unsafe_msg_sent
  stopped,     \* _stop_event
  beat         \* the Bool last published, or "none"

passVars  == <<pos, allAlive>>
eventVars == <<safeSent, unsafeSent>>
safetyVars == <<passVars, passTimer, timer, safe, eventVars, stopped, beat>>
vars == <<alive, safetyVars>>

Monitor == 1 .. N
Idle == 0
Off == -1

FlagsTypeOK ==
  /\ alive \in [Monitor -> BOOLEAN]
  /\ allAlive \in BOOLEAN /\ safe \in BOOLEAN
  /\ safeSent \in BOOLEAN /\ unsafeSent \in BOOLEAN /\ stopped \in BOOLEAN

ClocksTypeOK ==
  /\ pos \in {Idle} \cup Monitor \cup {N + 1}
  /\ passTimer \in 0 .. PassPeriod
  /\ timer \in {Off} \cup (0 .. SafeTimeout)
  /\ beat \in {"TRUE", "FALSE", "none"}

TypeOK == FlagsTypeOK /\ ClocksTypeOK

Init ==
  /\ alive = [m \in Monitor |-> FALSE]
  /\ pos = Idle /\ allAlive = TRUE
  /\ passTimer = PassPeriod /\ timer = Off
  /\ safe = FALSE /\ safeSent = FALSE /\ unsafeSent = FALSE
  /\ stopped = FALSE
  /\ beat = "none"

----------------------------------------------------------------------------
(* A pass of _safety_pub_cb.                                               *)

\* The timer's callback returns at once while the node is stopped.
BeginPass ==
  /\ pos = Idle /\ passTimer = 0
  /\ passTimer' = PassPeriod
  /\ \/ stopped /\ UNCHANGED passVars
     \/ ~stopped /\ pos' = 1 /\ allAlive' = TRUE
  /\ UNCHANGED <<alive, timer, safe, eventVars, stopped, beat>>

\* Mutant: the last monitor read decides.
ReadMonitorLastWins ==
  /\ pos \in Monitor
  /\ pos' = pos + 1
  /\ \E now \in BOOLEAN : alive' = [alive EXCEPT ![pos] = now]
  /\ allAlive' = alive'[pos]
  /\ UNCHANGED <<passTimer, timer, safe, eventVars, stopped, beat>>

\* A monitor that can refresh its attribute is made to do so first: what the
\* attribute is then is for the monitor to say.
ReadMonitor ==
  /\ pos \in Monitor
  /\ pos' = pos + 1
  /\ \E now \in BOOLEAN : alive' = [alive EXCEPT ![pos] = now]
  /\ allAlive' = (allAlive /\ alive'[pos])
  /\ UNCHANGED <<passTimer, timer, safe, eventVars, stopped, beat>>

Publish(value) == beat' = IF value THEN "TRUE" ELSE "FALSE"

\* Mutant: no countdown is started while the safe event counts as sent, as after
\* an override to FALSE.
EndPassAliveUnlessSent ==
  /\ pos = N + 1 /\ allAlive
  /\ pos' = Idle
  /\ timer' = IF AutoTagging /\ timer = Off /\ ~safeSent THEN SafeTimeout ELSE timer
  /\ Publish(safe)
  /\ UNCHANGED <<alive, allAlive, passTimer, safe, eventVars, stopped>>

\* All alive: start the countdown, unless one is running.
EndPassAlive ==
  /\ pos = N + 1 /\ allAlive
  /\ pos' = Idle
  /\ timer' = IF AutoTagging /\ timer = Off THEN SafeTimeout ELSE timer
  /\ Publish(safe)
  /\ UNCHANGED <<alive, allAlive, passTimer, safe, eventVars, stopped>>

\* Mutant: a failed pass leaves the countdown running.
EndPassDeadKeepsTimer ==
  /\ pos = N + 1 /\ ~allAlive
  /\ pos' = Idle
  /\ safe' = FALSE
  /\ unsafeSent' = TRUE
  /\ safeSent' = (safeSent /\ unsafeSent)
  /\ Publish(FALSE)
  /\ UNCHANGED <<alive, allAlive, passTimer, timer, stopped>>

\* Mutant: the beat is cleared only together with the event.
EndPassDeadOnEvent ==
  /\ pos = N + 1 /\ ~allAlive
  /\ pos' = Idle
  /\ timer' = Off
  /\ safe' = (safe /\ unsafeSent)
  /\ unsafeSent' = TRUE
  /\ safeSent' = (safeSent /\ unsafeSent)
  /\ Publish(safe /\ unsafeSent)
  /\ UNCHANGED <<alive, allAlive, passTimer, stopped>>

\* Some monitor dead: the countdown and the beat go, the event is sent once.
EndPassDead ==
  /\ pos = N + 1 /\ ~allAlive
  /\ pos' = Idle
  /\ timer' = Off
  /\ safe' = FALSE
  /\ unsafeSent' = TRUE
  /\ safeSent' = (safeSent /\ unsafeSent)
  /\ Publish(FALSE)
  /\ UNCHANGED <<alive, allAlive, passTimer, stopped>>

----------------------------------------------------------------------------
(* The other callbacks of the node.                                        *)

\* Mutant: the unsafe event is never sent again after the safe one.
CountdownDoneKeepsUnsafe ==
  /\ pos = Idle /\ timer = 0
  /\ timer' = Off
  /\ safe' = TRUE
  /\ safeSent' = TRUE
  /\ UNCHANGED <<alive, passVars, passTimer, unsafeSent, stopped, beat>>

\* _timer_cb: the countdown is complete.
CountdownDone ==
  /\ pos = Idle /\ timer = 0
  /\ timer' = Off
  /\ safe' = TRUE
  /\ safeSent' = TRUE
  /\ unsafeSent' = (unsafeSent /\ safeSent)
  /\ UNCHANGED <<alive, passVars, passTimer, stopped, beat>>

\* _srv_cb: the operator sets the beat, whatever the monitors say.
Override(value) ==
  /\ pos = Idle
  /\ timer' = Off
  /\ safe' = value
  /\ UNCHANGED <<alive, passVars, passTimer, eventVars, stopped, beat>>

\* stop_monitor and start_monitor run in the caller's thread.
SetStopped(value) ==
  /\ stopped' = value
  /\ UNCHANGED <<alive, passVars, passTimer, timer, safe, eventVars, beat>>

----------------------------------------------------------------------------
(* The monitors and the clock.                                             *)

MonitorChanges(m) ==
  /\ alive' = [alive EXCEPT ![m] = ~@]
  /\ UNCHANGED safetyVars

\* Mutant: a cancelled countdown keeps counting.
CountdownCancelled(t) == t - 1

Countdown(t) == IF t = Off THEN Off ELSE t - 1

Tick ==
  /\ pos = Idle /\ passTimer # 0 /\ timer # 0
  /\ passTimer' = passTimer - 1
  /\ timer' = Countdown(timer)
  /\ UNCHANGED <<alive, passVars, safe, eventVars, stopped, beat>>

Pass == BeginPass \/ ReadMonitor \/ EndPassAlive \/ EndPassDead

Next ==
  \/ Pass
  \/ CountdownDone
  \/ \E value \in BOOLEAN : Override(value) \/ SetStopped(value)
  \/ \E m \in Monitor : MonitorChanges(m)
  \/ Tick

\* The executor serves a timer that is due, and time passes.
Fairness == WF_vars(Pass) /\ WF_vars(CountdownDone) /\ WF_vars(Tick)

Spec == Init /\ [][Next]_vars /\ Fairness
============================================================================
