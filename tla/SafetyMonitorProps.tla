------------------------ MODULE SafetyMonitorProps -------------------------
(***************************************************************************)
(* What a heartbeat of SafetyMonitor.py means to those who receive it.     *)
(* History variables remember how long no pass has failed, whether the     *)
(* operator's override is still in force, and which monitors have been     *)
(* dead since the pass in progress began.                                  *)
(***************************************************************************)
EXTENDS SafetyMonitor

VARIABLES
  clean,       \* ticks without a failed pass or an override, at most SafeTimeout
  overridden,  \* an override came after the last failed pass or countdown
  deadSince    \* monitors dead from the beginning of the pass up to now

hvars == <<vars, clean, overridden, deadSince>>

HInit ==
  /\ Init
  /\ clean = 0 /\ overridden = FALSE /\ deadSince = {}

Dead == {m \in Monitor : ~alive[m]}

PassStep ==
  /\ Pass
  /\ clean' = IF EndPassDead THEN 0 ELSE clean
  /\ overridden' = (overridden /\ ~EndPassDead)
  /\ deadSince' = IF BeginPass THEN Dead ELSE {m \in deadSince : ~alive'[m]}

CountdownStep ==
  /\ CountdownDone
  /\ overridden' = FALSE
  /\ UNCHANGED <<clean, deadSince>>

OverrideStep ==
  /\ \E value \in BOOLEAN : Override(value)
  /\ clean' = 0 /\ overridden' = TRUE
  /\ UNCHANGED deadSince

StopStep ==
  /\ \E value \in BOOLEAN : SetStopped(value)
  /\ UNCHANGED <<clean, overridden, deadSince>>

MonitorStep ==
  /\ \E m \in Monitor : MonitorChanges(m)
  /\ deadSince' = {m \in deadSince : ~alive'[m]}
  /\ UNCHANGED <<clean, overridden>>

TickStep ==
  /\ Tick
  /\ clean' = IF clean < SafeTimeout THEN clean + 1 ELSE clean
  /\ UNCHANGED <<overridden, deadSince>>

HNext ==
  PassStep \/ CountdownStep \/ OverrideStep \/ StopStep \/ MonitorStep \/ TickStep

HSpec == HInit /\ [][HNext]_hvars /\ Fairness

----------------------------------------------------------------------------
(* Safety.                                                                 *)

\* Unless the operator says so, the monitor is safe only when no pass has found
\* a dead monitor, and no override was made, for the whole of
\* safe_operation_timeout: a countdown in progress never outlives either
\* (lines 81-90, 101-119).
SafeAfterCleanTimeout == safe /\ ~overridden => clean = SafeTimeout

\* A pass publishes TRUE only if it missed no failure that lasted as long as
\* the pass: each monitor was alive at some moment of it, however the monitors
\* change while they are read one by one (lines 69-99).
PassPublishes == pos = N + 1 /\ pos' = Idle
TrueBeatMissesNoDeath ==
  [][PassPublishes /\ beat' = "TRUE" => deadSince = {}]_hvars

\* While no override is in force the events sent agree with the beat: the last
\* one sent was TRUE exactly when the monitor is safe (lines 91-94, 104-107).
EventsTellTheBeat ==
  ~overridden => (safe <=> safeSent) /\ ~(safeSent /\ unsafeSent)

----------------------------------------------------------------------------
(* Liveness.                                                               *)

\* A monitor that stays dead keeps the beat FALSE in the end, whatever is
\* overridden meanwhile (lines 86-99).
FailureIsReported ==
  \A m \in Monitor : <>[](~alive[m] /\ ~stopped) => <>[](beat = "FALSE")

\* When all monitors stay alive and the operator makes no more overrides, the
\* beat becomes TRUE and stays TRUE, whatever an override left behind: a
\* countdown it cancelled is started again (lines 81-83, 101-119).
RecoveryIsReported ==
  <>[](Dead = {} /\ ~stopped) /\ <>[][~OverrideStep]_hvars => <>[](beat = "TRUE")
============================================================================
