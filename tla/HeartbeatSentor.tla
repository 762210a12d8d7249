-------------------------- MODULE HeartbeatSentor --------------------------
(***************************************************************************)
(* The node of robot_state_machine/sentor.py, the heartbeat source of the  *)
(* older robot state machine: it turns the beats of the Arduino bridge     *)
(* into the critical heartbeat.  One thread; a tick is 0.1 s.              *)
(*                                                                         *)
(* Its three non-critical sources are outside: a check finds some of them  *)
(* late or none.  E-stop and collision are only logged, as is all that the *)
(* node remembers of earlier checks.                                       *)
(***************************************************************************)
EXTENDS Integers, Sequences

CONSTANT MarkTimeout  \* timeout of arduino_bridge_alive, in ticks

ASSUME MarkAssumption == MarkTimeout \in Nat

VARIABLES
  sentorUp,     \* the process runs
  markAge,      \* now - critical_heartbeats['arduino_bridge_alive']['last']
  checkDue,     \* _check has still to run in this period
  critWire,     \* /sentor/heartbeat_critical on its way
  noncritWire   \* /sentor/heartbeat_noncritical on its way

sentorVars == <<sentorUp, markAge, checkDue, critWire, noncritWire>>

SentorTypeOK ==
  /\ sentorUp \in BOOLEAN /\ checkDue \in BOOLEAN
  /\ markAge \in 0 .. MarkTimeout + 1
  /\ critWire \in {<< >>, <<TRUE>>}
  /\ noncritWire \in {<< >>, <<TRUE>>, <<FALSE>>}

SentorInit ==
  /\ sentorUp = TRUE /\ markAge = 0 /\ checkDue = FALSE
  /\ critWire = << >> /\ noncritWire = << >>

\* Every message marks the bridge alive, a FALSE as well as a TRUE.
HbMark ==
  /\ sentorUp
  /\ markAge' = 0
  /\ UNCHANGED <<sentorUp, checkDue, critWire, noncritWire>>

\* Mutant: the critical beat is published whatever is missing.
CheckAlwaysTrue(noncritMissing) ==
  /\ sentorUp /\ checkDue
  /\ checkDue' = FALSE
  /\ critWire' = <<TRUE>>
  /\ noncritWire' = <<~noncritMissing>>
  /\ UNCHANGED <<sentorUp, markAge>>

\* A missing critical beat is told by silence, a missing non-critical one by
\* FALSE.
Check(noncritMissing) ==
  /\ sentorUp /\ checkDue
  /\ checkDue' = FALSE
  /\ critWire' = IF markAge > MarkTimeout THEN << >> ELSE <<TRUE>>
  /\ noncritWire' = <<~noncritMissing>>
  /\ UNCHANGED <<sentorUp, markAge>>

SentorCrash ==
  /\ sentorUp
  /\ sentorUp' = FALSE /\ checkDue' = FALSE
  /\ UNCHANGED <<markAge, critWire, noncritWire>>

\* A period ends when its check has run and its messages have arrived.
SentorTick ==
  /\ ~checkDue /\ critWire = << >> /\ noncritWire = << >>
  /\ checkDue' = sentorUp
  /\ markAge' = IF markAge > MarkTimeout THEN markAge ELSE markAge + 1
  /\ UNCHANGED <<sentorUp, critWire, noncritWire>>
============================================================================
