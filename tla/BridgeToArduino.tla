-------------------------- MODULE BridgeToArduino --------------------------
(***************************************************************************)
(* The node of bridge_to_arduino.py, as far as its heartbeat               *)
(* arduino_bridge_alive goes: the exchange with the Arduino every 0.1 s,   *)
(* which counts failures and ends the process after FailureLimit of them   *)
(* in a row, and the timeout check every 0.2 s.  One thread: a timer's     *)
(* callback is one action.  A tick is 0.1 s.                               *)
(*                                                                         *)
(* The Arduino is outside: each exchange ends in one of three ways.  What  *)
(* travels over the line (the state for the Arduino, weights, directions)  *)
(* decides nothing here and is left out.                                   *)
(***************************************************************************)
EXTENDS Integers, Sequences

CONSTANTS
  FailureLimit,    \* serial_failure_limit
  ArduinoTimeout,  \* arduino_timeout, in ticks
  CheckPeriod      \* period of _check_arduino_timeout, in ticks

ASSUME BridgeAssumption ==
  /\ FailureLimit \in Nat \ {0} /\ ArduinoTimeout \in Nat /\ CheckPeriod \in Nat \ {0}

VARIABLES
  bridge,      \* "waiting" for the Arduino, "running" or "ended"
  failures,    \* serial_failure_count
  arduinoAge,  \* time.time() - last_arduino_msg_time, up to one past the timeout
  checkIn,     \* ticks to the next run of the timeout check
  bridgeDue,   \* the timers that have still to run in this period
  aliveWire    \* arduino_bridge_alive on its way: best effort, depth 1

bridgeVars == <<bridge, failures, arduinoAge, checkIn, bridgeDue, aliveWire>>

BridgeTypeOK ==
  /\ bridge \in {"waiting", "running", "ended"}
  /\ failures \in 0 .. FailureLimit
  /\ arduinoAge \in 0 .. ArduinoTimeout + 1
  /\ checkIn \in 1 .. CheckPeriod
  /\ bridgeDue \subseteq {"serial", "timeout"}
  /\ aliveWire \in {<< >>, <<TRUE>>, <<FALSE>>}

\* A port that cannot be opened ends the process in the constructor.
BridgeInit ==
  /\ bridge \in {"waiting", "ended"}
  /\ failures = 0 /\ arduinoAge = 0
  /\ checkIn = CheckPeriod /\ bridgeDue = {} /\ aliveWire = << >>

\* wait_for_arduino gives up after 5 s; the timers begin with the node.
WaitForArduino ==
  /\ bridge = "waiting"
  /\ bridge' = "running"
  /\ arduinoAge' = 0
  /\ UNCHANGED <<failures, checkIn, bridgeDue, aliveWire>>

\* "done": written, and read or nothing to read within 0.1 s.  "garbled":
\* written, but what came back cannot be parsed.  "unwritten": the write fails,
\* or the e-stop status, which arrives as text, is no number to write.
Outcomes == {"done", "garbled", "unwritten"}

\* Mutant: the count starts again with every failure.
FailuresAfterForgetful(outcome) == IF outcome = "done" THEN 0 ELSE 1

\* Mutant: the process ends after one failure too many.
GivesUpLate(count) == count > FailureLimit

\* A write that succeeds clears the count before the answer is read.
FailuresAfter(outcome) ==
  CASE outcome = "done"      -> 0
    [] outcome = "garbled"   -> 1
    [] outcome = "unwritten" -> failures + 1

GivesUp(count) == count >= FailureLimit

\* A failure is published as FALSE before the process ends.
SerialIo(outcome) ==
  /\ bridge = "running" /\ "serial" \in bridgeDue
  /\ failures' = FailuresAfter(outcome)
  /\ arduinoAge' = IF outcome = "unwritten" THEN arduinoAge ELSE 0
  /\ aliveWire' = IF outcome = "done" THEN aliveWire ELSE <<FALSE>>
  /\ \/ GivesUp(failures') /\ bridge' = "ended" /\ bridgeDue' = {}
     \/ ~GivesUp(failures') /\ bridgeDue' = bridgeDue \ {"serial"} /\ UNCHANGED bridge
  /\ UNCHANGED checkIn

CheckArduinoTimeout ==
  /\ bridge = "running" /\ "timeout" \in bridgeDue
  /\ bridgeDue' = bridgeDue \ {"timeout"}
  /\ aliveWire' = <<arduinoAge <= ArduinoTimeout>>
  /\ UNCHANGED <<bridge, failures, arduinoAge, checkIn>>

\* The process is killed.
BridgeCrash ==
  /\ bridge # "ended"
  /\ bridge' = "ended" /\ bridgeDue' = {}
  /\ UNCHANGED <<failures, arduinoAge, checkIn, aliveWire>>

\* A period ends when its timers have run and its message has arrived or is lost.
BridgeTick ==
  /\ bridgeDue = {} /\ aliveWire = << >>
  /\ \/ /\ bridge = "running"
        /\ arduinoAge' = IF arduinoAge > ArduinoTimeout THEN arduinoAge ELSE arduinoAge + 1
        /\ checkIn' = IF checkIn > 1 THEN checkIn - 1 ELSE CheckPeriod
        /\ bridgeDue' = {"serial"} \cup (IF checkIn = 1 THEN {"timeout"} ELSE {})
     \/ /\ bridge # "running"
        /\ UNCHANGED <<arduinoAge, checkIn, bridgeDue>>
  /\ UNCHANGED <<bridge, failures, aliveWire>>
============================================================================
