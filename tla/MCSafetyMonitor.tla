-------------------------- MODULE MCSafetyMonitor --------------------------
(* Model of one safety monitor for TLC: two monitors, so that one can die  *)
(* while the other is read, and a timeout longer than the polling period.  *)
EXTENDS SafetyMonitorProps
============================================================================
