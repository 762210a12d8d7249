-------------------------- MODULE MCArduinoChain ---------------------------
(* Model of the chain for TLC. *)
EXTENDS ArduinoChainProps
============================================================================
