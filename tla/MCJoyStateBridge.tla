------------------------- MODULE MCJoyStateBridge --------------------------
(* Model of the joystick node for TLC. *)
EXTENDS JoyStateBridgeProps
============================================================================
