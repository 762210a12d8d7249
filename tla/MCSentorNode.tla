---------------------------- MODULE MCSentorNode ----------------------------
(* Model of sentor_node.py for TLC: one topic and one node behind a beat.  *)
EXTENDS SentorNodeProps
=============================================================================
