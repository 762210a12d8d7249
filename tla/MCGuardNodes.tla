--------------------------- MODULE MCGuardNodes ----------------------------
(* Model of the nodes built on the C++ guard for TLC. *)
EXTENDS GuardNodesProps

ManagedSeq == <<"a", "b">>
============================================================================
