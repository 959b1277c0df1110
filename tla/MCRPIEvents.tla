---------------------------- MODULE MCRPIEvents ----------------------------
(* Finite instance of RPIEvents for TLC. *)
EXTENDS RPIEvents

CONSTANT s1
OneSink == {s1}
=============================================================================
