--------------------------- MODULE MCLinuxEvents ---------------------------
(* Finite instances of LinuxEvents for TLC. *)
EXTENDS LinuxEvents

CalledAgain == {"lock"}
CalledOrParked == {"lock", "parked"}
=============================================================================
