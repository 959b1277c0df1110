------------------------ MODULE MCDisplayInfoPlugin ------------------------
(* Finite instances of DisplayInfoPlugin for TLC. *)
EXTENDS DisplayInfoPlugin
=============================================================================
