------------------------ MODULE MCDisplayInfoSystem ------------------------
(* Finite instances of DisplayInfoSystem for TLC. *)
EXTENDS DisplayInfoSystem, TLC

CONSTANTS i1, i2

TwoObjects == {i1, i2}
OneInterface == {"graphics"}
TwoInterfaces == {"graphics", "connection"}
=============================================================================
