---------------------------- MODULE MCDSEvents ----------------------------
(* Finite instances of DSEvents for TLC. *)
EXTENDS DSEvents, TLC

CONSTANTS o1, o2, d1, d2, r24, r60

OneObserver == {o1}
TwoObservers == {o1, o2}
OneDispatcher == {d1}
TwoDispatchers == {d1, d2}
OneRate == {r60}
TwoRates == {r24, r60}
=============================================================================
