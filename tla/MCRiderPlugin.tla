--------------------------- MODULE MCRiderPlugin ---------------------------
(* Constants for TLC: settings of each kind, among them a play mode that a *)
(* mode cannot express and more clients than it can hold.                  *)
EXTENDS RiderPlugin

Given(play, clients, dedicated, spawn) ==
    [play |-> play, clients |-> clients, dedicated |-> dedicated, spawn |-> spawn]

SomeSettings == {
    Given("InViewPort", 1, FALSE, FALSE),
    Given("InTargetedMobilePreview", 2, FALSE, TRUE),
    Given("InVR", 5, TRUE, FALSE) }

\* With and without the bit that asks to compile.
SomeModes == { 0, 21, 128 + 40 }
StrayModes == { 0, 21 }
=============================================================================
