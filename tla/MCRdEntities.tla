---------------------------- MODULE MCRdEntities ----------------------------
(* Constants for TLC. *)
EXTENDS RdEntities

CONSTANTS x, y, k1, k2, none

TwoValues == {x, y}
TwoKeys == {k1, k2}
=============================================================================
