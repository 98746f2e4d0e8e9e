------------------------------ MODULE MCRdCall ------------------------------
(* For TLC: the constants are given in Calls.cfg. *)
EXTENDS RdCall

FewCalls == 2
=============================================================================
