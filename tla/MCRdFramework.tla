---------------------------- MODULE MCRdFramework ----------------------------
(* Constants for TLC: an entity on each kind of scheduler. *)
EXTENDS RdFramework

CONSTANTS signal, call, ext

AnEntityOfEachKind == {signal, call, ext}
SchedulerOfEach ==
    [e \in AnEntityOfEachKind |->
        CASE e = signal -> "default" [] e = call -> "custom" [] e = ext -> "synchronous"]
=============================================================================
