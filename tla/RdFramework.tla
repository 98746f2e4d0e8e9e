---------------------------- MODULE RdFramework ----------------------------
(***************************************************************************)
(* rd_framework_cpp between the sockets and the entities.  A behaviour     *)
(* exercises the broker and its schedulers, or the threads of the two ends *)
(* of a connection.                                                        *)
(***************************************************************************)
EXTENDS MessageBroker, WireDuplex

VARIABLE layer      \* what this behaviour exercises

frameworkVars == <<vars, duplexVars, layer>>

FrameworkInit ==
    /\ BrokerInit /\ DuplexInit
    /\ layer \in {"broker", "connection"}
    /\ layer = "broker" => pending = [s \in Sides |-> 0]

OnlyBroker     == layer = "broker" /\ UNCHANGED <<duplexVars, layer>>
OnlyConnection == layer = "connection" /\ UNCHANGED <<vars, layer>>

FrameworkNext ==
    \/ OnlyBroker /\ BrokerNext
    \/ OnlyConnection /\ DuplexNext

\* The threads of the schedulers run what they are given, those of the wire
\* send and receive.
FrameworkSpec ==
    /\ FrameworkInit /\ [][FrameworkNext]_frameworkVars
    /\ WF_frameworkVars(OnlyBroker /\ DefaultStep)
    /\ WF_frameworkVars(OnlyBroker /\ CustomStep)
    /\ \A s \in Sides : WF_frameworkVars(OnlyConnection /\ Threads(s))
=============================================================================
