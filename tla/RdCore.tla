------------------------------- MODULE RdCore -------------------------------
(***************************************************************************)
(* rd_core_cpp, the part of RD below the protocol: lifetimes, local        *)
(* properties and collections.  A behaviour exercises one of the three.    *)
(***************************************************************************)
EXTENDS Lifetimes, PropertySignals, ViewableCollections

VARIABLE part       \* what this behaviour exercises

coreVars == <<lifetimeVars, signalVars, viewableVars, part>>

CoreInit ==
    /\ part \in {"lifetimes", "signals", "collections"}
    /\ LifetimesInit /\ SignalsInit /\ ViewableInit
    /\ part # "collections" => kind = "list"

OnlyLifetimes   == part = "lifetimes" /\ UNCHANGED <<signalVars, viewableVars, part>>
OnlySignals     == part = "signals" /\ UNCHANGED <<lifetimeVars, viewableVars, part>>
OnlyCollections == part = "collections" /\ UNCHANGED <<lifetimeVars, signalVars, part>>

CoreNext ==
    \/ OnlyLifetimes /\ LifetimesNext
    \/ OnlySignals /\ SignalsNext
    \/ OnlyCollections /\ ViewableNext

\* A thread that has begun a call on a lifetime goes on with it.
CoreSpec ==
    /\ CoreInit /\ [][CoreNext]_coreVars
    /\ \A w \in Workers : WF_coreVars(OnlyLifetimes /\ Progress(w))
=============================================================================
