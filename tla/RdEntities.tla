----------------------------- MODULE RdEntities -----------------------------
(***************************************************************************)
(* The replicated entities together.  They share the wire and nothing      *)
(* else, so a behaviour exercises one of them.  An extension is an entity  *)
(* too (ext/RdExtBase.h), whose ends are found by a handshake.             *)
(***************************************************************************)
EXTENDS RdProperty, RdMap, RdList, RdSet

CONSTANTS MaxBindings, MaxPayloads      \* bounds of ExtWire.tla

VARIABLES
    kind,           \* the entity of this behaviour
    phase, connected, sendQ, direct, drain, bindings, payloads, arrived,
    crossed,        \* those of ExtWire.tla
    ext_wire        \* its wire

Ext == INSTANCE ExtWire WITH wire <- ext_wire

extensionVars == <<phase, connected, sendQ, direct, drain, ext_wire, bindings,
                   payloads, arrived, crossed>>
entityVars == <<reactiveVars, propertyVars, mapVars, listVars, set, extensionVars,
                kind>>

Kinds == {"property", "map", "list", "set", "extension"}

EntitiesInit ==
    /\ ReactiveInit
    /\ PropertyInit /\ MapInit /\ ListInit /\ SetInit
    /\ Ext!ExtInit
    /\ kind \in Kinds

\* Behaviours of one kind leave the others alone.
OnlyProperty ==
    kind = "property" /\ UNCHANGED <<mapVars, listVars, set, extensionVars, kind>>
OnlyMap ==
    kind = "map" /\ UNCHANGED <<propertyVars, listVars, set, extensionVars, kind>>
OnlyList ==
    kind = "list" /\ UNCHANGED <<propertyVars, mapVars, set, extensionVars, kind>>
OnlySet ==
    kind = "set" /\ UNCHANGED <<propertyVars, mapVars, listVars, extensionVars, kind>>
OnlyExtension ==
    /\ kind = "extension"
    /\ UNCHANGED <<reactiveVars, propertyVars, mapVars, listVars, set, kind>>

EntitiesNext ==
    \/ OnlyProperty /\ PropertyNext
    \/ OnlyMap /\ MapNext
    \/ OnlyList /\ ListNext
    \/ OnlySet /\ SetNext
    \/ OnlyExtension /\ Ext!AnyUserNext

EntitiesSpec == EntitiesInit /\ [][EntitiesNext]_entityVars

\* on_wire_received, and bind, of the entity at e; an extension goes on with
\* either.
Receive(e) ==
    \/ OnlyProperty /\ PropertyReceived(e)
    \/ OnlyMap /\ (MapAck(e) \/ MapReceived(e))
    \/ OnlyList /\ ListReceived(e)
    \/ OnlySet /\ SetReceived(e)
    \/ OnlyExtension /\ Ext!ExtGoesOn(e)

BindEntity(e) ==
    \/ OnlyProperty /\ PropertyBind(e)
    \/ OnlyMap /\ MapBind(e)
    \/ OnlyList /\ ListBind(e)
    \/ OnlySet /\ SetBind(e)

\* Both ends bind and the wire delivers.  Nobody has to change anything.
FairEntitiesSpec ==
    /\ EntitiesSpec
    /\ \A e \in Ends : /\ WF_entityVars(Receive(e))
                       /\ WF_entityVars(BindEntity(e))

-----------------------------------------------------------------------------
\* What is written for a change, by kind.
Messages ==
    [version : Nat, value : Values]
      \union [ack : BOOLEAN, key : Keys, value : Values \union {NoValue},
              version : Nat]
      \union [version : Nat \ {0},
              event : [op : {"ADD", "UPDATE", "REMOVE"}, index : Nat,
                       value : Values \union {NoValue}]]
      \union [kind : {"ADD", "REMOVE"}, value : Values]

\* The type of every variable.
EntitiesTypeOK ==
    /\ kind \in Kinds
    /\ wire \in [Ends -> Seq(Messages)]
    /\ bound \in [Ends -> BOOLEAN]
    /\ changes \in 0 .. MaxChanges
    /\ careful \in BOOLEAN
    /\ value \in [Ends -> Values \union {NoValue}]
    /\ master_version \in [Ends -> Nat]
    /\ map \in [Ends -> [Keys -> Values \union {NoValue}]]
    /\ next_version \in Nat
    /\ pendingForAck \subseteq [key : Keys, version : Nat, live : BOOLEAN]
    /\ ackError \in BOOLEAN
    /\ \A e \in Ends : list[e] \in Seq(Values) /\ Len(list[e]) <= MaxLength
    /\ list_version \in [Ends -> Nat \ {0}]
    /\ conflict \in BOOLEAN /\ nested \in BOOLEAN
    /\ set \in [Ends -> SUBSET Values]

(***************************************************************************)
(* What each kind of entity promises, stated in its module: RdProperty.tla *)
(* (the copies of a property converge), RdMap.tla (a map settles; what is  *)
(* pending is under way), RdList.tla and RdSet.tla (the messages under way *)
(* make the copies equal).                                                 *)
(***************************************************************************)
PropertiesConverge == kind = "property" => PropertyConverges

\* MapSettles and PendingIsUnderWay of RdMap.tla.
MapsSettle == kind = "map" => MapSettles /\ PendingIsUnderWay

\* ListsMeet of RdList.tla.
ListsConverge == kind = "list" => ListsMeet

\* SetsMeet of RdSet.tla.
SetsConverge == kind = "set" => SetsMeet

(***************************************************************************)
(* A change is over: what was received is not sent back, acknowledgements  *)
(* are not acknowledged, so the wire falls silent once nobody changes      *)
(* anything, unless an assertion of a list ended the protocol.  Neither is *)
(* Ready answered, and the answer, and so on.                              *)
(***************************************************************************)
FallsSilent ==
    <>[](IF kind = "extension" THEN ext_wire = [e \in Ends |-> <<>>]
                               ELSE Quiet \/ Asserted)

\* Two ends of an extension that are bound get connected, and send what has
\* waited (ExtWire.tla).
BoundGetConnected == Ext!BoundGetConnected
=============================================================================
