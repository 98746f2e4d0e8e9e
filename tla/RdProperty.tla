----------------------------- MODULE RdProperty -----------------------------
(***************************************************************************)
(* RdProperty: a replicated value (base/RdPropertyBase.h, impl/RdProperty.h*)
(* over reactive/Property.h).  The master numbers its values; a value that *)
(* was sent before the other end knew the master's latest is rejected.     *)
(***************************************************************************)
EXTENDS RdReactiveBase

VARIABLES
    value,              \* value[e]: the copy at e
    master_version      \* master_version[e]: the version e knows

propertyVars == <<value, master_version>>

PropertyInit ==
    /\ value = [e \in Ends |-> NoValue]
    /\ master_version = [e \in Ends |-> 0]

-----------------------------------------------------------------------------
\* What the handler of init makes of master_version before it sends.
NextVersion(e) ==
    IF e = Master /\ bound[e] THEN master_version[e] + 1 ELSE master_version[e]

\* set.  A value that is the same fires no event.  A value set before bind is
\* not sent: the handler init advises sees it outside a local change.
PropertySet(e, v) ==
    /\ value[e] # v
    /\ value' = [value EXCEPT ![e] = v]
    /\ master_version' = [master_version EXCEPT ![e] = NextVersion(e)]
    /\ LocalChange(e, <<[version |-> NextVersion(e), value |-> v]>>)
    /\ careful' = (careful /\ bound[e])

PropertyBind(e) ==
    /\ Bind(e, <<>>)
    /\ UNCHANGED <<careful, propertyVars>>

(* Mutant: only an older version than the one before is rejected. *)
RejectedLate(e, version) == e = Master /\ version + 1 < master_version[e]

Rejected(e, version) == e = Master /\ version < master_version[e]

PropertyReceived(e) ==
    /\ WireReceived(e, <<>>)
    /\ LET msg == Head(wire[e]) IN
         IF Rejected(e, msg.version)
         THEN UNCHANGED propertyVars
         ELSE /\ master_version' = [master_version EXCEPT ![e] = msg.version]
              /\ value' = [value EXCEPT ![e] = msg.value]
    /\ UNCHANGED careful

PropertyNext ==
    \E e \in Ends :
        \/ \E v \in Values : PropertySet(e, v)
        \/ PropertyBind(e)
        \/ PropertyReceived(e)

-----------------------------------------------------------------------------
(***************************************************************************)
(* Whatever values of both ends cross on the wire, the copies are equal    *)
(* when nothing is under way any more, and both ends know the same         *)
(* version, unless a value was set before the copy was bound.              *)
(***************************************************************************)
PropertyConverges ==
    (Quiet /\ careful) => \A e, o \in Ends :
        value[e] = value[o] /\ master_version[e] = master_version[o]
=============================================================================
