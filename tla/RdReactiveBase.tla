--------------------------- MODULE RdReactiveBase ---------------------------
(***************************************************************************)
(* What the replicated entities of RD have in common                       *)
(* (base/RdReactiveBase.{h,cpp}, base/RdBindableBase.cpp): an entity has   *)
(* one copy at each end of the protocol, a local change of a bound copy is *)
(* sent to the other end, and a change that was received is applied        *)
(* without being sent back.                                                *)
(*                                                                         *)
(* The wire of each direction is a FIFO queue that loses nothing: what     *)
(* WireDelivery.tla promises as long as a connection lasts.  A message     *)
(* waits for the other copy to be bound, as the handshake of the           *)
(* extension, which every entity belongs to, arranges.                     *)
(*                                                                         *)
(* Both ends run this code; the program's own end is "editor", the other   *)
(* is the IDE, whose library is modelled by this one.                      *)
(***************************************************************************)
EXTENDS Naturals, Sequences, FiniteSets, SequencesExt

CONSTANTS
    Values,       \* the values, or elements, of an entity
    NoValue,      \* no value: of a property not set, of a key not in a map
    Master,       \* the end whose is_master is set
    MaxChanges    \* bound: how many changes both ends make

Ends == {"editor", "rider"}

ASSUME RdReactiveBaseAssumption ==
    /\ IsFiniteSet(Values) /\ NoValue \notin Values
    /\ Master \in Ends
    /\ MaxChanges \in Nat

VARIABLES
    wire,       \* wire[e]: the messages on their way to end e
    bound,      \* bound[e]: is the copy at e bound?
    changes,    \* how many changes were made so far
    careful     \* history: the entity was used within its limits, which
                \* each kind of entity states for itself

reactiveVars == <<wire, bound, changes, careful>>

Other(e) == IF e = "editor" THEN "rider" ELSE "editor"

ReactiveInit ==
    /\ wire = [e \in Ends |-> <<>>]
    /\ bound = [e \in Ends |-> FALSE]
    /\ changes = 0
    /\ careful = TRUE

-----------------------------------------------------------------------------
\* A local change and the messages it is sent as; an unbound copy, which has
\* not advised its own signal yet, sends nothing.
LocalChange(e, msgs) ==
    /\ changes < MaxChanges
    /\ changes' = changes + 1
    /\ wire' = IF bound[e] THEN [wire EXCEPT ![Other(e)] = @ \o msgs] ELSE wire
    /\ UNCHANGED bound

\* bind, with the messages that init sends.
Bind(e, msgs) ==
    /\ ~bound[e]
    /\ bound' = [bound EXCEPT ![e] = TRUE]
    /\ wire' = [wire EXCEPT ![Other(e)] = @ \o msgs]
    /\ UNCHANGED changes

\* on_wire_received, with the messages it answers.
WireReceived(e, answers) ==
    /\ bound[e] /\ wire[e] # <<>>
    /\ wire' = [wire EXCEPT ![e] = Tail(@), ![Other(e)] = @ \o answers]
    /\ UNCHANGED <<bound, changes>>

Quiet == \A e \in Ends : bound[e] /\ wire[e] = <<>>
=============================================================================
