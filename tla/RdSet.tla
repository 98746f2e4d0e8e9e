-------------------------------- MODULE RdSet --------------------------------
(***************************************************************************)
(* RdSet: a replicated set (impl/RdSet.h over reactive/ViewableSet.h).     *)
(* Changes carry no version.                                               *)
(***************************************************************************)
EXTENDS RdReactiveBase

VARIABLE set    \* set[e]: the copy at e

SetInit == set = [e \in Ends |-> {}]

-----------------------------------------------------------------------------
Event(kind, v) == [kind |-> kind, value |-> v]

(* Mutant: the last event is not fired. *)
EventsButLast(kind, S) == LET vs == SetToSeq(S) IN
    [i \in 1 .. Len(vs) - 1 |-> Event(kind, vs[i])]

\* The events of a change of several elements, in some order.
Events(kind, S) == LET vs == SetToSeq(S) IN
    [i \in DOMAIN vs |-> Event(kind, vs[i])]

\* A change of one of these elements by the other end is on its way to e.
CrossingElement(e, S) == \E m \in Range(wire[e]) : m.value \in S

\* add and addAll fire for the elements that are new.
Added(e, S) == S \ set[e]

SetAdd(e, S) ==
    /\ Added(e, S) # {}
    /\ set' = [set EXCEPT ![e] = @ \union S]
    /\ LocalChange(e, Events("ADD", Added(e, S)))
    /\ careful' = (careful /\ ~CrossingElement(e, S))

\* remove and clear.
SetRemove(e, S) ==
    /\ S # {} /\ S \subseteq set[e]
    /\ Cardinality(S) = 1 \/ S = set[e]
    /\ set' = [set EXCEPT ![e] = @ \ S]
    /\ LocalChange(e, Events("REMOVE", S))
    /\ careful' = (careful /\ ~CrossingElement(e, S))

\* init sends what the copy holds.
SetBind(e) ==
    /\ Bind(e, Events("ADD", set[e]))
    /\ careful' = (careful /\ ~CrossingElement(e, set[e]))
    /\ UNCHANGED set

ApplyElement(S, msg) ==
    IF msg.kind = "ADD" THEN S \union {msg.value} ELSE S \ {msg.value}

SetReceived(e) ==
    /\ WireReceived(e, <<>>)
    /\ set' = [set EXCEPT ![e] = ApplyElement(@, Head(wire[e]))]
    /\ UNCHANGED careful

SetNext ==
    \E e \in Ends :
        \/ \E S \in SUBSET Values : SetAdd(e, S) \/ SetRemove(e, S)
        \/ SetBind(e)
        \/ SetReceived(e)

-----------------------------------------------------------------------------
\* The set at e once it has received everything under way: the last message
\* about an element decides.
ArrivingElements(e) ==
    {v \in Values :
        LET about == {i \in DOMAIN wire[e] : wire[e][i].value = v}
        IN  IF about = {} THEN v \in set[e]
            ELSE \E i \in about : /\ wire[e][i].kind = "ADD"
                                  /\ \A j \in about : j <= i}

(***************************************************************************)
(* Changes of different elements may cross: the messages under way make    *)
(* the two sets equal, unless both ends change one element at a time.      *)
(***************************************************************************)
SetsMeet ==
    (careful /\ \A e \in Ends : bound[e]) =>
        ArrivingElements("editor") = ArrivingElements("rider")
=============================================================================
