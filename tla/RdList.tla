------------------------------- MODULE RdList -------------------------------
(***************************************************************************)
(* RdList: a replicated list (impl/RdList.h over reactive/ViewableList.h). *)
(* A change is sent as an index and an element; both ends count the        *)
(* changes of both, and a change that does not carry the next number is    *)
(* one that crossed another: `Are you modifying a list from two sides?'.   *)
(* Without that assertion the two lists go on apart; what happens then is  *)
(* not modelled.  removeAll of a list that holds one of the elements fails *)
(* another assertion, that of local_change, before it removes anything:    *)
(* what it does without the assertion is not modelled either.              *)
(***************************************************************************)
EXTENDS RdReactiveBase

CONSTANT MaxLength   \* bound: the length of a list

VARIABLES
    list,           \* list[e]: the copy at e
    list_version,   \* list_version[e]: next_version of e
    conflict,       \* the assertion of on_wire_received failed
    nested          \* the assertion of local_change failed

listVars == <<list, list_version, conflict, nested>>

ListInit ==
    /\ list = [e \in Ends |-> <<>>]
    /\ list_version = [e \in Ends |-> 1]
    /\ conflict = FALSE
    /\ nested = FALSE

-----------------------------------------------------------------------------
(***************************************************************************)
(* Events; indexes count from 0                                            *)
(***************************************************************************)
AddEvent(i, v)    == [op |-> "ADD", index |-> i, value |-> v]
UpdateEvent(i, v) == [op |-> "UPDATE", index |-> i, value |-> v]
RemoveEvent(i)    == [op |-> "REMOVE", index |-> i, value |-> NoValue]

\* add, set and removeAt of ViewableList.
Apply(l, ev) ==
    CASE ev.op = "ADD"    -> InsertAt(l, ev.index + 1, ev.value)
      [] ev.op = "UPDATE" -> ReplaceAt(l, ev.index + 1, ev.value)
      [] ev.op = "REMOVE" -> RemoveAt(l, ev.index + 1)

Replay(l, events) ==
    LET after[i \in 0 .. Len(events)] ==
          IF i = 0 THEN l ELSE Apply(after[i - 1], events[i])
    IN  after[Len(events)]

Indexes(l) == 0 .. Len(l) - 1

\* An operation of a list: the events it fires and the list it leaves.
Operation(events, result) == [events |-> events, result |-> result]

Add(l, i, v) == Operation(<<AddEvent(i, v)>>, InsertAt(l, i + 1, v))

AddAll(l, i, v, w) ==
    Operation(<<AddEvent(i, v), AddEvent(i + 1, w)>>,
              SubSeq(l, 1, i) \o <<v, w>> \o SubSeq(l, i + 1, Len(l)))

SetTo(l, i, v) == Operation(<<UpdateEvent(i, v)>>, ReplaceAt(l, i + 1, v))

RemovedAt(l, i) == Operation(<<RemoveEvent(i)>>, RemoveAt(l, i + 1))

\* remove(element) takes the first.
First(l, v) == CHOOSE i \in Indexes(l) :
    l[i + 1] = v /\ \A j \in 0 .. i - 1 : l[j + 1] # v

(* Mutant: the events of clear go from the front. *)
ClearedFromFront(l) == Operation([j \in 1 .. Len(l) |-> RemoveEvent(j - 1)], <<>>)

\* clear fires from the back as well, and then drops all.
Cleared(l) == Operation([j \in 1 .. Len(l) |-> RemoveEvent(Len(l) - j)], <<>>)

\* All but removeAll.
Operations(l) ==
    {Add(l, i, v) : i \in 0 .. Len(l), v \in Values}
      \union {AddAll(l, i, v, w) : i \in 0 .. Len(l), v \in Values, w \in Values}
      \union {SetTo(l, i, v) : i \in Indexes(l), v \in Values}
      \union {RemovedAt(l, i) : i \in Indexes(l)}
      \union {RemovedAt(l, First(l, v)) : v \in Range(l)}
      \union {Cleared(l)}

-----------------------------------------------------------------------------
Numbered(events, first) ==
    [i \in DOMAIN events |-> [version |-> first + i - 1, event |-> events[i]]]

\* The program ends at an assertion that fails.
Asserted == conflict \/ nested

\* The other end's changes are on their way to e.
Crossing(e) == wire[e] # <<>>

ListChange(e) ==
    /\ ~Asserted
    /\ \E op \in Operations(list[e]) :
         /\ Len(op.result) <= MaxLength
         /\ list' = [list EXCEPT ![e] = op.result]
         /\ LocalChange(e, Numbered(op.events, list_version[e]))
         /\ list_version' = [list_version EXCEPT ![e] =
                               IF bound[e] THEN @ + Len(op.events) ELSE @]
    /\ careful' = (careful /\ ~Crossing(e))
    /\ UNCHANGED <<conflict, nested>>

(***************************************************************************)
(* removeAll is a local change that calls removeAt, which is virtual and   *)
(* so a local change of its own, for every element it finds: the assertion *)
(* of the inner one fails at the first.  It finds none of the elements S,  *)
(* and then changes nothing, or ends here.                                 *)
(***************************************************************************)
ListRemoveAll(e) ==
    /\ ~Asserted
    /\ \E S \in SUBSET Values : S \intersect Range(list[e]) # {}
    /\ nested' = TRUE
    /\ UNCHANGED <<reactiveVars, list, list_version, conflict>>

\* init sends what the copy holds, one element after the other.
ListBind(e) ==
    LET events == [i \in DOMAIN list[e] |-> AddEvent(i - 1, list[e][i])]
    IN  /\ ~Asserted
        /\ Bind(e, Numbered(events, list_version[e]))
        /\ list_version' = [list_version EXCEPT ![e] = @ + Len(events)]
        /\ careful' = (careful /\ (events = <<>> \/ ~Crossing(e)))
        /\ UNCHANGED <<list, conflict, nested>>

\* The handler of init returns for a change that is not local.
ListReceived(e) ==
    /\ ~Asserted
    /\ WireReceived(e, <<>>)
    /\ LET msg == Head(wire[e]) IN
         IF msg.version = list_version[e]
         THEN /\ list_version' = [list_version EXCEPT ![e] = @ + 1]
              /\ list' = [list EXCEPT ![e] = Apply(@, msg.event)]
              /\ UNCHANGED conflict
         ELSE conflict' = TRUE /\ UNCHANGED <<list, list_version>>
    /\ UNCHANGED <<careful, nested>>

ListNext ==
    \E e \in Ends : \/ ListChange(e) \/ ListRemoveAll(e)
                   \/ ListBind(e) \/ ListReceived(e)

-----------------------------------------------------------------------------
\* The list at e once it has received everything under way.
Arriving(e) == Replay(list[e], [i \in DOMAIN wire[e] |-> wire[e][i].event])

(***************************************************************************)
(* The messages under way lead from one list to the other, whatever        *)
(* operations they come from, and no message meets the assertion, as long  *)
(* as neither end changes the list while changes of the other are on their *)
(* way to it.                                                              *)
(***************************************************************************)
ListsMeet ==
    careful =>
        /\ ~conflict
        /\ (\A e \in Ends : bound[e]) => Arriving("editor") = Arriving("rider")
=============================================================================
