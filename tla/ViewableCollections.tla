------------------------ MODULE ViewableCollections ------------------------
(***************************************************************************)
(* The observable list, map and set of rd_core_cpp (reactive/Viewable*.h,  *)
(* reactive/base/IViewable*.h) on the one thread that uses them.           *)
(*                                                                         *)
(* A view keeps a lifetime for every element and ends it when the element  *)
(* goes.  The handler of a new element, and whatever a lifetime ends, may  *)
(* use the collection again, so that the calls form a stack.  The three    *)
(* collections differ in what they do first:                               *)
(*                                                                         *)
(*   - removal: a list erases and fires, a map fires and erases by key, a  *)
(*     set fires and erases by an iterator it found before;                *)
(*   - a new subscription: a list and a map subscribe and report what they *)
(*     hold, a set reports and subscribes;                                 *)
(*   - clear: all three fire for what they held at first, then drop all.   *)
(*                                                                         *)
(* A call through a pointer or an iterator that is no longer good, a       *)
(* failed assertion and an exception are one outcome, broken; a change     *)
(* that overtakes another is crossed.  Neither is followed any further.    *)
(***************************************************************************)
EXTENDS Naturals, Sequences, FiniteSets, SequencesExt

CONSTANTS
    Watchers,       \* those who view, each with its own lifetime
    ItemKeys,       \* the keys of a map, the elements of a set
    MaxChanges,     \* bound: how often the program changes the collection
    MaxItems        \* bound: how many elements a list is given

ASSUME ViewableAssumption == {MaxChanges, MaxItems} \subseteq Nat

VARIABLES
    kind,           \* "list", "map" or "set"
    elements,       \* in order; made tells one value from any other
    made,           \* how many elements were made
    watchers,       \* the subscriptions to change, in order
    subscribed,     \* those who have called view
    ended,          \* those whose lifetime has ended
    kept,           \* kept[x]: the elements for which x keeps a lifetime
    frames,         \* the calls, innermost last
    changes,        \* how many changes the program has called for
    crossed,        \* a change came while an event of another was under way
    broken          \* see above

viewableVars == <<kind, elements, made, watchers, subscribed, ended, kept,
                  frames, changes, crossed, broken>>

NoKey == "none"

ViewableInit ==
    /\ kind \in {"list", "map", "set"}
    /\ elements = <<>> /\ made = 0
    /\ watchers = <<>> /\ subscribed = {} /\ ended = {}
    /\ kept = [x \in Watchers |-> <<>>]
    /\ frames = <<>> /\ changes = 0
    /\ crossed = FALSE /\ broken = FALSE

-----------------------------------------------------------------------------
Inner   == IF frames = <<>> THEN [do |-> "none"] ELSE Last(frames)
Outer   == Front(frames)
Followed == ~broken /\ ~crossed
Doing(do) == Followed /\ Inner.do = do
Under(outer, do) == \E i \in DOMAIN outer : outer[i].do = do

\* The program runs, or the handler of someone.
ProgramRuns == Followed /\ Inner.do \in {"none", "user"}

New(key) == [key |-> key, stamp |-> made + 1]
HasKey(entries, key) == \E i \in DOMAIN entries : entries[i].key = key
Position(entries, key) == CHOOSE i \in DOMAIN entries : entries[i].key = key

Added(i, new)        == [op |-> "add", at |-> i, new |-> new, old |-> new]
Updated(i, old, new) == [op |-> "update", at |-> i, new |-> new, old |-> old]
Removed(i, old)      == [op |-> "remove", at |-> i, new |-> old, old |-> old]

FireEvent(event) == [do |-> "fire", event |-> event, next |-> 1]
User == [do |-> "user"]

\* Of the frames: an event of a list that has yet to reach a view, in part or
\* as a whole, or a view that has yet to be told of some elements; of any
\* collection: a clear.
Awaits(outer) ==
    \/ Under(outer, "clear")
    \/ /\ kind = "list"
       /\ \/ Under(outer, "replay") \/ Under(outer, "addTo")
          \/ \E i \in DOMAIN outer :
                outer[i].do = "fire" /\ outer[i].next <= Len(watchers)

\* Of the frames: one that holds an iterator of the map or the set.
Iterates(outer) ==
    kind # "list" /\ (Under(outer, "replay") \/ (kind = "set" /\ Under(outer, "erase")))

\* A call of the program that changes the collection by one event.
Changes(newElements, newFrames) ==
    /\ ProgramRuns /\ changes < MaxChanges
    /\ changes' = changes + 1
    /\ elements' = newElements
    /\ frames' = frames \o newFrames
    /\ crossed' = Awaits(frames)
    /\ UNCHANGED <<kind, watchers, subscribed, ended, kept>>

-----------------------------------------------------------------------------
(***************************************************************************)
(* ViewableList                                                            *)
(***************************************************************************)
Insert(i) ==
    /\ kind = "list" /\ Len(elements) < MaxItems
    /\ Changes(InsertAt(elements, i, New(NoKey)), <<FireEvent(Added(i, New(NoKey)))>>)
    /\ made' = made + 1
    /\ UNCHANGED broken

ReplaceWith(i) ==
    /\ kind = "list"
    /\ Changes(ReplaceAt(elements, i, New(NoKey)),
               <<FireEvent(Updated(i, elements[i], New(NoKey)))>>)
    /\ made' = made + 1
    /\ UNCHANGED broken

RemoveFrom(i) ==
    /\ kind = "list"
    /\ Changes(RemoveAt(elements, i), <<FireEvent(Removed(i, elements[i]))>>)
    /\ UNCHANGED <<made, broken>>

\* addAll and removeAll call the above for one element after the other; at
\* is 0 for an addAll at the end.
AddTwo(i) ==
    /\ kind = "list" /\ Len(elements) + 2 <= MaxItems
    /\ Changes(elements, <<[do |-> "addAll", at |-> i, left |-> 2]>>)
    /\ UNCHANGED <<made, broken>>

AddAllStep ==
    LET i == IF Inner.at = 0 THEN Len(elements) + 1 ELSE Inner.at IN
    /\ Doing("addAll")
    /\ IF Inner.left = 0
       THEN frames' = Outer /\ UNCHANGED <<elements, made, broken, crossed>>
       ELSE /\ broken' = (i > Len(elements) + 1)
            /\ frames' = Outer \o
                 <<[Inner EXCEPT !.at = IF @ = 0 THEN 0 ELSE @ + 1, !.left = @ - 1],
                   FireEvent(Added(i, New(NoKey)))>>
            /\ elements' = IF broken' THEN elements ELSE InsertAt(elements, i, New(NoKey))
            /\ made' = made + 1
            /\ crossed' = Awaits(Outer)
    /\ UNCHANGED <<kind, watchers, subscribed, ended, kept, changes>>

RemoveThese(entries) ==
    /\ kind = "list" /\ entries # {}
    /\ Changes(elements,
               <<[do |-> "removeAll", at |-> Len(elements), these |-> entries]>>)
    /\ UNCHANGED <<made, broken>>

RemoveAllStep ==
    LET i == Inner.at IN
    /\ Doing("removeAll")
    /\ IF i = 0
       THEN frames' = Outer /\ UNCHANGED <<elements, broken, crossed>>
       ELSE IF i > Len(elements)
       THEN broken' = TRUE /\ UNCHANGED <<frames, elements, crossed>>
       ELSE IF elements[i] \in Inner.these
       THEN /\ elements' = RemoveAt(elements, i)
            /\ frames' = Outer \o <<[Inner EXCEPT !.at = i - 1],
                                    FireEvent(Removed(i, elements[i]))>>
            /\ crossed' = Awaits(Outer)
            /\ UNCHANGED broken
       ELSE /\ frames' = Append(Outer, [Inner EXCEPT !.at = i - 1])
            /\ UNCHANGED <<elements, broken, crossed>>
    /\ UNCHANGED <<kind, made, watchers, subscribed, ended, kept, changes>>

-----------------------------------------------------------------------------
(***************************************************************************)
(* ViewableMap and ViewableSet                                             *)
(***************************************************************************)
\* A new key; an element that the set has is not added again.
AddKey(key) ==
    LET i == Len(elements) + 1 IN
    /\ kind # "list" /\ ~HasKey(elements, key)
    /\ Changes(Append(elements, New(key)), <<FireEvent(Added(i, New(key)))>>)
    /\ made' = made + 1
    /\ broken' = Iterates(frames)

\* The value of the key has been moved out and the key not yet erased.
MovedOut(key) == \E i \in DOMAIN frames : frames[i].do = "erase" /\ frames[i].key = key

\* Another value for a key of the map.
UpdateKey(key) ==
    LET i == Position(elements, key) IN
    /\ kind = "map" /\ HasKey(elements, key)
    /\ Changes(ReplaceAt(elements, i, New(key)),
               <<FireEvent(Updated(i, elements[i], New(key)))>>)
    /\ made' = made + 1
    /\ broken' = MovedOut(key)

RemoveKey(key) ==
    LET i == Position(elements, key) IN
    /\ kind # "list" /\ HasKey(elements, key)
    /\ Changes(elements, <<[do |-> "erase", key |-> key],
                           FireEvent(Removed(i, elements[i]))>>)
    /\ broken' = (kind = "map" /\ MovedOut(key))
    /\ UNCHANGED made

\* set of the map returns a reference that it took before it fired.
Referenced(outer) ==
    \E i \in DOMAIN outer : outer[i].do = "fire" /\ outer[i].event.op = "update"

EraseKey ==
    /\ Doing("erase")
    /\ elements' = IF HasKey(elements, Inner.key)
                   THEN RemoveAt(elements, Position(elements, Inner.key)) ELSE elements
    /\ frames' = Outer
    /\ broken' = (Iterates(Outer) \/ (kind = "map" /\ Referenced(Outer)))
    /\ UNCHANGED <<kind, made, watchers, subscribed, ended, kept, changes, crossed>>

-----------------------------------------------------------------------------
(***************************************************************************)
(* clear                                                                   *)
(***************************************************************************)
\* A list from its end, so that the positions stay good.
ClearEvents ==
    LET n == Len(elements) IN
    [j \in 1 .. n |-> LET i == IF kind = "list" THEN n + 1 - j ELSE j
                      IN Removed(i, elements[i])]

Clear ==
    /\ Changes(elements, <<[do |-> "clear", events |-> ClearEvents]>>)
    /\ broken' = \E key \in ItemKeys : kind = "map" /\ MovedOut(key)
    /\ UNCHANGED made

ClearStep ==
    /\ Doing("clear")
    /\ IF Inner.events = <<>>
       THEN /\ elements' = <<>> /\ frames' = Outer
            /\ broken' = (Iterates(Outer) \/ (kind = "map" /\ Referenced(Outer)))
       ELSE /\ frames' = Outer \o <<[Inner EXCEPT !.events = Tail(@)],
                                    FireEvent(Head(Inner.events))>>
            /\ broken' = (kind # "list" /\ ~HasKey(elements, Head(Inner.events).old.key))
            /\ UNCHANGED elements
    /\ UNCHANGED <<kind, made, watchers, subscribed, ended, kept, changes, crossed>>

-----------------------------------------------------------------------------
(***************************************************************************)
(* The handler of a view                                                   *)
(***************************************************************************)
\* x makes a lifetime for the element and hands it out: not if its own has
\* ended; a map that has one for the key leaves it; a set asserts.
AddTo(x, event, outer) ==
    /\ broken' = \/ x \in ended
                 \/ event.new \notin ToSet(elements)
                 \/ kind = "list" /\ event.at > Len(kept[x]) + 1
                 \/ kind = "set" /\ HasKey(kept[x], event.new.key)
    /\ IF broken' \/ (kind = "map" /\ HasKey(kept[x], event.new.key))
       THEN frames' = outer /\ UNCHANGED kept
       ELSE /\ frames' = Append(outer, User)
            /\ kept' = [kept EXCEPT ![x] =
                          IF kind = "list" THEN InsertAt(@, event.at, event.new)
                          ELSE Append(@, event.new)]

\* x forgets the lifetime and ends it.
RemoveOf(x, event, outer) ==
    /\ broken' = IF kind = "list" THEN event.at > Len(kept[x])
                 ELSE ~HasKey(kept[x], event.old.key)
    /\ frames' = Append(outer, User)
    /\ kept' = IF broken' THEN kept ELSE [kept EXCEPT ![x] =
                 RemoveAt(@, IF kind = "list" THEN event.at
                             ELSE Position(@, event.old.key))]

(* Mutant: of an update the view hears only the addition. *)
HearsAddition(x, event, outer) ==
    IF event.op = "remove" THEN RemoveOf(x, event, outer) ELSE AddTo(x, event, outer)

\* An update is a removal and then an addition.
HearsEvent(x, event, outer) ==
    CASE event.op = "add"    -> AddTo(x, event, outer)
      [] event.op = "remove" -> RemoveOf(x, event, outer)
      [] event.op = "update" ->
            RemoveOf(x, event, Append(outer, [do |-> "addTo", of |-> x, event |-> event]))

Deliver ==
    /\ Doing("fire")
    /\ IF Inner.next > Len(watchers) THEN frames' = Outer /\ UNCHANGED <<kept, broken>>
       ELSE LET x == watchers[Inner.next]
                outer == Append(Outer, [Inner EXCEPT !.next = @ + 1])
            IN IF x \in ended THEN frames' = outer /\ UNCHANGED <<kept, broken>>
               ELSE HearsEvent(x, Inner.event, outer)
    /\ UNCHANGED <<kind, elements, made, watchers, subscribed, ended, changes, crossed>>

SecondHalf ==
    /\ Doing("addTo")
    /\ AddTo(Inner.of, Inner.event, Outer)
    /\ UNCHANGED <<kind, elements, made, watchers, subscribed, ended, changes, crossed>>

UserReturns ==
    /\ Doing("user")
    /\ frames' = Outer
    /\ UNCHANGED <<kind, elements, made, watchers, subscribed, ended, kept,
                   changes, crossed, broken>>

-----------------------------------------------------------------------------
(***************************************************************************)
(* view, and the end of its lifetime                                       *)
(***************************************************************************)
\* An event of a list that is being fired reaches a new view in addition to
\* the report of what the list holds.
Watch(x) ==
    /\ ProgramRuns /\ x \notin subscribed
    /\ subscribed' = subscribed \union {x}
    /\ watchers' = IF kind = "set" THEN watchers ELSE Append(watchers, x)
    /\ frames' = Append(frames, [do |-> "replay", of |-> x, next |-> 1])
    /\ crossed' = \/ Under(frames, "clear")
                  \/ kind = "list" /\ Under(frames, "fire")
    /\ UNCHANGED <<kind, elements, made, ended, kept, changes, broken>>

Replay ==
    LET x == Inner.of
        i == Inner.next
    IN
    /\ Doing("replay")
    /\ IF i > Len(elements)
       THEN /\ frames' = Outer
            /\ watchers' = IF kind = "set" /\ x \notin ended THEN Append(watchers, x)
                           ELSE watchers
            /\ UNCHANGED <<kept, broken>>
       ELSE /\ UNCHANGED watchers
            /\ IF MovedOut(elements[i].key) /\ kind = "map"
               THEN broken' = TRUE /\ UNCHANGED <<kept, frames>>
               ELSE AddTo(x, Added(i, elements[i]),
                          Append(Outer, [Inner EXCEPT !.next = i + 1]))
    /\ UNCHANGED <<kind, elements, made, subscribed, ended, changes, crossed>>

EndWatch(x) ==
    /\ ProgramRuns /\ x \in subscribed \ ended
    /\ ended' = ended \union {x}
    /\ UNCHANGED <<kind, elements, made, watchers, subscribed, kept, frames,
                   changes, crossed, broken>>

-----------------------------------------------------------------------------
CollectionStep ==
    \/ AddAllStep \/ RemoveAllStep \/ EraseKey \/ ClearStep
    \/ Deliver \/ SecondHalf \/ UserReturns \/ Replay

ViewableNext ==
    \/ \E i \in 1 .. Len(elements) + 1 : Insert(i)
    \/ \E i \in 0 .. Len(elements) + 1 : AddTwo(i)
    \/ \E i \in DOMAIN elements : ReplaceWith(i) \/ RemoveFrom(i)
    \/ \E entries \in SUBSET ToSet(elements) : RemoveThese(entries)
    \/ \E key \in ItemKeys : AddKey(key) \/ UpdateKey(key) \/ RemoveKey(key)
    \/ Clear
    \/ CollectionStep
    \/ \E x \in Watchers : Watch(x) \/ EndWatch(x)

ViewableSpec == ViewableInit /\ [][ViewableNext]_viewableVars

-----------------------------------------------------------------------------
(***************************************************************************)
(* Properties                                                              *)
(***************************************************************************)
\* The type of every variable; no key twice.
ViewableTypeOK ==
    /\ kind \in {"list", "map", "set"}
    /\ \A i, j \in DOMAIN elements :
         /\ elements[i].stamp <= made
         /\ (kind # "list" /\ elements[i].key = elements[j].key) => i = j
    /\ {watchers[i] : i \in DOMAIN watchers} \subseteq subscribed
    /\ ended \subseteq subscribed /\ subscribed \subseteq Watchers
    /\ changes \in 0 .. MaxChanges
    /\ {crossed, broken} \subseteq BOOLEAN

(***************************************************************************)
(* However the handlers change the collection while it tells of a change,  *)
(* when all calls are over every view keeps a lifetime for each element    *)
(* and for nothing else, those of a list in the order of the list: unless  *)
(* something was done through a dead pointer, or a change was made in the  *)
(* middle of a clear or, to a list, before another had reached every view. *)
(***************************************************************************)
ViewsMirror ==
    (frames = <<>> /\ ~broken /\ ~crossed) =>
        \A x \in subscribed \ ended :
            IF kind = "list" THEN kept[x] = elements
            ELSE ToSet(kept[x]) = ToSet(elements)
=============================================================================
