-------------------------- MODULE PropertySignals --------------------------
(***************************************************************************)
(* The local property of rd_core_cpp (reactive/Property.h) with its two    *)
(* signals (reactive/base/SignalX.h), on the one thread that uses it.      *)
(*                                                                         *)
(* A handler is free to do what its caller may: set the property again,    *)
(* subscribe others, end lifetimes, its own included.  So a signal may be  *)
(* fired while it is being fired; the calls form a stack.  A view, which   *)
(* is a pair of handlers, gives each value a lifetime of its own.          *)
(*                                                                         *)
(* A signal passes the value by reference to the property: whoever is      *)
(* called hears the value of that moment, not the one the firing began     *)
(* with.  An inner firing that cleans up erases the element on which an    *)
(* outer one stands if its lifetime has ended; what follows is undefined.  *)
(***************************************************************************)
EXTENDS Naturals, Sequences, FiniteSets, SequencesExt

CONSTANTS
    Listeners,      \* each with its own lifetime
    Views,          \* the listeners that subscribed with view
    Settings,       \* the values
    Unset,          \* not a value
    MaxSets         \* bound: how often the property is set

ASSUME PropertySignalsAssumption ==
    Views \subseteq Listeners /\ Unset \notin Settings /\ MaxSets \in Nat

VARIABLES
    current,        \* the value
    listeners,      \* listeners[s][q]: a map of a signal, as the set of its
                    \* elements, each with its number
    advise_id,      \* advise_id[s]
    advised,        \* the listeners that have subscribed
    over,           \* the listeners whose lifetime has ended
    stack,          \* the calls, innermost last
    corrupt,        \* the behaviour is undefined
    sets,           \* how often the property was set
    heard,          \* heard[x]: the value that x handled last
    viewed          \* viewed[x]: the value whose lifetime the view x keeps

signalVars == <<current, listeners, advise_id, advised, over, stack, corrupt,
                sets, heard, viewed>>

Signals == {"before_change", "change"}
Queues  == {"priority", "listeners"}

SignalsInit ==
    /\ current = Unset
    /\ listeners = [s \in Signals |-> [q \in Queues |-> {}]]
    /\ advise_id = [s \in Signals |-> 1]
    /\ advised = {} /\ over = {}
    /\ stack = <<>>
    /\ corrupt = FALSE
    /\ sets = 0
    /\ heard = [x \in Listeners |-> Unset]
    /\ viewed = [x \in Listeners |-> Unset]

-----------------------------------------------------------------------------
(* Mutant: the priority listeners are left out. *)
FireLast(s) == [call |-> "fire", signal |-> s, queue |-> "listeners", at |-> 0]

\* A firing, at the element of the given number.
Fire(s) == [call |-> "fire", signal |-> s, queue |-> "priority", at |-> 0]

\* The queue that is fired after q, if any.
SecondQueue == "listeners"

Handler(x)   == [call |-> "handler", of |-> x]
Setting(new) == [call |-> "set", new |-> new]

TopCall == IF stack = <<>> THEN [call |-> "none"] ELSE Last(stack)
Calling(call) == ~corrupt /\ TopCall.call = call

\* Code outside of the library runs: the program, or the handler of someone.
UserRuns == ~corrupt /\ TopCall.call \in {"none", "handler"}

-----------------------------------------------------------------------------
(***************************************************************************)
(* Property::set                                                           *)
(***************************************************************************)
Set(new) ==
    /\ UserRuns /\ sets < MaxSets
    /\ new # current
    /\ sets' = sets + 1
    /\ IF current = Unset
       THEN current' = new /\ stack' = Append(stack, Fire("change"))
       ELSE /\ stack' = stack \o <<Setting(new), Fire("before_change")>>
            /\ UNCHANGED current
    /\ UNCHANGED <<listeners, advise_id, advised, over, corrupt, heard, viewed>>

Assign ==
    /\ Calling("set")
    /\ current' = TopCall.new
    /\ stack' = Append(Front(stack), Fire("change"))
    /\ UNCHANGED <<listeners, advise_id, advised, over, corrupt, sets, heard, viewed>>

-----------------------------------------------------------------------------
(***************************************************************************)
(* fire_impl                                                               *)
(***************************************************************************)
\* The elements after the one at which the firing stands: those that were
\* added meanwhile are among them.
Ahead(frame) == {event \in listeners[frame.signal][frame.queue] :
                    event.id > frame.at}

\* The next of them is event: a map is in the order of its numbers.
Reaches(event) ==
    /\ Calling("fire")
    /\ event \in Ahead(TopCall)
    /\ \A other \in Ahead(TopCall) : event.id <= other.id

At(frame, event) == [frame EXCEPT !.at = event.id]

Events == UNION {listeners[s][q] : s \in Signals, q \in Queues}

SkipDead == \E event \in Events :
    /\ Reaches(event)
    /\ event.of \in over
    /\ stack' = Append(Front(stack), At(TopCall, event))
    /\ UNCHANGED <<current, listeners, advise_id, advised, over, corrupt, sets,
                   heard, viewed>>

\* The handler of before_change ends the lifetime that the view keeps.
EndViewed == \E event \in Events :
    /\ Reaches(event)
    /\ event.of \notin over
    /\ TopCall.signal = "before_change"
    /\ viewed' = [viewed EXCEPT ![event.of] = Unset]
    /\ stack' = Append(Front(stack), At(TopCall, event))
    /\ UNCHANGED <<current, listeners, advise_id, advised, over, corrupt, sets, heard>>

\* x hears the value; a view has the last lifetime ended, if it has one, and
\* keeps a new one.
Hears(x) ==
    /\ heard' = [heard EXCEPT ![x] = current]
    /\ viewed' = IF x \in Views THEN [viewed EXCEPT ![x] = current] ELSE viewed

Notify == \E event \in Events :
    /\ Reaches(event)
    /\ event.of \notin over
    /\ TopCall.signal = "change"
    /\ Hears(event.of)
    /\ stack' = Front(stack) \o <<At(TopCall, event), Handler(event.of)>>
    /\ UNCHANGED <<current, listeners, advise_id, advised, over, corrupt, sets>>

HandlerReturns ==
    /\ Calling("handler")
    /\ stack' = Front(stack)
    /\ UNCHANGED <<current, listeners, advise_id, advised, over, corrupt, sets,
                   heard, viewed>>

\* An outer firing of the same queue stands on an element that is erased.
Stranded(dead) ==
    \E i \in 1 .. Len(stack) - 1 :
        /\ stack[i].call = "fire"
        /\ stack[i].signal = TopCall.signal /\ stack[i].queue = TopCall.queue
        /\ \E event \in dead : event.id = stack[i].at

Cleanup ==
    LET dead == {event \in listeners[TopCall.signal][TopCall.queue] :
                    event.of \in over}
    IN
    /\ Calling("fire") /\ Ahead(TopCall) = {}
    /\ listeners' = [listeners EXCEPT ![TopCall.signal][TopCall.queue] = @ \ dead]
    /\ corrupt' = Stranded(dead)
    /\ stack' = IF TopCall.queue = SecondQueue THEN Front(stack)
                ELSE Append(Front(stack),
                            [Fire(TopCall.signal) EXCEPT !.queue = SecondQueue])
    /\ UNCHANGED <<current, advise_id, advised, over, sets, heard, viewed>>

-----------------------------------------------------------------------------
(***************************************************************************)
(* advise and view, and the end of a lifetime                              *)
(***************************************************************************)
\* What x subscribes to: a view also to before_change, and first.
SignalsOf(x) == IF x \in Views THEN Signals ELSE {"change"}

AddListener(x, q) ==
    /\ listeners' = [s \in Signals |-> IF s \notin SignalsOf(x) THEN listeners[s]
          ELSE [listeners[s] EXCEPT ![q] = @ \union {[id |-> advise_id[s], of |-> x]}]]
    /\ advise_id' = [s \in Signals |-> IF s \in SignalsOf(x) THEN advise_id[s] + 1
                                       ELSE advise_id[s]]

(* Mutant: the new listener waits for the next value. *)
FirstCallLater(x) == UNCHANGED <<stack, heard, viewed>>

\* The new listener hears the value at once.
FirstCall(x) ==
    IF current = Unset THEN UNCHANGED <<stack, heard, viewed>>
    ELSE Hears(x) /\ stack' = Append(stack, Handler(x))

\* Whether it is a priority listener is for a counter to say that all the
\* threads of the program share.
Advise(x, q) ==
    /\ UserRuns
    /\ x \notin advised \union over
    /\ advised' = advised \union {x}
    /\ AddListener(x, q)
    /\ FirstCall(x)
    /\ UNCHANGED <<current, over, corrupt, sets>>

EndLifetime(x) ==
    /\ UserRuns
    /\ x \in advised \ over
    /\ over' = over \union {x}
    /\ viewed' = [viewed EXCEPT ![x] = Unset]
    /\ UNCHANGED <<current, listeners, advise_id, advised, stack, corrupt, sets, heard>>

-----------------------------------------------------------------------------
LibraryStep == Assign \/ SkipDead \/ EndViewed \/ Notify \/ HandlerReturns \/ Cleanup

SignalsNext ==
    \/ \E new \in Settings : Set(new)
    \/ LibraryStep
    \/ \E x \in Listeners : EndLifetime(x) \/ \E q \in Queues : Advise(x, q)

SignalsSpec == SignalsInit /\ [][SignalsNext]_signalVars

-----------------------------------------------------------------------------
(***************************************************************************)
(* Properties                                                              *)
(***************************************************************************)
\* The type of every variable; the elements of a map have numbers of their
\* own.
SignalsTypeOK ==
    /\ current \in Settings \union {Unset}
    /\ \A s \in Signals, q \in Queues :
         \A event \in listeners[s][q] :
            /\ event.id < advise_id[s] /\ event.of \in advised
            /\ \A other \in listeners[s][q] : other.id = event.id => other = event
    /\ advised \subseteq Listeners /\ over \subseteq advised
    /\ corrupt \in BOOLEAN /\ sets \in 0 .. MaxSets
    /\ heard \in [Listeners -> Settings \union {Unset}]
    /\ viewed \in [Listeners -> Settings \union {Unset}]

(***************************************************************************)
(* However the handlers set the property again, subscribe and unsubscribe  *)
(* while it is being fired: when all calls are over every listener has     *)
(* handled the value of the property last, and every view keeps a lifetime *)
(* for that value and for no other.                                        *)
(***************************************************************************)
HearsLast ==
    (stack = <<>> /\ ~corrupt /\ current # Unset) =>
        \A x \in advised \ over :
            heard[x] = current /\ (x \in Views => viewed[x] = current)

(***************************************************************************)
(* When an ordinary listener hears a value, every priority listener has    *)
(* heard it: an entity is subscribed with priority, so it has sent a       *)
(* change before a handler of the program can make the next one.           *)
(***************************************************************************)
PriorityHearsFirst ==
    [][\A x \in advised :
          (Notify /\ heard'[x] = current /\ TopCall.queue = "listeners")
             => \A event \in listeners["change"]["priority"] :
                    event.of \in over \/ heard[event.of] = current]_signalVars
=============================================================================
