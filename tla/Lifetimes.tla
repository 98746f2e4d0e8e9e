------------------------------ MODULE Lifetimes ------------------------------
(***************************************************************************)
(* The lifetimes of rd_core_cpp (lifetime/LifetimeImpl.{h,cpp}): a tree of *)
(* scopes, each with the actions to be run when it ends.  Several threads  *)
(* make nested lifetimes, bracket resources and terminate.                 *)
(*                                                                         *)
(* terminate sets the flag before it takes the lock, moves the actions out *)
(* under the lock and runs them, last first, without it.  A nested         *)
(* lifetime is an action of its parent; when it ends first it erases that  *)
(* action, without the parent's lock: a race, after which anything may     *)
(* happen, if another thread uses the parent's actions at that moment.     *)
(***************************************************************************)
EXTENDS Naturals, Sequences, FiniteSets, SequencesExt

CONSTANTS
    Scopes,         \* the lifetimes of a tree
    Root,           \* the one that is nested in the eternal lifetime, which
                    \* attaches nothing
    Workers,        \* the threads
    MaxOpenings     \* bound: how many resources are bracketed

ASSUME LifetimesAssumption ==
    Root \in Scopes /\ IsFiniteSet(Workers) /\ MaxOpenings \in Nat

VARIABLES
    status,         \* status[l]: "new", "attaching", "made" or "failed"
    terminated,     \* terminated[l]
    actions,        \* actions[l], a set: their numbers are their order
    nextId,         \* action_id_in_map of l
    calls,          \* calls[w]: the calls of thread w, innermost last
    raced,          \* two threads met in the actions of a lifetime
    attachedAs,     \* attachedAs[l]: the parent of l and the action there
    opened,         \* history: how many resources of l were opened
    closed,         \* history: the actions that closed a resource of l
    leaked          \* history: openings of l whose closing was refused

lifetimeVars == <<status, terminated, actions, nextId, calls, raced,
                  attachedAs, opened, closed, leaked>>

Unattached == [to |-> "eternal", id |-> 0]

LifetimesInit ==
    /\ status = [l \in Scopes |-> IF l = Root THEN "made" ELSE "new"]
    /\ terminated = [l \in Scopes |-> FALSE]
    /\ actions = [l \in Scopes |-> {}]
    /\ nextId = [l \in Scopes |-> 0]
    /\ calls = [w \in Workers |-> <<>>]
    /\ raced = FALSE
    /\ attachedAs = [l \in Scopes |-> Unattached]
    /\ opened = [l \in Scopes |-> 0]
    /\ closed = [l \in Scopes |-> <<>>]
    /\ leaked = [l \in Scopes |-> 0]

-----------------------------------------------------------------------------
Idle(w)  == calls[w] = <<>>
Top(w)   == Last(calls[w])
Calls(w, call) == ~raced /\ ~Idle(w) /\ Top(w).call = call
Returns(w)     == calls' = [calls EXCEPT ![w] = Front(@)]
Becomes(w, frame) == calls' = [calls EXCEPT ![w] = Append(Front(@), frame)]

Frame(call, l) == [call |-> call, of |-> l, rest |-> {}]

Closing(id)       == [id |-> id, do |-> "close"]
Ending(id, l)     == [id |-> id, do |-> "terminate", of |-> l]
Detaching(id, p, which) == [id |-> id, do |-> "erase", of |-> p, which |-> which]

(* Mutant: an action is added whether or not the lifetime has ended. *)
AddActionUnchecked(l, action) ==
    /\ actions' = [actions EXCEPT ![l] = @ \union {action}]
    /\ nextId' = [nextId EXCEPT ![l] = @ + 1]

\* Under the lock; a lifetime that has ended refuses the action.
AddAction(l, action) ==
    /\ ~terminated[l]
    /\ actions' = [actions EXCEPT ![l] = @ \union {action}]
    /\ nextId' = [nextId EXCEPT ![l] = @ + 1]

-----------------------------------------------------------------------------
(***************************************************************************)
(* attach_nested, called by the constructor of a nested lifetime           *)
(***************************************************************************)
Make(w, l, p) ==
    /\ ~raced /\ Idle(w) /\ status[l] = "new" /\ status[p] = "made"
    /\ status' = [status EXCEPT ![l] = "attaching"]
    /\ attachedAs' = [attachedAs EXCEPT ![l] = [to |-> p, id |-> nextId[p]]]
    /\ calls' = [calls EXCEPT ![w] = Append(@, Frame("attach", l))]
    /\ UNCHANGED <<terminated, actions, nextId, raced, opened, closed, leaked>>

\* The first of two actions: the parent ends the nested lifetime.
Attach(w) ==
    LET l == Top(w).of
        p == attachedAs[l].to
    IN
    /\ Calls(w, "attach")
    /\ AddAction(p, Ending(nextId[p], l))
    /\ attachedAs' = [attachedAs EXCEPT ![l] = [to |-> p, id |-> nextId[p]]]
    /\ Becomes(w, Frame("attached", l))
    /\ UNCHANGED <<status, terminated, raced, opened, closed, leaked>>

\* The second: the nested lifetime takes itself out of the parent.
Attached(w) ==
    LET l == Top(w).of IN
    /\ Calls(w, "attached")
    /\ AddAction(l, Detaching(nextId[l], attachedAs[l].to, attachedAs[l].id))
    /\ status' = [status EXCEPT ![l] = "made"]
    /\ Returns(w)
    /\ UNCHANGED <<terminated, raced, attachedAs, opened, closed, leaked>>

\* Either is refused when the lifetime has ended, and the constructor throws.
Refused(w) ==
    LET l == Top(w).of IN
    /\ \/ Calls(w, "attach") /\ terminated[attachedAs[l].to]
       \/ Calls(w, "attached") /\ terminated[l]
    /\ status' = [status EXCEPT ![l] = "failed"]
    /\ Returns(w)
    /\ UNCHANGED <<terminated, actions, nextId, raced, attachedAs, opened,
                   closed, leaked>>

-----------------------------------------------------------------------------
(***************************************************************************)
(* bracket                                                                 *)
(***************************************************************************)
OpeningsSoFar ==
    LET total[S \in SUBSET Scopes] ==
          IF S = {} THEN 0
          ELSE LET l == CHOOSE l \in S : TRUE IN opened[l] + total[S \ {l}]
    IN  total[Scopes]

\* opening runs after the test and before add_action.
Open(w, l) ==
    /\ ~raced /\ Idle(w) /\ status[l] = "made"
    /\ ~terminated[l]
    /\ OpeningsSoFar < MaxOpenings
    /\ opened' = [opened EXCEPT ![l] = @ + 1]
    /\ calls' = [calls EXCEPT ![w] = Append(@, Frame("bracket", l))]
    /\ UNCHANGED <<status, terminated, actions, nextId, raced, attachedAs,
                   closed, leaked>>

Bracket(w) ==
    LET l == Top(w).of IN
    /\ Calls(w, "bracket")
    /\ AddAction(l, Closing(nextId[l]))
    /\ Returns(w)
    /\ UNCHANGED <<status, terminated, raced, attachedAs, opened, closed, leaked>>

\* add_action throws: what was opened stays open.
BracketRefused(w) ==
    LET l == Top(w).of IN
    /\ Calls(w, "bracket")
    /\ terminated[l]
    /\ leaked' = [leaked EXCEPT ![l] = @ + 1]
    /\ Returns(w)
    /\ UNCHANGED <<status, terminated, actions, nextId, raced, attachedAs,
                   opened, closed>>

-----------------------------------------------------------------------------
(***************************************************************************)
(* terminate                                                               *)
(***************************************************************************)
\* By its owner, from outside of any other call.
Terminate(w, l) ==
    /\ ~raced /\ Idle(w) /\ status[l] = "made"
    /\ terminated' = [terminated EXCEPT ![l] = TRUE]
    /\ calls' = [calls EXCEPT ![w] = Append(@, Frame("terminate", l))]
    /\ UNCHANGED <<status, actions, nextId, raced, attachedAs, opened, closed,
                   leaked>>

\* The actions are moved out; a second call finds none and is over.
Take(w) ==
    LET l == Top(w).of IN
    /\ Calls(w, "terminate")
    /\ actions' = [actions EXCEPT ![l] = {}]
    /\ IF actions[l] = {} THEN Returns(w)
       ELSE Becomes(w, [call |-> "run", of |-> l, rest |-> actions[l]])
    /\ UNCHANGED <<status, terminated, nextId, raced, attachedAs, opened,
                   closed, leaked>>

(* Mutant: the actions run in the order they were added. *)
PicksFirst(rest, next) == \A other \in rest : next.id <= other.id

\* The last of the rest is the next to run.
Picks(rest, next) == \A other \in rest : other.id <= next.id

\* The actions that the innermost call of w has yet to run.
ToRun(w) == IF Calls(w, "run") THEN Top(w).rest ELSE {}

Running(w, next, do) == Picks(ToRun(w), next) /\ next.do = do

\* The frame of w while next runs.
Rest(w, next) == [Top(w) EXCEPT !.rest = @ \ {next}]

RunClose(w) == \E next \in ToRun(w) :
    /\ Running(w, next, "close")
    /\ closed' = [closed EXCEPT ![Top(w).of] = Append(@, next.id)]
    /\ Becomes(w, Rest(w, next))
    /\ UNCHANGED <<status, terminated, actions, nextId, raced, attachedAs,
                   opened, leaked>>

RunTerminate(w) == \E next \in ToRun(w) :
    /\ Running(w, next, "terminate")
    /\ terminated' = [terminated EXCEPT ![next.of] = TRUE]
    /\ calls' = [calls EXCEPT ![w] =
                   Front(@) \o <<Rest(w, next), Frame("terminate", next.of)>>]
    /\ UNCHANGED <<status, actions, nextId, raced, attachedAs, opened, closed,
                   leaked>>

\* Without the lock of the parent.
RunErase(w) == \E next \in ToRun(w) :
    /\ Running(w, next, "erase")
    /\ actions' = [actions EXCEPT ![next.of] =
                     {action \in @ : action.id # next.which}]
    /\ Becomes(w, Rest(w, next))
    /\ UNCHANGED <<status, terminated, nextId, raced, attachedAs, opened,
                   closed, leaked>>

Return(w) ==
    /\ Calls(w, "run")
    /\ Top(w).rest = {}
    /\ Returns(w)
    /\ UNCHANGED <<status, terminated, actions, nextId, raced, attachedAs,
                   opened, closed, leaked>>

Erases(w) == {next \in ToRun(w) : Running(w, next, "erase")}

\* The lifetime whose actions w is about to use, as a set.
Uses(w) ==
    IF Idle(w) THEN {}
    ELSE CASE Top(w).call = "attach" -> {attachedAs[Top(w).of].to}
           [] Top(w).call \in {"attached", "bracket", "terminate"} -> {Top(w).of}
           [] OTHER -> {next.of : next \in Erases(w)}

\* One thread erases without the lock what another uses.
Race(w, other) ==
    /\ ~raced /\ w # other
    /\ Erases(w) # {}
    /\ Uses(w) \cap Uses(other) # {}
    /\ raced' = TRUE
    /\ UNCHANGED <<status, terminated, actions, nextId, calls, attachedAs,
                   opened, closed, leaked>>

-----------------------------------------------------------------------------
Progress(w) ==
    \/ Attach(w) \/ Attached(w) \/ Refused(w)
    \/ Bracket(w) \/ BracketRefused(w)
    \/ Take(w) \/ RunClose(w) \/ RunTerminate(w) \/ RunErase(w) \/ Return(w)

LifetimesNext ==
    \E w \in Workers :
        \/ \E l \in Scopes : Open(w, l) \/ Terminate(w, l)
        \/ \E l, p \in Scopes : Make(w, l, p)
        \/ Progress(w)
        \/ \E other \in Workers : Race(w, other)

LifetimesSpec == LifetimesInit /\ [][LifetimesNext]_lifetimeVars

-----------------------------------------------------------------------------
(***************************************************************************)
(* Properties                                                              *)
(***************************************************************************)
\* The type of every variable; each action of a lifetime has a number of its
\* own.
LifetimesTypeOK ==
    /\ status \in [Scopes -> {"new", "attaching", "made", "failed"}]
    /\ terminated \in [Scopes -> BOOLEAN]
    /\ raced \in BOOLEAN
    /\ \A l \in Scopes :
         /\ \A action \in actions[l] :
              /\ action.id < nextId[l]
              /\ \A other \in actions[l] : other.id = action.id => other = action
         /\ {opened[l], leaked[l], nextId[l]} \subseteq Nat
         /\ closed[l] \in Seq(0 .. nextId[l])

\* A call of terminate for l is under way, in w or in any thread.
Terminates(w, l) == \E i \in DOMAIN calls[w] :
                        calls[w][i].of = l /\ calls[w][i].call \in {"terminate", "run"}
Terminating(l) == \E w \in Workers : Terminates(w, l)

Executing(l)   == \E w \in Workers : \E i \in DOMAIN calls[w] :
                        calls[w][i].of = l /\ calls[w][i].call = "run"

\* Threads between the opening and add_action.
Bracketing(l) == Cardinality({w \in Workers : \E i \in DOMAIN calls[w] :
                                calls[w][i] = Frame("bracket", l)})

(***************************************************************************)
(* When the last call of terminate for a lifetime is over, it keeps no     *)
(* action, and every resource that was opened is closed but for those      *)
(* whose closing it has refused or is about to refuse.  Closings run in    *)
(* the reverse order of their registration, each at most once, however     *)
(* many threads call terminate.                                            *)
(***************************************************************************)
OpenedIsClosed ==
    \A l \in Scopes :
        /\ (terminated[l] /\ ~Terminating(l)) =>
              /\ actions[l] = {}
              /\ opened[l] = Len(closed[l]) + leaked[l] + Bracketing(l)
        /\ \A i, j \in DOMAIN closed[l] : i < j => closed[l][i] > closed[l][j]

(***************************************************************************)
(* When a lifetime ends so does every one that was attached to it, and all *)
(* its actions have been run.                                              *)
(***************************************************************************)
NestedEnd ==
    \A l \in Scopes \ {Root} :
        (status[l] = "made" /\ terminated[attachedAs[l].to])
          ~> ((terminated[l] /\ actions[l] = {} /\ ~Executing(l)) \/ raced)
=============================================================================
