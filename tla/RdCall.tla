------------------------------- MODULE RdCall -------------------------------
(***************************************************************************)
(* Synchronous calls (task/RdCall.h, WiredRdTaskImpl.h) and the endpoint   *)
(* that answers them (task/RdEndpoint.h), over the wire of an extension.   *)
(* Three threads of the program meet at the result of a call: the caller   *)
(* spins until it is there, the reader thread sets it to the answer, and   *)
(* the thread that ends the lifetime of the binding sets it to Cancelled.  *)
(* set_if_empty tests and sets without a lock, so that either of the two   *)
(* can replace what the other has set since the test.                      *)
(*                                                                         *)
(* The caller destroys the task of a call that failed, and of one that     *)
(* returned when it has read the result.  The subscription of the task     *)
(* lasts as long as the binding, and an action that the end of the         *)
(* lifetime has taken already is not taken back: either may still get hold *)
(* of a task that is gone.  The behaviour is undefined from there on.      *)
(***************************************************************************)
EXTENDS ExtWire

CONSTANT MaxCalls       \* bound: how many calls are made

ASSUME RdCallAssumption == MaxCalls \in Nat

\* The identities of the tasks, in the order in which next hands them out.
CallIds == 1 .. MaxCalls

VARIABLES
    task,           \* task[c]: "new", "waiting", "returned", or destroyed:
                    \* "gone" after it returned, "thrown" after it did not
    result,         \* result[c]: "none", "success", "fault" or "cancelled"
    sync_task_id,   \* the call that is said to be outstanding, or 0
    caller,         \* the call that the caller is busy with, or 0
    subscribed,     \* the tasks that the broker knows
    ending,         \* of the lifetime of the binding: "no", "flagged" once
                    \* terminated is set, "closing" while its actions run
    taken,          \* the calls that terminate has yet to cancel
    answering,      \* the answer that the reader thread has in hand
    setting,        \* setting[t]: the call whose result thread t has found
                    \* empty and is about to set, or 0
    requests,       \* requests the scheduler of the endpoint has to handle
    given,          \* history: given[c], the results the handler gave to c
    fate            \* "running", "dangling" after a task that is gone was
                    \* used, "torn" after the reader thread has thrown

callerVars == <<task, sync_task_id, caller>>
enderVars == <<ending, taken>>
endpointVars == <<requests, given>>
callVars == <<callerVars, enderVars, endpointVars, result, subscribed, answering,
              setting, fate>>
rdVars == <<extVars, callVars>>

Threads == {"reader", "ender"}

CallInit ==
    /\ ExtInit
    /\ task = [c \in CallIds |-> "new"]
    /\ result = [c \in CallIds |-> "none"]
    /\ sync_task_id = 0 /\ caller = 0
    /\ subscribed = {} /\ ending = "no" /\ taken = {}
    /\ answering = Nobody /\ setting = [t \in Threads |-> 0]
    /\ requests = <<>>
    /\ given = [c \in CallIds |-> <<>>]
    /\ fate = "running"

Request(c) == [call |-> c, result |-> "none"]
Answer(c, outcome) == [call |-> c, result |-> outcome]

Caller == "editor"
Endpoint == "rider"

Running == fate = "running"
Freed(c) == task[c] \in {"gone", "thrown"}

\* dispatch holds the lock of the broker until the answer is set.
BrokerFree == answering = Nobody

-----------------------------------------------------------------------------
(***************************************************************************)
(* sync                                                                    *)
(***************************************************************************)
IsNext(c) == task[c] = "new" /\ \A d \in 1 .. c - 1 : task[d] # "new"

\* The caller makes a task, which subscribes.
Construct(c) ==
    /\ Running
    /\ caller = 0 /\ IsNext(c) /\ ending = "no" /\ BrokerFree
    /\ task' = [task EXCEPT ![c] = "waiting"]
    /\ caller' = c
    /\ subscribed' = subscribed \union {c}
    /\ UNCHANGED <<enderVars, endpointVars, result, answering, setting, fate>>

StartSync(c) ==
    /\ Construct(c)
    /\ sync_task_id = 0
    /\ Send(Caller, Request(c))
    /\ sync_task_id' = c

\* "Already exists sync task": nothing is sent, and sync throws.
Refuse(c) ==
    /\ Construct(c)
    /\ phase[Caller] = "bound"
    /\ sync_task_id # 0
    /\ UNCHANGED <<extVars, sync_task_id>>

\* "Already Terminated", from the constructor of the task.
StartTooLate(c) ==
    /\ Running
    /\ caller = 0 /\ IsNext(c) /\ ending # "no" /\ BrokerFree
    /\ task' = [task EXCEPT ![c] = "thrown"]
    /\ UNCHANGED <<extVars, enderVars, endpointVars, sync_task_id, caller, result,
                   subscribed, answering, setting, fate>>

\* The request is sent, the caller spins.
Spins(c) == Running /\ caller = c /\ task[c] = "waiting" /\ direct[Caller] = <<>>

(* Mutant: the slot is not freed. *)
SyncReturnsHolding(c) ==
    /\ Spins(c) /\ result[c] = "success"
    /\ task' = [task EXCEPT ![c] = "returned"]
    /\ UNCHANGED <<extVars, enderVars, endpointVars, sync_task_id, caller, result,
                   subscribed, answering, setting, fate>>

SyncReturns(c) ==
    /\ Spins(c) /\ result[c] = "success"
    /\ task' = [task EXCEPT ![c] = "returned"]
    /\ sync_task_id' = 0
    /\ UNCHANGED <<extVars, enderVars, endpointVars, caller, result, subscribed,
                   answering, setting, fate>>

\* The caller has read the result.
Release(c) ==
    /\ Running /\ caller = c /\ task[c] = "returned"
    /\ task' = [task EXCEPT ![c] = "gone"]
    /\ caller' = 0
    /\ UNCHANGED <<extVars, enderVars, endpointVars, sync_task_id, result, subscribed,
                   answering, setting, fate>>

\* A timeout, the end of the lifetime, a fault or a cancellation: unwrap, or
\* the test before it, throws past the line that frees the slot.
SyncThrows(c) ==
    /\ Spins(c) /\ result[c] # "success"
    /\ task' = [task EXCEPT ![c] = "thrown"]
    /\ caller' = 0
    /\ UNCHANGED <<extVars, enderVars, endpointVars, sync_task_id, result, subscribed,
                   answering, setting, fate>>

-----------------------------------------------------------------------------
(***************************************************************************)
(* The endpoint                                                            *)
(***************************************************************************)
\* The endpoint is on the default scheduler.
ReceiveRequest ==
    /\ Running
    /\ ReceivePayload(Endpoint)
    /\ requests' = Append(requests, Arriving(Endpoint).body.call)
    /\ UNCHANGED <<callerVars, enderVars, result, subscribed, answering, setting,
                   given, fate>>

\* The handler gives a result or throws; either is the answer.
Handle ==
    /\ Running /\ requests # <<>>
    /\ \E outcome \in {"success", "fault"} :
         /\ Send(Endpoint, Answer(Head(requests), outcome))
         /\ given' = [given EXCEPT ![Head(requests)] = Append(@, outcome)]
    /\ requests' = Tail(requests)
    /\ UNCHANGED <<callerVars, enderVars, result, subscribed, answering, setting, fate>>

\* The endpoint was unbound since: invoke finds no subscription.
SkipRequest ==
    /\ Running /\ requests # <<>>
    /\ phase[Endpoint] = "unbound"
    /\ requests' = Tail(requests)
    /\ UNCHANGED <<extVars, callerVars, enderVars, result, subscribed, answering,
                   setting, given, fate>>

-----------------------------------------------------------------------------
(***************************************************************************)
(* The reader thread: on_wire_received of the task, under the lock of the  *)
(* broker.                                                                 *)
(***************************************************************************)
\* dispatch finds call c, or nobody, for the answer.  A task that has a result
\* already drops it, with a line of the log that unwraps it: of a fault, that
\* throws, and the reader thread leaves its loop.
Finds(c, outcome) ==
    /\ answering' = IF c \in subscribed /\ ~Freed(c) /\ result[c] = "none"
                    THEN Answer(c, outcome) ELSE Nobody
    /\ fate' = CASE c \notin subscribed -> "running"
                 [] c \in subscribed /\ Freed(c) -> "dangling"
                 [] c \in subscribed /\ ~Freed(c) ->
                       IF result[c] # "none" /\ outcome = "fault" THEN "torn" ELSE "running"

(* Mutant: the answer is taken for that of the outstanding call. *)
ReceiveAnswerOfSlot ==
    /\ Running /\ answering = Nobody
    /\ ReceivePayload(Caller)
    /\ Finds(sync_task_id, Arriving(Caller).body.result)
    /\ UNCHANGED <<callerVars, enderVars, endpointVars, result, subscribed, setting>>

ReceiveAnswer ==
    /\ Running /\ answering = Nobody
    /\ ReceivePayload(Caller)
    /\ Finds(Arriving(Caller).body.call, Arriving(Caller).body.result)
    /\ UNCHANGED <<callerVars, enderVars, endpointVars, result, subscribed, setting>>

(* Mutant: set in the place of set_if_empty. *)
TestAnswerNot ==
    /\ Running /\ answering # Nobody /\ setting["reader"] = 0
    /\ IF Freed(answering.call)
       THEN fate' = "dangling" /\ UNCHANGED <<answering, result>>
       ELSE /\ result' = [result EXCEPT ![answering.call] = answering.result]
            /\ answering' = Nobody
            /\ UNCHANGED fate
    /\ UNCHANGED <<extVars, callerVars, enderVars, endpointVars, subscribed, setting>>

\* The test of set_if_empty, which drops the answer without a word.
TestAnswer ==
    /\ Running /\ answering # Nobody /\ setting["reader"] = 0
    /\ IF Freed(answering.call)
       THEN fate' = "dangling" /\ UNCHANGED <<answering, setting>>
       ELSE /\ UNCHANGED fate
            /\ IF result[answering.call] = "none"
               THEN /\ setting' = [setting EXCEPT !["reader"] = answering.call]
                    /\ UNCHANGED answering
               ELSE answering' = Nobody /\ UNCHANGED setting
    /\ UNCHANGED <<extVars, callerVars, enderVars, endpointVars, result, subscribed>>

\* set assigns, whatever is there by now.
SetAnswer ==
    /\ Running /\ setting["reader"] # 0
    /\ IF Freed(answering.call)
       THEN fate' = "dangling" /\ UNCHANGED <<answering, result, setting>>
       ELSE /\ result' = [result EXCEPT ![answering.call] = answering.result]
            /\ answering' = Nobody
            /\ setting' = [setting EXCEPT !["reader"] = 0]
            /\ UNCHANGED fate
    /\ UNCHANGED <<extVars, callerVars, enderVars, endpointVars, subscribed>>

-----------------------------------------------------------------------------
(***************************************************************************)
(* The end of the binding, on the thread that terminates its lifetime: the *)
(* flag, the actions, which no one can remove any more, and each of them,  *)
(* the last first, before the extension says Disconnected.                 *)
(***************************************************************************)
Terminate ==
    /\ Running
    /\ phase[Caller] = "bound" /\ ending = "no"
    /\ ending' = "flagged"
    /\ UNCHANGED <<extVars, callerVars, endpointVars, taken, result, subscribed,
                   answering, setting, fate>>

\* A task that was destroyed before has removed its action.
TakeActions ==
    /\ Running /\ ending = "flagged"
    /\ ending' = "closing"
    /\ taken' = {c \in subscribed : ~Freed(c)}
    /\ UNCHANGED <<extVars, callerVars, endpointVars, result, subscribed, answering,
                   setting, fate>>

\* The actions of c are next: to cancel it, and then to unsubscribe it.
LastAction(c) ==
    Running /\ ending = "closing" /\ c \in subscribed /\ \A d \in subscribed : d <= c

TestCancelled(c) ==
    /\ LastAction(c) /\ c \in taken /\ setting["ender"] = 0
    /\ IF Freed(c)
       THEN fate' = "dangling" /\ UNCHANGED <<taken, setting>>
       ELSE /\ UNCHANGED fate
            /\ IF result[c] = "none"
               THEN setting' = [setting EXCEPT !["ender"] = c] /\ UNCHANGED taken
               ELSE taken' = taken \ {c} /\ UNCHANGED setting
    /\ UNCHANGED <<extVars, callerVars, endpointVars, ending, result, subscribed,
                   answering>>

SetCancelled(c) ==
    /\ LastAction(c) /\ setting["ender"] = c
    /\ IF Freed(c)
       THEN fate' = "dangling" /\ UNCHANGED <<taken, result, setting>>
       ELSE /\ result' = [result EXCEPT ![c] = "cancelled"]
            /\ taken' = taken \ {c}
            /\ setting' = [setting EXCEPT !["ender"] = 0]
            /\ UNCHANGED fate
    /\ UNCHANGED <<extVars, callerVars, endpointVars, ending, subscribed, answering>>

Forget(c) ==
    /\ LastAction(c) /\ c \notin taken
    /\ subscribed' = subscribed \ {c}
    /\ UNCHANGED <<extVars, callerVars, enderVars, endpointVars, result, answering,
                   setting, fate>>

EndOfBinding(e) ==
    /\ Running
    /\ Leave(e)
    /\ e = Caller => ending = "closing" /\ subscribed = {}
    /\ UNCHANGED callVars

\* A new object has a lifetime and a slot of its own.
NewBinding(e) ==
    /\ Running
    /\ Advise(e)
    /\ e = Caller => caller = 0 /\ BrokerFree
    /\ sync_task_id' = IF e = Caller THEN 0 ELSE sync_task_id
    /\ ending' = IF e = Caller THEN "no" ELSE ending
    /\ UNCHANGED <<task, caller, taken, endpointVars, result, subscribed, answering,
                   setting, fate>>

-----------------------------------------------------------------------------
\* The reader thread takes no other message while it has an answer in hand.
HandshakeStep(e) ==
    /\ Running
    /\ Handshake(e)
    /\ e = Caller /\ answering # Nobody => wire'[Endpoint] = wire[Endpoint]
    /\ UNCHANGED callVars

CallNext ==
    \/ \E e \in Ends : HandshakeStep(e) \/ NewBinding(e) \/ EndOfBinding(e)
    \/ \E c \in CallIds :
         \/ StartSync(c) \/ Refuse(c) \/ StartTooLate(c)
         \/ SyncReturns(c) \/ Release(c) \/ SyncThrows(c)
         \/ TestCancelled(c) \/ SetCancelled(c) \/ Forget(c)
    \/ ReceiveRequest \/ Handle \/ SkipRequest
    \/ ReceiveAnswer \/ TestAnswer \/ SetAnswer
    \/ Terminate \/ TakeActions

CallSpec == CallInit /\ [][CallNext]_rdVars

-----------------------------------------------------------------------------
(***************************************************************************)
(* Properties                                                              *)
(***************************************************************************)
Outcomes == {"success", "fault"}

\* What each end sends: the caller requests, the endpoint answers.
Bodies == [e \in Ends |-> [call : CallIds,
                          result : IF e = Caller THEN {"none"} ELSE Outcomes]]

\* The type of every variable.
CallTypeOK ==
    /\ ExtTypeOK(Bodies)
    /\ task \in [CallIds -> {"new", "waiting", "returned", "gone", "thrown"}]
    /\ result \in [CallIds -> {"none", "cancelled"} \union Outcomes]
    /\ sync_task_id \in CallIds \union {0}
    /\ caller \in CallIds \union {0}
    /\ subscribed \subseteq CallIds
    /\ ending \in {"no", "flagged", "closing"} /\ taken \subseteq CallIds
    /\ answering \in [call : CallIds, result : Outcomes] \union {Nobody}
    /\ setting \in [Threads -> CallIds \union {0}]
    /\ requests \in Seq(CallIds)
    /\ given \in [CallIds -> Seq(Outcomes)]
    /\ fate \in {"running", "dangling", "torn"}

(***************************************************************************)
(* A result that is set stays: neither a late answer nor the end of the    *)
(* lifetime replaces it.  The exception is a thread that has found the     *)
(* result empty before the other one set it: it sets it all the same, and  *)
(* the caller may read a cancellation for an answer that came, or the      *)
(* other way round.                                                        *)
(***************************************************************************)
Racing(c) == \E t \in Threads : setting[t] = c

CallsSettleOnce ==
    [][\A c \in CallIds :
          result[c] # "none" /\ ~Racing(c) => result'[c] = result[c]]_rdVars

(***************************************************************************)
(* A request is handled at most once, also when it waited while the call   *)
(* timed out or an end was bound anew; and a call that was answered has    *)
(* the result that the handler gave to it, not to another call.            *)
(***************************************************************************)
AnswersAreTheirs ==
    \A c \in CallIds :
        /\ Len(given[c]) <= 1
        /\ result[c] \in Outcomes => given[c] = <<result[c]>>

(***************************************************************************)
(* A synchronous call is refused only while another one waits or after one *)
(* of this binding has failed: one that returns frees the slot.            *)
(***************************************************************************)
SlotHeldByFailure ==
    sync_task_id # 0 =>
        \/ caller = sync_task_id /\ task[sync_task_id] = "waiting"
        \/ task[sync_task_id] = "thrown" /\ result[sync_task_id] # "success"
=============================================================================
