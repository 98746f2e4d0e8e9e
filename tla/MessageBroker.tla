---------------------------- MODULE MessageBroker ----------------------------
(***************************************************************************)
(* The broker of the RD protocol (protocol/MessageBroker.{h,cpp}) with its *)
(* schedulers.  The reader thread of the wire dispatches each message to   *)
(* the entity subscribed under its id, on the scheduler of that entity;    *)
(* for an id nobody has subscribed yet the message is kept in the broker   *)
(* and an action queued on the default scheduler.                          *)
(*                                                                         *)
(* dispatch holds the broker's lock from its first line to its last: it is *)
(* one step.  The queued action holds it only to take the front message;   *)
(* what it reads and erases before and after is reached by dispatch at the *)
(* same time.  A data race on one of the two hash maps may end anywhere,   *)
(* and so may the use of an iterator whose element was erased: the step is *)
(* `undefined' and nothing follows.                                        *)
(*                                                                         *)
(* A message is its rank among those of its entity.  Entities are bound    *)
(* and unbound on the default scheduler, between its actions.              *)
(***************************************************************************)
EXTENDS Naturals, Sequences, FiniteSets

CONSTANTS
    Entities,       \* one per id
    Scheduler,      \* Scheduler[e]: "default", "custom", a thread of its own,
                    \* or "synchronous", the thread that queues
    MaxMessages,    \* bound: how many messages arrive
    MaxBinds        \* bound: how often entities are bound

ASSUME MessageBrokerAssumption ==
    /\ Scheduler \in [Entities -> {"default", "custom", "synchronous"}]
    /\ MaxMessages \in Nat /\ MaxBinds \in Nat

VARIABLES
    subscriptions,  \* subscriptions[e]: "absent", "null" or "entity"
    rdid,           \* rdid[e]: does e still have its id?
    broker,         \* broker[e]: the Mq of e and which it is, 0 for none
    queue,          \* the actions of the default scheduler
    running,        \* the action that the default scheduler executes
    customQueue,    \* the invocations of the custom scheduler
    executing,      \* the invocation that the custom scheduler executes
    undefined,      \* the behaviour is undefined from here on
    sent,           \* sent[e]: how many messages for e were dispatched
    arrived,        \* how many messages were dispatched
    binds,          \* how often an entity was bound
    executed,       \* history: executed[e], the messages in order
    since,          \* history: sent[e] when e was bound last
    overtaken       \* history: a message passed those that were kept for e

brokerVars == <<subscriptions, broker>>
queueVars  == <<queue, customQueue>>
vars == <<brokerVars, queueVars, rdid, running, executing, undefined, sent,
          arrived, binds, executed, since, overtaken>>

Idle == [at |-> "idle"]
NoMq == [mq |-> 0, default |-> <<>>, custom |-> <<>>]
Nothing == [entity |-> "none", msg |-> 0]

Deliver(e, mq)  == [action |-> "deliver", entity |-> e, mq |-> mq]
Invocation(e, msg) == [entity |-> e, msg |-> msg]
Invoke(e, msg)  == [action |-> "invoke", entity |-> e, msg |-> msg]

BrokerInit ==
    /\ subscriptions = [e \in Entities |-> "absent"]
    /\ rdid = [e \in Entities |-> FALSE]
    /\ broker = [e \in Entities |-> NoMq]
    /\ queue = <<>> /\ running = Idle
    /\ customQueue = <<>> /\ executing = Nothing
    /\ undefined = FALSE
    /\ sent = [e \in Entities |-> 0] /\ arrived = 0 /\ binds = 0
    /\ executed = [e \in Entities |-> <<>>]
    /\ since = [e \in Entities |-> 0]
    /\ overtaken = [e \in Entities |-> FALSE]

-----------------------------------------------------------------------------
(***************************************************************************)
(* invoke                                                                  *)
(***************************************************************************)
Execute(e, msg) == executed' = [executed EXCEPT ![e] = Append(@, msg)]

\* The test of an invocation: does the broker have an element for the id of
\* the entity?  An unbound entity has the null id.
ExistsId(e) == rdid[e] /\ subscriptions[e] # "absent"

ExecuteIfExists(e, msg) ==
    IF ExistsId(e) THEN Execute(e, msg) ELSE UNCHANGED executed

\* An invocation is queued on the scheduler of the entity.
QueueInvocation(e, msg) ==
    CASE Scheduler[e] = "default" ->
           queue' = Append(queue, Invoke(e, msg)) /\ UNCHANGED <<customQueue, executed>>
      [] Scheduler[e] = "custom" ->
           customQueue' = Append(customQueue, Invocation(e, msg)) /\ UNCHANGED <<queue, executed>>
      [] Scheduler[e] = "synchronous" ->
           ExecuteIfExists(e, msg) /\ UNCHANGED <<queue, customQueue>>

-----------------------------------------------------------------------------
(***************************************************************************)
(* dispatch, on the reader thread of the wire                              *)
(***************************************************************************)
Arrives(e) ==
    /\ ~undefined
    /\ arrived < MaxMessages
    /\ arrived' = arrived + 1
    /\ sent' = [sent EXCEPT ![e] = @ + 1]
    /\ UNCHANGED <<rdid, running, executing, undefined, binds, since>>

\* Nobody has subscribed.  operator[] leaves a null entry behind.
Keep(e) ==
    LET mq == IF broker[e].mq = 0 THEN sent[e] + 1 ELSE broker[e].mq IN
    /\ Arrives(e)
    /\ subscriptions[e] # "entity"
    /\ subscriptions' = [subscriptions EXCEPT ![e] = "null"]
    /\ broker' = [broker EXCEPT ![e].mq = mq,
                                ![e].default = Append(@, sent[e] + 1)]
    /\ queue' = Append(queue, Deliver(e, mq))
    /\ UNCHANGED <<customQueue, executed, overtaken>>

(* Mutant: what is kept for the entity is not looked at. *)
PassesAlways(e) == TRUE

\* A message goes straight to the scheduler of its entity when that is the
\* default one, or when nothing is kept for the entity.
Passes(e) == Scheduler[e] = "default" \/ broker[e].mq = 0

\* The queued action is about to invoke what was kept for e.
Flushing(e) == running.at = "flush" /\ running.entity = e

DispatchNow(e) ==
    /\ Arrives(e)
    /\ subscriptions[e] = "entity" /\ Passes(e)
    /\ QueueInvocation(e, sent[e] + 1)
    /\ overtaken' = [overtaken EXCEPT ![e] = @ \/ Flushing(e)]
    /\ UNCHANGED brokerVars

KeepForCustom(e) ==
    /\ Arrives(e)
    /\ subscriptions[e] = "entity" /\ ~Passes(e)
    /\ broker' = [broker EXCEPT ![e].custom = Append(@, sent[e] + 1)]
    /\ UNCHANGED <<subscriptions, queueVars, executed, overtaken>>

-----------------------------------------------------------------------------
(***************************************************************************)
(* The default scheduler                                                   *)
(***************************************************************************)
\* The next action is this one.
Runs(action) ==
    /\ ~undefined
    /\ running = Idle /\ queue # <<>>
    /\ Head(queue).action = action
    /\ UNCHANGED <<rdid, executing, sent, arrived, binds, since, overtaken>>

RunInvoke ==
    /\ Runs("invoke")
    /\ queue' = Tail(queue)
    /\ ExecuteIfExists(Head(queue).entity, Head(queue).msg)
    /\ UNCHANGED <<brokerVars, customQueue, running, undefined>>

\* The Mq was erased since: `it' dangles.
RunDangling ==
    /\ Runs("deliver")
    /\ Head(queue).mq # broker[Head(queue).entity].mq
    /\ undefined' = TRUE
    /\ UNCHANGED <<brokerVars, queueVars, running, executed>>

\* Takes the front message and invokes it, on this thread if that is the
\* entity's; without a subscription the message is dropped.
RunDeliver ==
    LET e     == Head(queue).entity
        first == broker[e].default
        bound == subscriptions[e] = "entity"
    IN
    /\ Runs("deliver")
    /\ Head(queue).mq = broker[e].mq
    /\ IF first # <<>> THEN broker' = [broker EXCEPT ![e].default = Tail(@)]
                       ELSE UNCHANGED broker
    /\ IF bound /\ first # <<>>
       THEN CASE Scheduler[e] = "custom" ->
                   /\ customQueue' = Append(customQueue, Invocation(e, Head(first)))
                   /\ UNCHANGED executed
              [] Scheduler[e] = "synchronous" ->
                   ExecuteIfExists(e, Head(first)) /\ UNCHANGED customQueue
              [] OTHER -> Execute(e, Head(first)) /\ UNCHANGED customQueue
       ELSE UNCHANGED <<executed, customQueue>>
    /\ subscriptions' = [subscriptions EXCEPT ![e] =
                            IF @ = "absent" THEN "null" ELSE @]
    /\ queue' = Tail(queue)
    /\ running' = [at |-> "check", entity |-> e, bound |-> bound]
    /\ UNCHANGED undefined

\* A step of the action outside the lock.
Unlocked ==
    /\ ~undefined
    /\ UNCHANGED <<rdid, subscriptions, executing, sent, arrived, binds, since, overtaken>>

(* Mutant: the Mq is left for the next message. *)
CheckNothing ==
    /\ running.at = "check"
    /\ Unlocked
    /\ running' = Idle
    /\ UNCHANGED <<broker, queueVars, executed, undefined>>

Check ==
    /\ running.at = "check"
    /\ Unlocked
    /\ running' = IF broker[running.entity].default = <<>>
                  THEN [running EXCEPT !.at = "erase"] ELSE Idle
    /\ UNCHANGED <<broker, queueVars, executed, undefined>>

(* Mutant: what was kept for a custom scheduler goes with the Mq. *)
EraseAll ==
    /\ running.at = "erase"
    /\ Unlocked
    /\ broker' = [broker EXCEPT ![running.entity] = NoMq]
    /\ running' = Idle
    /\ UNCHANGED <<queueVars, executed, undefined>>

\* The Mq is moved out and erased, with all that dispatch has put into it
\* since the check.
Erase ==
    /\ running.at = "erase"
    /\ Unlocked
    /\ LET kept == broker[running.entity].custom IN
         running' = IF kept = <<>> THEN Idle
                    ELSE [at |-> "flush", entity |-> running.entity,
                          bound |-> running.bound, kept |-> kept]
    /\ broker' = [broker EXCEPT ![running.entity] = NoMq]
    /\ UNCHANGED <<queueVars, executed, undefined>>

\* One turn of the loop over custom_scheduler_messages.
Flush ==
    /\ running.at = "flush" /\ running.bound
    /\ Unlocked
    /\ QueueInvocation(running.entity, Head(running.kept))
    /\ running' = IF Len(running.kept) = 1 THEN Idle
                  ELSE [running EXCEPT !.kept = Tail(@)]
    /\ UNCHANGED <<broker, undefined>>

\* The assertion of the loop uses a subscription that is null.
FlushNull ==
    /\ running.at = "flush" /\ ~running.bound
    /\ Unlocked
    /\ undefined' = TRUE
    /\ UNCHANGED <<broker, queueVars, running, executed>>

\* The default scheduler uses a hash map or the queue of an Mq without the
\* lock, while dispatch changes it.
Collide ==
    /\ \/ running.at \in {"check", "erase"}
       \/ running = Idle /\ queue # <<>> /\ Head(queue).action = "deliver"
       \/ running = Idle /\ \E e \in Entities : rdid[e]
    /\ arrived < MaxMessages
    /\ Unlocked
    /\ undefined' = TRUE
    /\ UNCHANGED <<broker, queueVars, running, executed>>

-----------------------------------------------------------------------------
(***************************************************************************)
(* The custom scheduler tests for the subscription under the lock and then *)
(* executes outside of it.                                                 *)
(***************************************************************************)
CustomTest ==
    /\ ~undefined
    /\ executing = Nothing /\ customQueue # <<>>
    /\ customQueue' = Tail(customQueue)
    /\ executing' = IF ExistsId(Head(customQueue).entity)
                    THEN Head(customQueue) ELSE Nothing
    /\ UNCHANGED <<brokerVars, queue, rdid, running, undefined, sent, arrived, binds,
                   executed, since, overtaken>>

CustomExecute ==
    /\ ~undefined
    /\ executing # Nothing
    /\ Execute(executing.entity, executing.msg)
    /\ executing' = Nothing
    /\ UNCHANGED <<brokerVars, queueVars, rdid, running, undefined, sent,
                   arrived, binds, since, overtaken>>

-----------------------------------------------------------------------------
(***************************************************************************)
(* advise_on, and the end of the lifetime of the binding                   *)
(***************************************************************************)
Bind(e) ==
    /\ ~undefined /\ running = Idle
    /\ ~rdid[e] /\ binds < MaxBinds
    /\ binds' = binds + 1
    /\ rdid' = [rdid EXCEPT ![e] = TRUE]
    /\ subscriptions' = [subscriptions EXCEPT ![e] = "entity"]
    /\ since' = [since EXCEPT ![e] = sent[e]]
    /\ UNCHANGED <<broker, queueVars, running, executing, undefined, sent,
                   arrived, executed, overtaken>>

\* The actions of the lifetime run in reverse: the subscription goes first,
\* without the lock, then bind's closing takes the id.
Unsubscribe(e) ==
    /\ ~undefined /\ running = Idle
    /\ rdid[e] /\ subscriptions[e] = "entity"
    /\ subscriptions' = [subscriptions EXCEPT ![e] = "absent"]
    /\ running' = [at |-> "unbind", entity |-> e]
    /\ overtaken' = [overtaken EXCEPT ![e] = @ \/ broker[e].custom # <<>>]
    /\ UNCHANGED <<broker, queueVars, rdid, executing, undefined, sent,
                   arrived, binds, executed, since>>

Unbind ==
    /\ running.at = "unbind"
    /\ ~undefined
    /\ rdid' = [rdid EXCEPT ![running.entity] = FALSE]
    /\ running' = Idle
    /\ UNCHANGED <<brokerVars, queueVars, executing, undefined, sent, arrived, binds,
                   executed, since, overtaken>>

-----------------------------------------------------------------------------
DefaultStep == RunInvoke \/ RunDangling \/ RunDeliver \/ Check \/ Erase
                 \/ Flush \/ FlushNull \/ Unbind
CustomStep  == CustomTest \/ CustomExecute

BrokerNext ==
    \/ \E e \in Entities : Keep(e) \/ DispatchNow(e) \/ KeepForCustom(e)
    \/ DefaultStep \/ Collide \/ CustomStep
    \/ \E e \in Entities : Bind(e) \/ Unsubscribe(e)

-----------------------------------------------------------------------------
(***************************************************************************)
(* Properties                                                              *)
(***************************************************************************)
Messages    == Nat \ {0}
Mqs         == [mq : Nat, default : Seq(Messages), custom : Seq(Messages)]
Deliveries  == [action : {"deliver"}, entity : Entities, mq : Nat]
Invokes     == [action : {"invoke"}, entity : Entities, msg : Messages]
Invocations == [entity : Entities, msg : Messages]

\* What the default scheduler may be doing.
Actions ==
    {Idle}
      \union [at : {"check", "erase"}, entity : Entities, bound : BOOLEAN]
      \union [at : {"flush"}, entity : Entities, bound : BOOLEAN,
              kept : Seq(Messages) \ {<<>>}]
      \union [at : {"unbind"}, entity : Entities]

\* The type of every variable; only an Mq that exists holds messages.
BrokerTypeOK ==
    /\ subscriptions \in [Entities -> {"absent", "null", "entity"}]
    /\ rdid \in [Entities -> BOOLEAN]
    /\ broker \in [Entities -> Mqs]
    /\ \A e \in Entities : broker[e].mq = 0 => broker[e] = NoMq
    /\ queue \in Seq(Deliveries \union Invokes)
    /\ customQueue \in Seq(Invocations)
    /\ running \in Actions
    /\ executing \in {Nothing} \union Invocations
    /\ undefined \in BOOLEAN
    /\ sent \in [Entities -> Nat] /\ since \in [Entities -> Nat]
    /\ arrived \in 0 .. MaxMessages /\ binds \in 0 .. MaxBinds
    /\ executed \in [Entities -> Seq(Messages)]
    /\ overtaken \in [Entities -> BOOLEAN]

Increasing(s) == \A i, j \in DOMAIN s : i < j => s[i] < s[j]

(***************************************************************************)
(* The messages of an entity are executed in the order they arrived, each  *)
(* at most once: always on the default scheduler, elsewhere as long as     *)
(* none arrived while the queued action was invoking those kept before it  *)
(* and the entity was not unbound with messages kept.                      *)
(***************************************************************************)
ExecutedInOrder ==
    \A e \in Entities : ~overtaken[e] => Increasing(executed[e])

Elements(s) == {s[i] : i \in DOMAIN s}

\* The messages for e that are still to be invoked.
Waiting(e) ==
    Elements(broker[e].custom)
      \union {queue[i].msg : i \in {j \in DOMAIN queue :
                  queue[j].action = "invoke" /\ queue[j].entity = e}}
      \union {customQueue[i].msg : i \in {j \in DOMAIN customQueue :
                  customQueue[j].entity = e}}
      \union (IF executing.entity = e THEN {executing.msg} ELSE {})
      \union (IF Flushing(e) THEN Elements(running.kept) ELSE {})

(***************************************************************************)
(* No message that arrives after the subscription is lost: between the     *)
(* broker, the schedulers and the action that empties the Mq it is         *)
(* somewhere, or executed.                                                 *)
(***************************************************************************)
NothingLost ==
    \A e \in Entities : subscriptions[e] = "entity" =>
        (since[e] + 1) .. sent[e] \subseteq Elements(executed[e]) \union Waiting(e)

(***************************************************************************)
(* What waits for a subscribed entity is executed in the end, unless the   *)
(* entity is unbound or the behaviour undefined.                           *)
(***************************************************************************)
EventuallyExecuted ==
    \A e \in Entities :
        (subscriptions[e] = "entity" /\ Waiting(e) # {})
          ~> (Waiting(e) = {} \/ subscriptions[e] # "entity" \/ undefined)
=============================================================================
