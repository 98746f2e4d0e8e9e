-------------------------- MODULE RdFrameworkProofs --------------------------
(***************************************************************************)
(* Theorems about the message broker and its schedulers, for every number  *)
(* of entities, messages and bindings.                                     *)
(***************************************************************************)
EXTENDS RdFramework, SequenceTheorems, TLAPS

-----------------------------------------------------------------------------
(***************************************************************************)
(* The types                                                               *)
(***************************************************************************)

\* What Append and Tail do to the elements of a sequence.
LEMMA Appended ==
    ASSUME NEW S, NEW s \in Seq(S), NEW x \in S
    PROVE  /\ Append(s, x) \in Seq(S)
           /\ DOMAIN Append(s, x) = DOMAIN s \union {Len(s) + 1}
           /\ \A i \in DOMAIN s : Append(s, x)[i] = s[i] /\ i < Len(s) + 1 /\ i \in Nat
           /\ Append(s, x)[Len(s) + 1] = x
           /\ Len(s) + 1 \notin DOMAIN s /\ Len(s) + 1 \in Nat
OBVIOUS

LEMMA Taken ==
    ASSUME NEW S, NEW s \in Seq(S), s # <<>>
    PROVE  /\ Head(s) \in S /\ Tail(s) \in Seq(S)
           /\ 1 \in DOMAIN s /\ Head(s) = s[1]
           /\ \A i \in DOMAIN Tail(s) :
                i \in Nat \ {0} /\ i + 1 \in DOMAIN s /\ Tail(s)[i] = s[i + 1]
           /\ \A i \in DOMAIN s : i # 1 =>
                i \in Nat /\ i > 1 /\ i - 1 \in DOMAIN Tail(s) /\ Tail(s)[i - 1] = s[i]
OBVIOUS

LEMMA Shortened ==
    \A S : \A s \in Seq(S) : s # <<>> /\ Len(s) # 1 => Tail(s) \in Seq(S) \ {<<>>}
<1>. SUFFICES ASSUME NEW S, NEW s \in Seq(S), s # <<>>, Len(s) # 1
              PROVE  Tail(s) \in Seq(S) \ {<<>>}
  OBVIOUS
<1>1. Len(Tail(s)) = Len(s) - 1 /\ Tail(s) \in Seq(S) /\ Len(s) \in Nat
  OBVIOUS
<1>2. Len(Tail(s)) # 0
  BY <1>1
<1>3. QED
  BY <1>1, <1>2

\* A subscribed entity has its id: unbinding takes the subscription first.
BoundInv ==
    /\ \A e \in Entities : subscriptions[e] = "entity" => rdid[e]
    /\ running.at = "unbind" => subscriptions[running.entity] # "entity"

LEMMA BrokerInitTypes == BrokerInit => BrokerTypeOK /\ BoundInv
<1>. SUFFICES ASSUME BrokerInit PROVE BrokerTypeOK /\ BoundInv
  OBVIOUS
<1>1. NoMq \in Mqs /\ NoMq.mq = 0 /\ Idle \in Actions /\ Idle.at = "idle"
  BY DEF NoMq, Mqs, Idle, Actions
<1>2. /\ 0 \in 0 .. MaxMessages /\ 0 \in 0 .. MaxBinds
      /\ <<>> \in Seq(Deliveries \union Invokes) /\ <<>> \in Seq(Invocations)
      /\ <<>> \in Seq(Messages)
  BY MessageBrokerAssumption
<1>3. broker \in [Entities -> Mqs] /\ \A e \in Entities : broker[e] = NoMq
  BY <1>1 DEF BrokerInit
<1>4. executed \in [Entities -> Seq(Messages)]
  BY <1>2 DEF BrokerInit
<1>5. BrokerTypeOK
  BY <1>1, <1>2, <1>3, <1>4 DEF BrokerInit, BrokerTypeOK
<1>6. BoundInv
  BY <1>1 DEF BrokerInit, BoundInv
<1>7. QED
  BY <1>5, <1>6

\* What the default scheduler may be doing, by the point it has reached.
LEMMA ActionFields ==
    ASSUME NEW r \in Actions
    PROVE  /\ r.at \in {"idle", "check", "erase", "flush", "unbind"}
           /\ r.at = "idle" => r = Idle
           /\ r.at \in {"check", "erase", "flush", "unbind"} => r.entity \in Entities
           /\ r.at \in {"check", "erase", "flush"} => r.bound \in BOOLEAN
           /\ r.at = "flush" => r.kept \in Seq(Messages) /\ r.kept # <<>>
           /\ r.at = "check" => /\ [r EXCEPT !.at = "erase"] \in Actions
                                /\ [r EXCEPT !.at = "erase"].at = "erase"
           /\ r.at = "flush" /\ Len(r.kept) # 1 =>
                LET next == [r EXCEPT !.kept = Tail(@)] IN
                next \in Actions /\ next.at = "flush" /\ next.entity = r.entity
                  /\ next.kept = Tail(r.kept) /\ next.bound = r.bound
<1>1. CASE r = Idle
  BY <1>1 DEF Idle
<1>2. CASE r \in [at : {"check", "erase"}, entity : Entities, bound : BOOLEAN]
  BY <1>2 DEF Actions
<1>3. CASE r \in [at : {"flush"}, entity : Entities, bound : BOOLEAN,
                  kept : Seq(Messages) \ {<<>>}]
  <2>1. /\ r.at = "flush" /\ r.entity \in Entities /\ r.bound \in BOOLEAN
        /\ r.kept \in Seq(Messages) /\ r.kept # <<>>
    BY <1>3
  <2>2. ASSUME Len(r.kept) # 1
        PROVE  Tail(r.kept) \in Seq(Messages) \ {<<>>}
    BY ONLY <2>1, <2>2, Shortened
  <2>3. ASSUME NEW k \in Seq(Messages) \ {<<>>}
        PROVE  LET next == [r EXCEPT !.kept = k] IN
               /\ next \in [at : {"flush"}, entity : Entities, bound : BOOLEAN,
                            kept : Seq(Messages) \ {<<>>}]
               /\ next.at = "flush" /\ next.entity = r.entity
               /\ next.kept = k /\ next.bound = r.bound
    <3>. DEFINE next == [r EXCEPT !.kept = k]
    <3>1. next = [at |-> "flush", entity |-> r.entity, bound |-> r.bound, kept |-> k]
      BY <1>3
    <3>2. r.entity \in Entities /\ r.bound \in BOOLEAN
      BY <1>3
    <3>. HIDE DEF next
    <3>3. /\ next \in [at : {"flush"}, entity : Entities, bound : BOOLEAN,
                        kept : Seq(Messages) \ {<<>>}]
          /\ next.at = "flush" /\ next.entity = r.entity
          /\ next.kept = k /\ next.bound = r.bound
      BY ONLY <3>1, <3>2, k \in Seq(Messages) \ {<<>>}
    <3>4. QED
      BY <3>3 DEF next
  <2>4. QED
    BY <2>1, <2>2, <2>3 DEF Actions
<1>4. CASE r \in [at : {"unbind"}, entity : Entities]
  <2>1. r.at = "unbind" /\ r.entity \in Entities
    BY <1>4
  <2>2. QED
    BY ONLY <2>1
<1>5. QED
  BY <1>1, <1>2, <1>3, <1>4 DEF Actions

\* The fields of what is queued.
LEMMA QueuedFields ==
    /\ \A q \in Deliveries \union Invokes :
         /\ q.entity \in Entities /\ q.action \in {"deliver", "invoke"}
         /\ q.action = "deliver" => q = Deliver(q.entity, q.mq) /\ q.mq \in Nat
         /\ q.action = "invoke" => q = Invoke(q.entity, q.msg) /\ q.msg \in Messages
    /\ \A e \in Entities, m \in Messages :
         /\ Invoke(e, m) \in Deliveries \union Invokes
         /\ Invocation(e, m) \in Invocations
         /\ Invoke(e, m).action = "invoke" /\ Invoke(e, m).entity = e
         /\ Invoke(e, m).msg = m
         /\ Invocation(e, m).entity = e /\ Invocation(e, m).msg = m
    /\ \A e \in Entities, n \in Nat :
         /\ Deliver(e, n) \in Deliveries \union Invokes
         /\ Deliver(e, n).action = "deliver" /\ Deliver(e, n).entity = e
         /\ Deliver(e, n).mq = n
    /\ \A q \in Invocations :
         /\ q.entity \in Entities /\ q.msg \in Messages
         /\ q = Invocation(q.entity, q.msg) /\ q # Nothing
<1>1. ASSUME NEW q \in Deliveries \union Invokes
      PROVE  /\ q.entity \in Entities /\ q.action \in {"deliver", "invoke"}
             /\ q.action = "deliver" => q = Deliver(q.entity, q.mq) /\ q.mq \in Nat
             /\ q.action = "invoke" => q = Invoke(q.entity, q.msg) /\ q.msg \in Messages
  <2>1. CASE q \in Deliveries
    BY <2>1 DEF Deliveries, Deliver
  <2>2. CASE q \in Invokes
    BY <2>2 DEF Invokes, Invoke
  <2>3. QED
    BY <2>1, <2>2
<1>2. QED
  BY <1>1 DEF Deliveries, Invokes, Invocations, Invoke, Invocation, Deliver, Nothing,
             Messages

LEMMA AppendTypes == \A S : \A s \in Seq(S), x \in S : Append(s, x) \in Seq(S)
OBVIOUS

LEMMA TailTypes ==
    \A S : \A s \in Seq(S) : s # <<>> => Head(s) \in S /\ Tail(s) \in Seq(S)
OBVIOUS

\* A message executed extends the history of its entity.
LEMMA ExecuteTypes ==
    ASSUME BrokerTypeOK, NEW e \in Entities, NEW m \in Messages,
           Execute(e, m) \/ ExecuteIfExists(e, m) \/ executed' = executed
    PROVE  executed' \in [Entities -> Seq(Messages)]
<1>1. executed \in [Entities -> Seq(Messages)]
  BY DEF BrokerTypeOK
<1>2. Append(executed[e], m) \in Seq(Messages)
  BY ONLY <1>1, e \in Entities, m \in Messages, AppendTypes
<1>3. \/ executed' = executed
      \/ executed' = [executed EXCEPT ![e] = Append(executed[e], m)]
  BY DEF Execute, ExecuteIfExists
<1>4. QED
  BY ONLY <1>1, <1>2, <1>3

LEMMA QueueTypes ==
    ASSUME BrokerTypeOK, NEW e \in Entities, NEW m \in Messages, QueueInvocation(e, m)
    PROVE  /\ queue' \in Seq(Deliveries \union Invokes)
           /\ customQueue' \in Seq(Invocations)
           /\ executed' \in [Entities -> Seq(Messages)]
<1>1. Scheduler[e] \in {"default", "custom", "synchronous"}
  BY MessageBrokerAssumption
<1>2. /\ Append(queue, Invoke(e, m)) \in Seq(Deliveries \union Invokes)
      /\ Append(customQueue, Invocation(e, m)) \in Seq(Invocations)
      /\ queue \in Seq(Deliveries \union Invokes) /\ customQueue \in Seq(Invocations)
  BY AppendTypes, QueuedFields DEF BrokerTypeOK
<1>3. CASE Scheduler[e] = "default"
  BY <1>2, <1>3, ExecuteTypes DEF QueueInvocation
<1>4. CASE Scheduler[e] = "custom"
  BY <1>2, <1>4, ExecuteTypes DEF QueueInvocation
<1>5. CASE Scheduler[e] = "synchronous"
  BY <1>2, <1>5, ExecuteTypes DEF QueueInvocation
<1>6. QED
  BY <1>1, <1>3, <1>4, <1>5

LEMMA MqTypes ==
    ASSUME NEW mq \in Mqs, NEW m \in Messages, NEW n \in Nat
    PROVE  /\ [mq |-> n, default |-> Append(mq.default, m), custom |-> mq.custom] \in Mqs
           /\ [mq EXCEPT !.custom = Append(@, m)] \in Mqs
           /\ [mq EXCEPT !.custom = Append(@, m)].mq = mq.mq
           /\ mq.default # <<>> =>
                /\ [mq EXCEPT !.default = Tail(@)] \in Mqs
                /\ [mq EXCEPT !.default = Tail(@)].mq = mq.mq
                /\ Head(mq.default) \in Messages
           /\ mq.default \in Seq(Messages) /\ mq.custom \in Seq(Messages)
           /\ mq.mq \in Nat
<1>1. mq.default \in Seq(Messages) /\ mq.custom \in Seq(Messages) /\ mq.mq \in Nat
  BY DEF Mqs
<1>2. /\ Append(mq.default, m) \in Seq(Messages) /\ Append(mq.custom, m) \in Seq(Messages)
      /\ mq.default # <<>> => /\ Tail(mq.default) \in Seq(Messages)
                              /\ Head(mq.default) \in Messages
  BY ONLY <1>1, m \in Messages, AppendTypes, TailTypes
<1>3. QED
  BY <1>1, <1>2 DEF Mqs

\* broker' in each of the forms a step gives it.
LEMMA KeepBroker ==
    ASSUME BrokerTypeOK, NEW e \in Entities, NEW n \in Nat, NEW m \in Messages,
           broker' = [broker EXCEPT ![e].mq = n, ![e].default = Append(@, m)]
    PROVE  /\ broker' \in [Entities -> Mqs]
           /\ broker'[e] = [mq |-> n, default |-> Append(broker[e].default, m),
                            custom |-> broker[e].custom]
           /\ \A f \in Entities : f # e => broker'[f] = broker[f]
<1>1. broker \in [Entities -> Mqs] /\ broker[e] \in Mqs
  BY DEF BrokerTypeOK
<1>2. DOMAIN broker = Entities
  BY <1>1
<1>3. broker'[e] = [mq |-> n, default |-> Append(broker[e].default, m),
                    custom |-> broker[e].custom]
  BY <1>1 DEF Mqs
<1>4. broker'[e] \in Mqs
  <2>1. [mq |-> n, default |-> Append(broker[e].default, m),
         custom |-> broker[e].custom] \in Mqs
    BY <1>1, MqTypes
  <2>2. QED
    BY ONLY <1>3, <2>1, Zenon
<1>5. \A f \in Entities : f # e => broker'[f] = broker[f]
  BY <1>1
<1>6. broker' = [f \in Entities |-> broker'[f]]
  BY <1>2
<1>7. \A f \in Entities : broker'[f] \in Mqs
  BY ONLY <1>1, <1>4, <1>5
<1>8. QED
  BY ONLY <1>3, <1>5, <1>6, <1>7

LEMMA MqChanges ==
    ASSUME BrokerTypeOK, NEW e \in Entities, NEW mq \in Mqs,
           broker' = [broker EXCEPT ![e] = mq]
    PROVE  /\ broker' \in [Entities -> Mqs]
           /\ broker'[e] = mq
           /\ \A f \in Entities : f # e => broker'[f] = broker[f]
BY DEF BrokerTypeOK

LEMMA ArrivesTypes ==
    ASSUME BrokerTypeOK, NEW e \in Entities, Arrives(e)
    PROVE  /\ sent[e] + 1 \in Messages /\ sent[e] \in Nat
           /\ sent' \in [Entities -> Nat] /\ sent'[e] = sent[e] + 1
           /\ \A f \in Entities : f # e => sent'[f] = sent[f]
           /\ arrived' \in 0 .. MaxMessages
           /\ UNCHANGED <<rdid, running, executing, undefined, binds, since>>
BY MessageBrokerAssumption DEF BrokerTypeOK, Arrives, Messages

\* The variables that few steps change.
Steady ==
    /\ rdid \in [Entities -> BOOLEAN]
    /\ executing \in {Nothing} \union Invocations
    /\ undefined \in BOOLEAN
    /\ sent \in [Entities -> Nat] /\ since \in [Entities -> Nat]
    /\ arrived \in 0 .. MaxMessages /\ binds \in 0 .. MaxBinds
    /\ overtaken \in [Entities -> BOOLEAN]

Queues ==
    /\ queue \in Seq(Deliveries \union Invokes)
    /\ customQueue \in Seq(Invocations)
    /\ executed \in [Entities -> Seq(Messages)]

Brokers ==
    /\ subscriptions \in [Entities -> {"absent", "null", "entity"}]
    /\ broker \in [Entities -> Mqs]
    /\ \A e \in Entities : broker[e].mq = 0 => broker[e] = NoMq

LEMMA TypeParts ==
    /\ BrokerTypeOK <=> Steady /\ Queues /\ Brokers /\ running \in Actions
    /\ BrokerTypeOK' <=> Steady' /\ Queues' /\ Brokers' /\ running' \in Actions
BY DEF BrokerTypeOK, Steady, Queues, Brokers

LEMMA NoMqTypes == NoMq \in Mqs /\ NoMq.mq = 0 /\ Idle \in Actions /\ Idle.at = "idle"
BY DEF NoMq, Mqs, Idle, Actions

LEMMA ArrivalType ==
    ASSUME BrokerTypeOK, NEW e \in Entities,
           Keep(e) \/ DispatchNow(e) \/ KeepForCustom(e)
    PROVE  BrokerTypeOK'
<1>1. Arrives(e)
  BY DEF Keep, DispatchNow, KeepForCustom
<1>2. /\ sent[e] + 1 \in Messages /\ sent[e] + 1 \in Nat \ {0}
      /\ broker[e] \in Mqs /\ broker[e].mq \in Nat
      /\ broker[e].mq = 0 => broker[e] = NoMq
  BY <1>1, ArrivesTypes DEF BrokerTypeOK, Mqs, Messages
<1>3. running' \in Actions
  BY <1>1, ArrivesTypes DEF BrokerTypeOK
<1>4. overtaken' \in [Entities -> BOOLEAN]
  <2>1. CASE DispatchNow(e)
    <3>1. overtaken[e] \/ Flushing(e) \in BOOLEAN
      BY DEF Flushing
    <3>2. overtaken' = [overtaken EXCEPT ![e] = overtaken[e] \/ Flushing(e)]
      BY <2>1 DEF DispatchNow
    <3>3. overtaken \in [Entities -> BOOLEAN]
      BY DEF BrokerTypeOK
    <3>4. (overtaken[e] \/ Flushing(e)) \in BOOLEAN
      OBVIOUS
    <3>. DEFINE now == overtaken[e] \/ Flushing(e)
    <3>5. overtaken' = [overtaken EXCEPT ![e] = now] /\ now \in BOOLEAN
      BY <3>2, <3>4
    <3>. HIDE DEF now
    <3>6. QED
      BY ONLY <3>3, <3>5
  <2>2. QED
    BY <2>1 DEF Keep, KeepForCustom, BrokerTypeOK
<1>5. Steady'
  BY <1>1, <1>4, ArrivesTypes DEF Steady, BrokerTypeOK
<1>6. CASE Keep(e)
  <2>. DEFINE mq == IF broker[e].mq = 0 THEN sent[e] + 1 ELSE broker[e].mq
  <2>1. mq \in Nat \ {0}
    BY <1>2
  <2>2. /\ broker' = [broker EXCEPT ![e].mq = mq, ![e].default = Append(@, sent[e] + 1)]
        /\ subscriptions' = [subscriptions EXCEPT ![e] = "null"]
        /\ queue' = Append(queue, Deliver(e, mq))
        /\ UNCHANGED <<customQueue, executed>>
    BY <1>6 DEF Keep
  <2>. HIDE DEF mq
  <2>3. broker' \in [Entities -> Mqs] /\ \A f \in Entities : f # e => broker'[f] = broker[f]
    BY <1>2, <2>1, <2>2, KeepBroker
  <2>4. broker'[e].mq = mq
    <3>1. broker'[e] = [mq |-> mq, default |-> Append(broker[e].default, sent[e] + 1),
                        custom |-> broker[e].custom]
      BY <1>2, <2>1, <2>2, KeepBroker
    <3>2. QED
      BY <3>1
  <2>5. Brokers'
    BY <2>1, <2>2, <2>3, <2>4 DEF Brokers, BrokerTypeOK
  <2>6. Queues'
    <3>1. Deliver(e, mq) \in Deliveries \union Invokes
      BY <2>1, QueuedFields
    <3>2. QED
      BY <2>2, <3>1, AppendTypes DEF Queues, BrokerTypeOK
  <2>7. QED
    BY <1>3, <1>5, <2>5, <2>6, TypeParts
<1>7. CASE DispatchNow(e)
  <2>1. Queues'
    BY <1>2, <1>7, QueueTypes DEF Queues, DispatchNow
  <2>2. Brokers'
    BY <1>7 DEF Brokers, BrokerTypeOK, DispatchNow, brokerVars
  <2>3. QED
    BY <1>3, <1>5, <2>1, <2>2, TypeParts
<1>8. CASE KeepForCustom(e)
  <2>1. /\ broker' = [broker EXCEPT ![e].custom = Append(@, sent[e] + 1)]
        /\ ~Passes(e)
        /\ UNCHANGED <<subscriptions, queue, customQueue, executed>>
    BY <1>8 DEF KeepForCustom, queueVars
  <2>2. broker[e].mq # 0
    BY <2>1 DEF Passes
  <2>. DEFINE mq == [broker[e] EXCEPT !.custom = Append(@, sent[e] + 1)]
  <2>3. mq \in Mqs /\ mq.mq = broker[e].mq
    BY <1>2, MqTypes
  <2>4. broker' = [broker EXCEPT ![e] = mq]
    BY <2>1
  <2>. HIDE DEF mq
  <2>5. broker' \in [Entities -> Mqs] /\ broker'[e] = mq
        /\ \A f \in Entities : f # e => broker'[f] = broker[f]
    BY <2>3, <2>4, MqChanges
  <2>6. Brokers' /\ Queues'
    BY <2>1, <2>2, <2>3, <2>5 DEF Brokers, Queues, BrokerTypeOK
  <2>7. QED
    BY <1>3, <1>5, <2>6, TypeParts
<1>9. QED
  BY <1>6, <1>7, <1>8

LEMMA DefaultType ==
    ASSUME BrokerTypeOK, DefaultStep
    PROVE  BrokerTypeOK'
<1>0. /\ Queues /\ Brokers /\ Steady /\ running \in Actions
      /\ \A e \in Entities : broker[e] \in Mqs
      /\ queue # <<>> => /\ Tail(queue) \in Seq(Deliveries \union Invokes)
                         /\ Head(queue) \in Deliveries \union Invokes
      /\ Idle \in Actions /\ NoMq \in Mqs
  BY TypeParts, TailTypes, NoMqTypes DEF Queues, Brokers
<1>1. CASE RunInvoke
  <2>1. /\ Head(queue).entity \in Entities /\ Head(queue).msg \in Messages
        /\ queue # <<>>
    BY <1>0, <1>1, QueuedFields DEF RunInvoke, Runs
  <2>2. executed' \in [Entities -> Seq(Messages)]
    BY <1>1, <2>1, ExecuteTypes DEF RunInvoke
  <2>3. Steady' /\ Brokers' /\ running' \in Actions
    BY <1>0, <1>1 DEF RunInvoke, Runs, Steady, Brokers, brokerVars
  <2>4. Queues'
    BY <1>0, <1>1, <2>1, <2>2 DEF RunInvoke, Queues
  <2>5. QED
    BY <2>3, <2>4, TypeParts
<1>2. CASE RunDangling
  <2>1. Steady' /\ Brokers' /\ running' \in Actions /\ Queues'
    BY <1>0, <1>2 DEF RunDangling, Runs, Steady, Brokers, Queues, brokerVars, queueVars
  <2>2. QED
    BY <2>1, TypeParts
<1>3. CASE RunDeliver
  <2>. DEFINE e     == Head(queue).entity
              first == broker[e].default
              bound == subscriptions[e] = "entity"
  <2>1. e \in Entities /\ queue # <<>>
    BY <1>0, <1>3, QueuedFields DEF RunDeliver, Runs
  <2>2. /\ IF first # <<>> THEN broker' = [broker EXCEPT ![e].default = Tail(@)]
                           ELSE UNCHANGED broker
        /\ queue' = Tail(queue)
        /\ running' = [at |-> "check", entity |-> e, bound |-> bound]
        /\ subscriptions' = [subscriptions EXCEPT ![e] =
                                IF @ = "absent" THEN "null" ELSE @]
        /\ UNCHANGED <<rdid, executing, sent, arrived, binds, since, overtaken, undefined>>
    BY <1>3 DEF RunDeliver, Runs
  <2>3. IF bound /\ first # <<>>
        THEN CASE Scheduler[e] = "custom" ->
                    /\ customQueue' = Append(customQueue, Invocation(e, Head(first)))
                    /\ UNCHANGED executed
               [] Scheduler[e] = "synchronous" ->
                    ExecuteIfExists(e, Head(first)) /\ UNCHANGED customQueue
               [] OTHER -> Execute(e, Head(first)) /\ UNCHANGED customQueue
        ELSE UNCHANGED <<executed, customQueue>>
    BY <1>3 DEF RunDeliver
  <2>4. broker[e] \in Mqs /\ first \in Seq(Messages)
    BY <1>0, <2>1 DEF Mqs
  <2>5. running' \in Actions
    <3>1. bound \in BOOLEAN
      OBVIOUS
    <3>. HIDE DEF bound, e
    <3>2. [at |-> "check", entity |-> e, bound |-> bound]
            \in [at : {"check", "erase"}, entity : Entities, bound : BOOLEAN]
      BY ONLY <2>1, <3>1
    <3>3. QED
      BY <2>2, <3>2 DEF Actions
  <2>. HIDE DEF e, first, bound
  <2>6. Queues'
    <3>1. CASE ~(bound /\ first # <<>>)
      BY <1>0, <2>1, <2>2, <2>3, <3>1 DEF Queues
    <3>2. CASE bound /\ first # <<>>
      <4>1. Head(first) \in Messages
        BY <2>4, <3>2, TailTypes
      <4>2. Append(customQueue, Invocation(e, Head(first))) \in Seq(Invocations)
        BY <1>0, <2>1, <4>1, QueuedFields, AppendTypes DEF Queues
      <4>3. CASE Scheduler[e] = "custom"
        BY <1>0, <2>1, <2>2, <2>3, <3>2, <4>2, <4>3 DEF Queues
      <4>4. CASE Scheduler[e] # "custom"
        <5>1. customQueue' = customQueue
              /\ (Execute(e, Head(first)) \/ ExecuteIfExists(e, Head(first)))
          BY <2>3, <3>2, <4>4
        <5>2. executed' \in [Entities -> Seq(Messages)]
          BY <2>1, <4>1, <5>1, ExecuteTypes
        <5>3. QED
          BY <1>0, <2>1, <2>2, <5>1, <5>2 DEF Queues
      <4>5. QED
        BY <4>3, <4>4
    <3>3. QED
      BY <3>1, <3>2
  <2>7. Brokers'
    <3>1. subscriptions' \in [Entities -> {"absent", "null", "entity"}]
      BY <1>0, <2>1, <2>2 DEF Brokers
    <3>2. CASE first = <<>>
      BY <1>0, <2>2, <3>1, <3>2 DEF Brokers
    <3>3. CASE first # <<>>
      <4>. DEFINE mq == [broker[e] EXCEPT !.default = Tail(@)]
      <4>1. mq \in Mqs /\ mq.mq = broker[e].mq
        <5>1. broker[e].default # <<>>
          BY <3>3 DEF first
        <5>2. 1 \in Messages /\ 0 \in Nat
          BY DEF Messages
        <5>3. QED
          BY <2>4, <5>1, <5>2, MqTypes
      <4>2. broker[e].mq # 0
        <5>1. NoMq.default = <<>>
          BY DEF NoMq
        <5>2. QED
          BY <1>0, <2>1, <3>3, <5>1 DEF Brokers, first
      <4>3. broker' = [broker EXCEPT ![e] = mq]
        BY <2>2, <3>3
      <4>. HIDE DEF mq
      <4>4. broker' \in [Entities -> Mqs] /\ broker'[e] = mq
            /\ \A f \in Entities : f # e => broker'[f] = broker[f]
        BY <2>1, <4>1, <4>3, MqChanges
      <4>5. QED
        BY <1>0, <3>1, <4>1, <4>2, <4>4 DEF Brokers
    <3>4. QED
      BY <3>2, <3>3
  <2>8. Steady'
    BY <1>0, <2>2 DEF Steady
  <2>9. QED
    BY <2>5, <2>6, <2>7, <2>8, TypeParts
<1>4. CASE Check
  <2>1. running' \in Actions
    BY <1>0, <1>4, ActionFields DEF Check
  <2>2. Steady' /\ Brokers' /\ Queues'
    BY <1>0, <1>4 DEF Check, Unlocked, Steady, Brokers, Queues, queueVars
  <2>3. QED
    BY <2>1, <2>2, TypeParts
<1>5. CASE Erase
  <2>1. running.entity \in Entities /\ running.bound \in BOOLEAN
    BY <1>0, <1>5, ActionFields DEF Erase
  <2>. DEFINE kept == broker[running.entity].custom
  <2>2. /\ running' = IF kept = <<>> THEN Idle
                      ELSE [at |-> "flush", entity |-> running.entity,
                            bound |-> running.bound, kept |-> kept]
        /\ broker' = [broker EXCEPT ![running.entity] = NoMq]
    BY <1>5 DEF Erase
  <2>3. kept \in Seq(Messages)
    BY <1>0, <2>1 DEF Mqs
  <2>. HIDE DEF kept
  <2>4. running' \in Actions
    BY <1>0, <2>1, <2>2, <2>3 DEF Actions
  <2>5. Brokers'
    BY <1>0, <1>5, <2>1, <2>2, MqChanges DEF Brokers, Erase, Unlocked
  <2>6. Steady' /\ Queues'
    BY <1>0, <1>5 DEF Erase, Unlocked, Steady, Queues, queueVars
  <2>7. QED
    BY <2>4, <2>5, <2>6, TypeParts
<1>6. CASE Flush
  <2>1. /\ running.entity \in Entities /\ running.kept \in Seq(Messages)
        /\ running.kept # <<>> /\ running.at = "flush"
    BY <1>0, <1>6, ActionFields DEF Flush
  <2>2. Head(running.kept) \in Messages
    BY <2>1, TailTypes
  <2>3. Queues'
    BY <1>6, <2>1, <2>2, QueueTypes DEF Flush, Queues
  <2>4. running' \in Actions
    BY <1>0, <1>6, <2>1, ActionFields DEF Flush
  <2>5. Steady' /\ Brokers'
    BY <1>0, <1>6 DEF Flush, Unlocked, Steady, Brokers
  <2>6. QED
    BY <2>3, <2>4, <2>5, TypeParts
<1>7. CASE FlushNull
  <2>1. Steady' /\ Brokers' /\ running' \in Actions /\ Queues'
    BY <1>0, <1>7 DEF FlushNull, Unlocked, Steady, Brokers, Queues, queueVars
  <2>2. QED
    BY <2>1, TypeParts
<1>8. CASE Unbind
  <2>1. Steady' /\ Brokers' /\ running' \in Actions /\ Queues'
    BY <1>0, <1>8 DEF Unbind, Steady, Brokers, Queues, queueVars, brokerVars
  <2>2. QED
    BY <2>1, TypeParts
<1>9. QED
  BY <1>1, <1>2, <1>3, <1>4, <1>5, <1>6, <1>7, <1>8 DEF DefaultStep

LEMMA BrokerTypeStep == BrokerTypeOK /\ [BrokerNext]_vars => BrokerTypeOK'
<1>. SUFFICES ASSUME BrokerTypeOK, [BrokerNext]_vars PROVE BrokerTypeOK'
  OBVIOUS
<1>0. Queues /\ Brokers /\ Steady /\ running \in Actions /\ Idle \in Actions
  BY TypeParts, NoMqTypes
<1>1. ASSUME NEW e \in Entities, Keep(e) \/ DispatchNow(e) \/ KeepForCustom(e)
      PROVE  BrokerTypeOK'
  BY <1>1, ArrivalType
<1>2. CASE DefaultStep
  BY <1>2, DefaultType
<1>3. CASE Collide
  <2>1. Steady' /\ Brokers' /\ running' \in Actions /\ Queues'
    BY <1>0, <1>3 DEF Collide, Unlocked, Steady, Brokers, Queues, queueVars
  <2>2. QED
    BY <2>1, TypeParts
<1>4. CASE CustomTest
  <2>1. /\ Head(customQueue) \in Invocations /\ customQueue' \in Seq(Invocations)
    BY <1>0, <1>4, TailTypes DEF CustomTest, Queues
  <2>2. Steady' /\ Brokers' /\ running' \in Actions /\ Queues'
    BY <1>0, <1>4, <2>1 DEF CustomTest, Steady, Brokers, Queues, brokerVars
  <2>3. QED
    BY <2>2, TypeParts
<1>5. CASE CustomExecute
  <2>1. executing.entity \in Entities /\ executing.msg \in Messages
    BY <1>0, <1>5, QueuedFields DEF CustomExecute, Steady
  <2>2. executed' \in [Entities -> Seq(Messages)]
    BY <1>5, <2>1, ExecuteTypes DEF CustomExecute
  <2>3. Steady' /\ Brokers' /\ running' \in Actions /\ Queues'
    BY <1>0, <1>5, <2>2 DEF CustomExecute, Steady, Brokers, Queues, brokerVars, queueVars
  <2>4. QED
    BY <2>3, TypeParts
<1>6. ASSUME NEW e \in Entities, Bind(e) PROVE BrokerTypeOK'
  <2>1. binds' \in 0 .. MaxBinds
    BY <1>0, <1>6, MessageBrokerAssumption DEF Bind, Steady
  <2>2. Steady' /\ Brokers' /\ running' \in Actions /\ Queues'
    BY <1>0, <1>6, <2>1 DEF Bind, Steady, Brokers, Queues, queueVars
  <2>3. QED
    BY <2>2, TypeParts
<1>7. ASSUME NEW e \in Entities, Unsubscribe(e) PROVE BrokerTypeOK'
  <2>. DEFINE now == overtaken[e] \/ broker[e].custom # <<>>
  <2>1. now \in BOOLEAN
    OBVIOUS
  <2>2. overtaken' = [overtaken EXCEPT ![e] = now]
    BY <1>7 DEF Unsubscribe
  <2>. HIDE DEF now
  <2>3. overtaken' \in [Entities -> BOOLEAN]
    BY <1>0, <2>1, <2>2 DEF Steady
  <2>4. running' \in Actions
    BY <1>7 DEF Unsubscribe, Actions
  <2>5. Steady' /\ Brokers' /\ Queues'
    BY <1>0, <1>7, <2>3 DEF Unsubscribe, Steady, Brokers, Queues, queueVars
  <2>6. QED
    BY <2>4, <2>5, TypeParts
<1>8. CASE UNCHANGED vars
  <2>1. Steady' /\ Brokers' /\ running' \in Actions /\ Queues'
    BY <1>0, <1>8 DEF vars, brokerVars, queueVars, Steady, Brokers, Queues
  <2>2. QED
    BY <2>1, TypeParts
<1>9. QED
  BY <1>1, <1>2, <1>3, <1>4, <1>5, <1>6, <1>7, <1>8 DEF BrokerNext, CustomStep

LEMMA BoundStep == BrokerTypeOK /\ BoundInv /\ [BrokerNext]_vars => BoundInv'
<1>. SUFFICES ASSUME BrokerTypeOK, BoundInv, [BrokerNext]_vars PROVE BoundInv'
  OBVIOUS
<1>. USE DEF BoundInv
<1>0. /\ subscriptions \in [Entities -> {"absent", "null", "entity"}]
      /\ rdid \in [Entities -> BOOLEAN] /\ running \in Actions /\ Idle.at = "idle"
  BY NoMqTypes DEF BrokerTypeOK
<1>1. ASSUME NEW e \in Entities, Keep(e) \/ DispatchNow(e) \/ KeepForCustom(e)
      PROVE  BoundInv'
  <2>1. /\ running' = running /\ rdid' = rdid
        /\ \A f \in Entities : subscriptions'[f] = "entity" => subscriptions[f] = "entity"
    BY <1>0, <1>1 DEF Keep, DispatchNow, KeepForCustom, Arrives, brokerVars
  <2>2. running.at = "unbind" => running.entity \in Entities
    BY <1>0, ActionFields
  <2>3. QED
    BY ONLY <2>1, <2>2, BoundInv
<1>2. CASE RunDeliver
  <2>1. /\ \A e \in Entities : subscriptions'[e] = "entity" => subscriptions[e] = "entity"
        /\ running'.at = "check" /\ rdid' = rdid
    BY <1>0, <1>2 DEF RunDeliver, Runs
  <2>2. QED
    BY <2>1
<1>3. CASE RunInvoke \/ RunDangling \/ FlushNull \/ Collide \/ CustomStep
             \/ UNCHANGED vars
  BY <1>3 DEF RunInvoke, RunDangling, Runs, FlushNull, Collide, Unlocked, CustomStep,
              CustomTest, CustomExecute, vars, brokerVars
<1>4. CASE Check \/ Erase \/ Flush
  <2>1. running'.at \in {"idle", "erase", "flush"}
    <3>1. CASE Check
      BY <1>0, <3>1, ActionFields DEF Check
    <3>2. CASE Erase
      BY <1>0, <3>2 DEF Erase
    <3>3. CASE Flush
      BY <1>0, <3>3, ActionFields DEF Flush
    <3>4. QED
      BY <1>4, <3>1, <3>2, <3>3
  <2>2. QED
    BY <1>4, <2>1 DEF Check, Erase, Flush, Unlocked
<1>5. CASE Unbind
  BY <1>0, <1>5, ActionFields DEF Unbind, brokerVars
<1>6. ASSUME NEW e \in Entities, Bind(e) PROVE BoundInv'
  BY <1>0, <1>6 DEF Bind
<1>7. ASSUME NEW e \in Entities, Unsubscribe(e) PROVE BoundInv'
  BY <1>0, <1>7 DEF Unsubscribe
<1>8. QED
  BY <1>1, <1>2, <1>3, <1>4, <1>5, <1>6, <1>7 DEF BrokerNext, DefaultStep

-----------------------------------------------------------------------------
(***************************************************************************)
(* Nothing that arrives for a subscribed entity is lost                    *)
(***************************************************************************)
LEMMA ElementsOfAppend ==
    \A S : \A s \in Seq(S), x \in S : Elements(Append(s, x)) = Elements(s) \union {x}
<1>. SUFFICES ASSUME NEW S, NEW s \in Seq(S), NEW x \in S
              PROVE  Elements(Append(s, x)) = Elements(s) \union {x}
  OBVIOUS
<1>1. QED
  BY Appended DEF Elements

LEMMA ElementsOfTail ==
    \A S : \A s \in Seq(S) :
      s # <<>> => Elements(s) = {Head(s)} \union Elements(Tail(s))
<1>. SUFFICES ASSUME NEW S, NEW s \in Seq(S), s # <<>>
              PROVE  Elements(s) = {Head(s)} \union Elements(Tail(s))
  OBVIOUS
<1>1. QED
  BY Taken DEF Elements

LEMMA ElementsOfNothing == Elements(<<>>) = {}
BY DEF Elements

\* Where a message for e may be that is not kept for want of a subscription.
Held(e, m) ==
    \/ m \in Elements(executed[e])
    \/ m \in Elements(broker[e].custom)
    \/ Invoke(e, m) \in Elements(queue)
    \/ Invocation(e, m) \in Elements(customQueue)
    \/ executing = Invocation(e, m)
    \/ Flushing(e) /\ m \in Elements(running.kept)

HeldInv ==
    \A e \in Entities : subscriptions[e] = "entity" =>
        \A m \in since[e] + 1 .. sent[e] : Held(e, m)

\* Executing forgets no message, and a subscribed entity executes.
LEMMA ExecuteHolds ==
    ASSUME BrokerTypeOK, NEW e \in Entities, NEW m \in Messages,
           \/ Execute(e, m)
           \/ ExecuteIfExists(e, m)
           \/ executed' = executed
    PROVE  /\ \A f \in Entities : Elements(executed[f]) \subseteq Elements(executed'[f])
           /\ Execute(e, m) \/ (ExecuteIfExists(e, m) /\ ExistsId(e))
                => m \in Elements(executed'[e])
<1>1. executed \in [Entities -> Seq(Messages)] /\ executed[e] \in Seq(Messages)
  BY DEF BrokerTypeOK
<1>2. Elements(Append(executed[e], m)) = Elements(executed[e]) \union {m}
  BY <1>1, ElementsOfAppend
<1>3. CASE Execute(e, m)
  <2>1. /\ executed'[e] = Append(executed[e], m)
        /\ \A f \in Entities : f # e => executed'[f] = executed[f]
    BY <1>1, <1>3 DEF Execute
  <2>2. QED
    BY <1>2, <2>1
<1>4. CASE ExecuteIfExists(e, m) /\ ExistsId(e)
  <2>1. Execute(e, m)
    BY <1>4 DEF ExecuteIfExists
  <2>2. QED
    BY <1>3, <2>1
<1>5. CASE ~Execute(e, m) /\ ~(ExecuteIfExists(e, m) /\ ExistsId(e))
  <2>1. executed' = executed
    BY <1>5 DEF ExecuteIfExists
  <2>2. QED
    BY <1>5, <2>1
<1>6. QED
  BY <1>3, <1>4, <1>5

\* A message given to the scheduler of a subscribed entity waits there or is
\* executed, and whatever waited before still does.
LEMMA QueueHolds ==
    ASSUME BrokerTypeOK, BoundInv, NEW e \in Entities, NEW m \in Messages,
           QueueInvocation(e, m)
    PROVE  /\ \A f \in Entities : Elements(executed[f]) \subseteq Elements(executed'[f])
           /\ Elements(queue) \subseteq Elements(queue')
           /\ Elements(customQueue) \subseteq Elements(customQueue')
           /\ subscriptions[e] = "entity" =>
                \/ m \in Elements(executed'[e])
                \/ Invoke(e, m) \in Elements(queue')
                \/ Invocation(e, m) \in Elements(customQueue')
<1>1. Scheduler[e] \in {"default", "custom", "synchronous"}
  BY MessageBrokerAssumption
<1>2. /\ Elements(Append(queue, Invoke(e, m))) = Elements(queue) \union {Invoke(e, m)}
      /\ Elements(Append(customQueue, Invocation(e, m)))
           = Elements(customQueue) \union {Invocation(e, m)}
  <2>1. /\ queue \in Seq(Deliveries \union Invokes) /\ customQueue \in Seq(Invocations)
        /\ Invoke(e, m) \in Deliveries \union Invokes /\ Invocation(e, m) \in Invocations
    BY QueuedFields DEF BrokerTypeOK
  <2>. DEFINE q == Invoke(e, m)
              c == Invocation(e, m)
  <2>. HIDE DEF q, c
  <2>2. queue \in Seq(Deliveries \union Invokes) /\ q \in Deliveries \union Invokes
    BY <2>1 DEF q
  <2>3. Elements(Append(queue, q)) = Elements(queue) \union {q}
    BY ONLY <2>2, ElementsOfAppend
  <2>4. customQueue \in Seq(Invocations) /\ c \in Invocations
    BY <2>1 DEF c
  <2>5. Elements(Append(customQueue, c)) = Elements(customQueue) \union {c}
    BY ONLY <2>4, ElementsOfAppend
  <2>6. QED
    BY <2>3, <2>5 DEF q, c
<1>3. CASE Scheduler[e] = "default"
  BY <1>2, <1>3 DEF QueueInvocation
<1>4. CASE Scheduler[e] = "custom"
  BY <1>2, <1>4 DEF QueueInvocation
<1>5. CASE Scheduler[e] = "synchronous"
  <2>1. ExecuteIfExists(e, m) /\ UNCHANGED <<queue, customQueue>>
    BY <1>5 DEF QueueInvocation
  <2>2. subscriptions[e] = "entity" => ExistsId(e)
    BY DEF BoundInv, ExistsId
  <2>3. QED
    BY <2>1, <2>2, ExecuteHolds
<1>6. QED
  BY <1>1, <1>3, <1>4, <1>5

\* Dispatch: the message that arrives is held by a subscribed entity.
LEMMA ArrivalHolds ==
    ASSUME BrokerTypeOK, BoundInv, HeldInv, NEW e \in Entities,
           Keep(e) \/ DispatchNow(e) \/ KeepForCustom(e)
    PROVE  HeldInv'
<1>0. /\ Arrives(e)
      /\ subscriptions \in [Entities -> {"absent", "null", "entity"}]
      /\ broker[e] \in Mqs /\ broker[e].custom \in Seq(Messages)
      /\ queue \in Seq(Deliveries \union Invokes)
      /\ sent \in [Entities -> Nat] /\ since \in [Entities -> Nat]
  BY DEF Keep, DispatchNow, KeepForCustom, BrokerTypeOK, Mqs
<1>1. /\ sent[e] + 1 \in Messages /\ sent'[e] = sent[e] + 1
      /\ \A f \in Entities : f # e => sent'[f] = sent[f]
      /\ UNCHANGED <<since, running, executing>>
  BY <1>0, ArrivesTypes
<1>2. SUFFICES ASSUME NEW f \in Entities, subscriptions'[f] = "entity",
                      NEW m \in since'[f] + 1 .. sent'[f]
               PROVE  Held(f, m)'
  BY DEF HeldInv
<1>3. /\ m \in since[f] + 1 .. sent[f] \/ (f = e /\ m = sent[e] + 1)
      /\ m \in Messages
  BY <1>0, <1>1 DEF Messages
<1>4. CASE Keep(e)
  <2>. DEFINE mq == IF broker[e].mq = 0 THEN sent[e] + 1 ELSE broker[e].mq
  <2>1. f # e /\ subscriptions[f] = "entity"
    BY <1>0, <1>2, <1>4 DEF Keep
  <2>2. Held(f, m)
    BY <1>3, <2>1 DEF HeldInv
  <2>3. broker'[f] = broker[f]
    BY <1>4, <2>1 DEF Keep, BrokerTypeOK
  <2>4. Deliver(e, mq) \in Deliveries \union Invokes
    BY <1>0, <1>1, QueuedFields DEF Mqs, Messages
  <2>5. queue' = Append(queue, Deliver(e, mq)) /\ UNCHANGED <<customQueue, executed>>
    BY <1>4 DEF Keep
  <2>. HIDE DEF mq
  <2>6. Elements(queue) \subseteq Elements(queue')
    <3>. DEFINE q == Deliver(e, mq)
    <3>1. queue \in Seq(Deliveries \union Invokes) /\ q \in Deliveries \union Invokes
      BY <1>0, <2>4
    <3>2. queue' = Append(queue, q)
      BY <2>5
    <3>. HIDE DEF q
    <3>3. QED
      BY ONLY <3>1, <3>2, ElementsOfAppend
  <2>7. QED
    BY ONLY <1>1, <2>2, <2>3, <2>5, <2>6 DEF Held, Flushing
<1>5. CASE DispatchNow(e)
  <2>1. QueueInvocation(e, sent[e] + 1) /\ UNCHANGED <<subscriptions, broker>>
    BY <1>5 DEF DispatchNow, brokerVars
  <2>2. /\ \A g \in Entities : Elements(executed[g]) \subseteq Elements(executed'[g])
        /\ Elements(queue) \subseteq Elements(queue')
        /\ Elements(customQueue) \subseteq Elements(customQueue')
        /\ subscriptions[e] = "entity" =>
             \/ sent[e] + 1 \in Elements(executed'[e])
             \/ Invoke(e, sent[e] + 1) \in Elements(queue')
             \/ Invocation(e, sent[e] + 1) \in Elements(customQueue')
    BY <1>1, <2>1, QueueHolds
  <2>3. CASE m \in since[f] + 1 .. sent[f]
    <3>1. Held(f, m)
      BY <1>2, <2>1, <2>3 DEF HeldInv
    <3>2. QED
      BY ONLY <1>1, <2>1, <2>2, <3>1, f \in Entities DEF Held, Flushing
  <2>4. CASE f = e /\ m = sent[e] + 1
    BY <1>2, <2>1, <2>2, <2>4 DEF Held
  <2>5. QED
    BY <1>3, <2>3, <2>4
<1>6. CASE KeepForCustom(e)
  <2>1. /\ broker' = [broker EXCEPT ![e].custom = Append(@, sent[e] + 1)]
        /\ UNCHANGED <<subscriptions, queue, customQueue, executed>>
    BY <1>6 DEF KeepForCustom, queueVars
  <2>2. /\ broker'[e].custom = Append(broker[e].custom, sent[e] + 1)
        /\ \A g \in Entities : g # e => broker'[g] = broker[g]
    BY <1>0, <2>1 DEF BrokerTypeOK, Mqs
  <2>3. Elements(broker'[e].custom) = Elements(broker[e].custom) \union {sent[e] + 1}
    BY <1>0, <1>1, <2>2, ElementsOfAppend
  <2>4. CASE m \in since[f] + 1 .. sent[f]
    <3>1. Held(f, m)
      BY <1>2, <2>1, <2>4 DEF HeldInv
    <3>2. QED
      BY ONLY <1>1, <2>1, <2>2, <2>3, <3>1, f \in Entities DEF Held, Flushing
  <2>5. CASE f = e /\ m = sent[e] + 1
    BY <2>3, <2>5 DEF Held
  <2>6. QED
    BY <1>3, <2>4, <2>5
<1>7. QED
  BY <1>4, <1>5, <1>6

\* The default scheduler executes or hands on what it takes.
LEMMA DefaultHolds ==
    ASSUME BrokerTypeOK, BoundInv, HeldInv, DefaultStep
    PROVE  HeldInv'
<1>0. /\ subscriptions \in [Entities -> {"absent", "null", "entity"}]
      /\ \A g \in Entities : broker[g] \in Mqs /\ broker[g].custom \in Seq(Messages)
      /\ queue \in Seq(Deliveries \union Invokes)
      /\ customQueue \in Seq(Invocations) /\ running \in Actions
      /\ sent \in [Entities -> Nat] /\ since \in [Entities -> Nat]
      /\ broker \in [Entities -> Mqs]
  BY DEF BrokerTypeOK, Mqs
<1>1. /\ UNCHANGED <<since, sent, executing>>
      /\ \A g \in Entities : subscriptions'[g] = "entity" => subscriptions[g] = "entity"
  <2>1. CASE RunDeliver
    BY <1>0, <2>1 DEF RunDeliver, Runs
  <2>2. CASE ~RunDeliver
    BY <2>2 DEF DefaultStep, RunInvoke, RunDangling, Runs, Check, Erase, Flush, FlushNull,
                Unlocked, Unbind, brokerVars
  <2>3. QED
    BY <2>1, <2>2
<1>2. SUFFICES ASSUME NEW f \in Entities, subscriptions[f] = "entity",
                      NEW m \in since[f] + 1 .. sent[f], m \in Messages, Held(f, m)
               PROVE  Held(f, m)'
  BY <1>0, <1>1 DEF HeldInv, Messages
<1>. DEFINE head == Head(queue)
<1>3. CASE RunInvoke
  <2>1. /\ queue # <<>> /\ queue' = Tail(queue) /\ head.action = "invoke"
        /\ ExecuteIfExists(head.entity, head.msg)
        /\ running = Idle /\ UNCHANGED <<broker, customQueue, running>>
    BY <1>3 DEF RunInvoke, Runs, brokerVars
  <2>2. head \in Deliveries \union Invokes /\ Elements(queue) = {head} \union Elements(queue')
    BY <1>0, <2>1, TailTypes, ElementsOfTail
  <2>. HIDE DEF head
  <2>3. /\ head.entity \in Entities /\ head.msg \in Messages
        /\ head = Invoke(head.entity, head.msg)
    BY <2>1, <2>2, QueuedFields
  <2>4. /\ Elements(executed[f]) \subseteq Elements(executed'[f])
        /\ ExistsId(head.entity) => head.msg \in Elements(executed'[head.entity])
    BY <2>1, <2>3, ExecuteHolds
  <2>5. CASE head = Invoke(f, m)
    <3>1. head.entity = f /\ head.msg = m
      BY <1>2, <2>5, QueuedFields
    <3>2. ExistsId(f)
      BY <1>2 DEF ExistsId, BoundInv
    <3>3. QED
      BY <2>4, <3>1, <3>2 DEF Held
  <2>6. CASE head # Invoke(f, m)
    BY ONLY <1>1, <1>2, <2>1, <2>2, <2>4, <2>6 DEF Held, Flushing
  <2>7. QED
    BY <2>5, <2>6
<1>4. CASE RunDeliver
  <2>. DEFINE e == head.entity
              first == broker[e].default
  <2>1. /\ queue # <<>> /\ queue' = Tail(queue) /\ head.action = "deliver"
        /\ IF first # <<>> THEN broker' = [broker EXCEPT ![e].default = Tail(@)]
                           ELSE UNCHANGED broker
        /\ running = Idle /\ running'.at = "check"
    BY <1>4 DEF RunDeliver, Runs
  <2>2. head \in Deliveries \union Invokes /\ Elements(queue) = {head} \union Elements(queue')
    BY <1>0, <2>1, TailTypes, ElementsOfTail
  <2>3. e \in Entities /\ head # Invoke(f, m)
    <3>1. Invoke(f, m).action = "invoke" /\ head.action = "deliver"
      BY <1>2, <2>1, QueuedFields
    <3>. HIDE DEF head
    <3>2. e \in Entities
      BY ONLY <2>2, QueuedFields
    <3>3. head # Invoke(f, m)
      BY ONLY <3>1
    <3>4. QED
      BY <3>2, <3>3
  <2>4. broker'[f].custom = broker[f].custom
    <3>1. CASE first = <<>>
      BY <2>1, <3>1
    <3>2. CASE first # <<>>
      <4>1. broker' = [broker EXCEPT ![e].default = Tail(@)]
        BY <2>1, <3>2
      <4>. HIDE DEF e, first
      <4>2. broker'[f].custom = broker[f].custom
        BY <1>0, <2>3, <4>1 DEF Mqs
      <4>3. QED
        BY <4>2
    <3>3. QED
      BY <3>1, <3>2
  <2>5. first \in Seq(Messages)
    BY <1>0, <2>3 DEF Mqs
  <2>6. /\ Elements(executed[f]) \subseteq Elements(executed'[f])
        /\ Elements(customQueue) \subseteq Elements(customQueue')
    <3>1. CASE UNCHANGED <<executed, customQueue>>
      BY <3>1
    <3>2. ASSUME ~UNCHANGED <<executed, customQueue>>
          PROVE  /\ Head(first) \in Messages
                 /\ \/ /\ customQueue' = Append(customQueue, Invocation(e, Head(first)))
                       /\ executed' = executed
                    \/ /\ customQueue' = customQueue
                       /\ ExecuteIfExists(e, Head(first)) \/ Execute(e, Head(first))
      <4>1. first # <<>>
        BY <1>4, <3>2 DEF RunDeliver
      <4>2. Head(first) \in Messages
        BY <2>5, <4>1, TailTypes
      <4>3. \/ /\ customQueue' = Append(customQueue, Invocation(e, Head(first)))
               /\ executed' = executed
            \/ /\ customQueue' = customQueue
               /\ ExecuteIfExists(e, Head(first)) \/ Execute(e, Head(first))
        BY <1>4, <3>2 DEF RunDeliver
      <4>4. QED
        BY <4>2, <4>3
    <3>. HIDE DEF e, first
    <3>3. CASE ~UNCHANGED <<executed, customQueue>>
      <4>1. CASE customQueue' = Append(customQueue, Invocation(e, Head(first)))
                   /\ executed' = executed
        BY <1>0, <2>3, <3>2, <3>3, <4>1, QueuedFields, ElementsOfAppend
      <4>2. CASE customQueue' = customQueue
                   /\ (ExecuteIfExists(e, Head(first)) \/ Execute(e, Head(first)))
        BY <2>3, <3>2, <3>3, <4>2, ExecuteHolds
      <4>3. QED
        BY <3>2, <3>3, <4>1, <4>2
    <3>4. QED
      BY <3>1, <3>3
  <2>7. Idle.at = "idle"
    BY NoMqTypes
  <2>8. QED
    BY ONLY <1>1, <1>2, <2>1, <2>2, <2>3, <2>4, <2>6, <2>7 DEF Held, Flushing
<1>5. CASE Erase
  <2>. DEFINE kept == broker[running.entity].custom
  <2>1. /\ running.at = "erase" /\ running.entity \in Entities
        /\ UNCHANGED <<queue, customQueue, executed>>
        /\ broker' = [broker EXCEPT ![running.entity] = NoMq]
        /\ running' = IF kept = <<>> THEN Idle
                      ELSE [at |-> "flush", entity |-> running.entity,
                            bound |-> running.bound, kept |-> kept]
    BY <1>0, <1>5, ActionFields DEF Erase, queueVars
  <2>2. ~Flushing(f)
    BY <2>1 DEF Flushing
  <2>3. CASE f # running.entity
    <3>1. broker'[f] = broker[f]
      BY <1>0, <2>1, <2>3
    <3>2. QED
      BY ONLY <1>1, <1>2, <2>1, <2>2, <3>1 DEF Held
  <2>4. CASE f = running.entity /\ m \in Elements(kept)
    <3>1. kept # <<>>
      BY <2>4, ElementsOfNothing
    <3>2. running'.at = "flush" /\ running'.entity = f /\ running'.kept = kept
      BY <2>1, <2>4, <3>1
    <3>3. QED
      BY ONLY <2>4, <3>2 DEF Held, Flushing
  <2>5. CASE f = running.entity /\ m \notin Elements(kept)
    BY ONLY <1>1, <1>2, <2>1, <2>2, <2>5 DEF Held
  <2>6. QED
    BY <2>3, <2>4, <2>5
<1>6. CASE Flush
  <2>1. /\ running.entity \in Entities /\ running.kept \in Seq(Messages)
        /\ running.kept # <<>> /\ running.at = "flush" /\ broker' = broker
        /\ QueueInvocation(running.entity, Head(running.kept))
        /\ running' = IF Len(running.kept) = 1 THEN Idle
                      ELSE [running EXCEPT !.kept = Tail(@)]
    BY <1>0, <1>6, ActionFields DEF Flush
  <2>2. /\ Head(running.kept) \in Messages /\ Tail(running.kept) \in Seq(Messages)
        /\ Elements(running.kept) = {Head(running.kept)} \union Elements(Tail(running.kept))
    BY <2>1, TailTypes, ElementsOfTail
  <2>3. /\ Elements(executed[f]) \subseteq Elements(executed'[f])
        /\ Elements(queue) \subseteq Elements(queue')
        /\ Elements(customQueue) \subseteq Elements(customQueue')
        /\ subscriptions[running.entity] = "entity" =>
             \/ Head(running.kept) \in Elements(executed'[running.entity])
             \/ Invoke(running.entity, Head(running.kept)) \in Elements(queue')
             \/ Invocation(running.entity, Head(running.kept)) \in Elements(customQueue')
    BY <2>1, <2>2, QueueHolds
  <2>4. CASE Flushing(f) /\ m = Head(running.kept)
    BY ONLY <1>2, <2>3, <2>4 DEF Held, Flushing
  <2>5. CASE Flushing(f) /\ m \in Elements(Tail(running.kept))
    <3>1. Tail(running.kept) # <<>>
      BY <2>5, ElementsOfNothing
    <3>2. Len(running.kept) # 1
      <4>1. Tail(running.kept) \in Seq(Messages)
        BY <2>2
      <4>2. Len(Tail(running.kept)) = Len(running.kept) - 1
        BY ONLY <2>1
      <4>3. Len(Tail(running.kept)) # 0
        BY ONLY <3>1, <4>1, EmptySeq
      <4>4. QED
        BY ONLY <4>2, <4>3
    <3>3. /\ running'.at = "flush" /\ running'.entity = running.entity
          /\ running'.kept = Tail(running.kept)
      BY <1>0, <2>1, <3>2, ActionFields
    <3>4. QED
      BY ONLY <2>5, <3>3 DEF Held, Flushing
  <2>6. CASE ~(Flushing(f) /\ m \in Elements(running.kept))
    BY ONLY <1>1, <1>2, <2>1, <2>3, <2>6 DEF Held
  <2>7. QED
    BY <2>2, <2>4, <2>5, <2>6
<1>7. CASE Check \/ FlushNull \/ RunDangling \/ Unbind
  <2>1. UNCHANGED <<broker, executed, queue, customQueue>>
    BY <1>7 DEF Check, FlushNull, RunDangling, Runs, Unbind, Unlocked, brokerVars, queueVars
  <2>2. running' = running \/ running.at # "flush"
    BY <1>7 DEF Check, FlushNull, RunDangling, Unbind
  <2>3. QED
    BY ONLY <1>1, <1>2, <2>1, <2>2 DEF Held, Flushing
<1>8. QED
  BY <1>3, <1>4, <1>5, <1>6, <1>7 DEF DefaultStep

LEMMA HeldStep ==
    ASSUME BrokerTypeOK, BoundInv, HeldInv, [BrokerNext]_vars
    PROVE  HeldInv'
<1>0. /\ subscriptions \in [Entities -> {"absent", "null", "entity"}]
      /\ customQueue \in Seq(Invocations) /\ running \in Actions
      /\ executing \in {Nothing} \union Invocations
      /\ sent \in [Entities -> Nat] /\ since \in [Entities -> Nat]
  BY DEF BrokerTypeOK
<1>1. CASE CustomTest
  <2>1. SUFFICES ASSUME NEW f \in Entities, subscriptions[f] = "entity",
                        NEW m \in since[f] + 1 .. sent[f], m \in Messages, Held(f, m)
                 PROVE  Held(f, m)'
    BY <1>0, <1>1 DEF HeldInv, Messages, CustomTest, brokerVars
  <2>. DEFINE head == Head(customQueue)
  <2>2. /\ customQueue # <<>> /\ customQueue' = Tail(customQueue) /\ executing = Nothing
        /\ executing' = IF ExistsId(head.entity) THEN head ELSE Nothing
        /\ UNCHANGED <<broker, queue, executed, running>>
    BY <1>1 DEF CustomTest, brokerVars
  <2>3. head \in Invocations /\ Elements(customQueue) = {head} \union Elements(customQueue')
    BY <1>0, <2>2, TailTypes, ElementsOfTail
  <2>4. Invocation(f, m) \in Invocations /\ Invocation(f, m).entity = f
        /\ Invocation(f, m) # Nothing
    BY <2>1, QueuedFields
  <2>5. ExistsId(f)
    BY <2>1 DEF ExistsId, BoundInv
  <2>. HIDE DEF head
  <2>6. CASE head = Invocation(f, m)
    BY <2>2, <2>4, <2>5, <2>6 DEF Held
  <2>7. CASE head # Invocation(f, m)
    BY ONLY <2>1, <2>2, <2>3, <2>4, <2>7 DEF Held, Flushing
  <2>8. QED
    BY <2>6, <2>7
<1>2. CASE CustomExecute
  <2>1. SUFFICES ASSUME NEW f \in Entities, subscriptions[f] = "entity",
                        NEW m \in since[f] + 1 .. sent[f], m \in Messages, Held(f, m)
                 PROVE  Held(f, m)'
    BY <1>0, <1>2 DEF HeldInv, Messages, CustomExecute, brokerVars
  <2>2. /\ executing \in Invocations /\ Execute(executing.entity, executing.msg)
        /\ UNCHANGED <<broker, queue, customQueue, running>>
    BY <1>0, <1>2 DEF CustomExecute, brokerVars, queueVars
  <2>3. executing.entity \in Entities /\ executing.msg \in Messages
    BY <2>2, QueuedFields
  <2>4. /\ Elements(executed[f]) \subseteq Elements(executed'[f])
        /\ executing.msg \in Elements(executed'[executing.entity])
    BY <2>2, <2>3, ExecuteHolds
  <2>5. CASE executing = Invocation(f, m)
    <3>1. executing.entity = f /\ executing.msg = m
      BY <2>1, <2>5, QueuedFields
    <3>2. QED
      BY <2>4, <3>1 DEF Held
  <2>6. CASE executing # Invocation(f, m)
    BY ONLY <2>1, <2>2, <2>4, <2>6 DEF Held, Flushing
  <2>7. QED
    BY <2>5, <2>6
<1>3. ASSUME NEW e \in Entities, Bind(e) PROVE HeldInv'
  <2>1. SUFFICES ASSUME NEW f \in Entities, subscriptions'[f] = "entity",
                        NEW m \in since'[f] + 1 .. sent'[f]
                 PROVE  Held(f, m)'
    BY DEF HeldInv
  <2>2. /\ since' = [since EXCEPT ![e] = sent[e]]
        /\ subscriptions' = [subscriptions EXCEPT ![e] = "entity"]
        /\ UNCHANGED <<sent, broker, queue, customQueue, executing, executed, running>>
    BY <1>3 DEF Bind, queueVars
  <2>3. f # e
    <3>1. since'[e] + 1 > sent'[e] /\ since'[e] \in Nat /\ sent'[e] \in Nat
      BY <1>0, <2>2
    <3>2. QED
      BY <2>1, <3>1
  <2>4. Held(f, m)
    BY <1>0, <2>1, <2>2, <2>3 DEF HeldInv
  <2>5. QED
    BY ONLY <2>2, <2>4 DEF Held, Flushing
<1>4. ASSUME NEW e \in Entities, Unsubscribe(e) PROVE HeldInv'
  <2>1. SUFFICES ASSUME NEW f \in Entities, subscriptions'[f] = "entity",
                        NEW m \in since'[f] + 1 .. sent'[f]
                 PROVE  Held(f, m)'
    BY DEF HeldInv
  <2>2. /\ subscriptions' = [subscriptions EXCEPT ![e] = "absent"]
        /\ UNCHANGED <<since, sent, broker, queue, customQueue, executing, executed>>
        /\ running = Idle
    BY <1>4 DEF Unsubscribe, queueVars
  <2>3. Held(f, m) /\ Idle.at = "idle"
    BY <1>0, <2>1, <2>2, NoMqTypes DEF HeldInv
  <2>4. QED
    BY ONLY <2>2, <2>3 DEF Held, Flushing
<1>5. CASE Collide \/ UNCHANGED vars
  <2>1. UNCHANGED <<subscriptions, since, sent, broker, queue, customQueue, executing,
                    executed, running>>
    BY <1>5 DEF Collide, Unlocked, vars, brokerVars, queueVars
  <2>2. QED
    BY ONLY <2>1, HeldInv DEF HeldInv, Held, Flushing
<1>6. QED
  BY <1>1, <1>2, <1>3, <1>4, <1>5, ArrivalHolds, DefaultHolds DEF BrokerNext, CustomStep

LEMMA HeldIsNotLost == BrokerTypeOK /\ HeldInv => NothingLost
<1>. SUFFICES ASSUME BrokerTypeOK, HeldInv, NEW e \in Entities, subscriptions[e] = "entity",
                     NEW m \in since[e] + 1 .. sent[e]
              PROVE  m \in Elements(executed[e]) \union Waiting(e)
  BY DEF NothingLost
<1>1. m \in Messages /\ Held(e, m)
  BY DEF HeldInv, BrokerTypeOK, Messages
<1>2. /\ Invoke(e, m).action = "invoke" /\ Invoke(e, m).entity = e /\ Invoke(e, m).msg = m
      /\ Invocation(e, m).entity = e /\ Invocation(e, m).msg = m
  BY <1>1, QueuedFields
<1>3. CASE m \in Elements(executed[e])
  BY <1>3
<1>4. CASE m \in Elements(broker[e].custom)
  BY <1>4 DEF Waiting
<1>5. CASE Invoke(e, m) \in Elements(queue)
  <2>1. PICK i \in DOMAIN queue : queue[i] = Invoke(e, m)
    BY <1>5 DEF Elements
  <2>2. m \in {queue[k].msg : k \in {j \in DOMAIN queue :
                  queue[j].action = "invoke" /\ queue[j].entity = e}}
    BY <1>2, <2>1
  <2>3. QED
    BY <2>2 DEF Waiting
<1>6. CASE Invocation(e, m) \in Elements(customQueue)
  <2>1. PICK i \in DOMAIN customQueue : customQueue[i] = Invocation(e, m)
    BY <1>6 DEF Elements
  <2>2. m \in {customQueue[k].msg : k \in {j \in DOMAIN customQueue :
                  customQueue[j].entity = e}}
    BY <1>2, <2>1
  <2>3. QED
    BY <2>2 DEF Waiting
<1>7. CASE executing = Invocation(e, m)
  BY <1>2, <1>7 DEF Waiting
<1>8. CASE Flushing(e) /\ m \in Elements(running.kept)
  BY <1>8 DEF Waiting
<1>9. QED
  BY <1>1, <1>3, <1>4, <1>5, <1>6, <1>7, <1>8 DEF Held

LEMMA HeldInit == BrokerInit => HeldInv
BY DEF BrokerInit, HeldInv

-----------------------------------------------------------------------------
(***************************************************************************)
(* Execution in the order of arrival                                       *)
(***************************************************************************)

\* Which scheduler an invocation waits for; a flush belongs to a subscribed
\* entity whose Mq is erased, and an Mq never gets the number of another.
QueuePlace ==
    \A q \in Elements(queue) :
        /\ q.action = "invoke" => Scheduler[q.entity] = "default"
        /\ q.action = "deliver" => q.mq \in 1 .. sent[q.entity]

CustomPlace ==
    /\ \A c \in Elements(customQueue) : Scheduler[c.entity] = "custom"
    /\ executing # Nothing => Scheduler[executing.entity] = "custom"

MqPlace ==
    \A e \in Entities :
        /\ broker[e].mq <= sent[e]
        /\ Scheduler[e] = "default" => broker[e].custom = <<>> /\ ~Flushing(e)
        /\ ~overtaken[e] /\ (broker[e].custom # <<>> \/ Flushing(e))
             => subscriptions[e] = "entity"
        /\ ~overtaken[e] /\ Flushing(e) => broker[e].mq = 0

PlaceInv == QueuePlace /\ CustomPlace /\ MqPlace

\* Where the messages for e in the queue of the custom scheduler are.
QueuedFor(c, e) == {c[i].msg : i \in {j \in DOMAIN c : c[j].entity = e}}

InQueue(c, e) ==
    \A i, j \in DOMAIN c :
        c[i].entity = e /\ c[j].entity = e /\ i < j => c[i].msg < c[j].msg

\* The stations of a message for an entity of another scheduler, from the last
\* to the first.
Line(e) ==
    [k \in 1 .. 6 |->
        CASE k = 1 -> Elements(executed[e])
          [] k = 2 -> IF executing # Nothing /\ executing.entity = e
                      THEN {executing.msg} ELSE {}
          [] k = 3 -> QueuedFor(customQueue, e)
          [] k = 4 -> Elements(broker[e].default)
          [] k = 5 -> IF Flushing(e) THEN Elements(running.kept) ELSE {}
          [] OTHER -> Elements(broker[e].custom)]

\* What is further down the line arrived before what is not.
Sorted(line) ==
    \A k, l \in 1 .. 6 : k < l => \A m \in line[k], n \in line[l] : m < n

InLine(e) ==
    /\ Sorted(Line(e))
    /\ \A k \in 1 .. 6 : \A m \in Line(e)[k] : m <= sent[e]
    /\ Increasing(executed[e])
    /\ InQueue(customQueue, e)
    /\ Increasing(broker[e].default)
    /\ Flushing(e) => Increasing(running.kept)
    /\ Increasing(broker[e].custom)

LineInv ==
    \A e \in Entities : Scheduler[e] # "default" /\ ~overtaken[e] => InLine(e)

\* The actions in q that will invoke a message for e, whose Mq is mq.
Mine(q, e, mq, i) ==
    q[i].entity = e /\ (q[i].action = "deliver" => q[i].mq = mq)

\* Which message each of them will invoke: one of those kept for each that
\* delivers, its own for an invocation, all after those that are done.
Labelled(q, e, mq, kept, done, label) ==
    /\ \A i, j \in DOMAIN q :
         Mine(q, e, mq, i) /\ Mine(q, e, mq, j) /\ i < j => label[i] < label[j]
    /\ \A i \in DOMAIN q : Mine(q, e, mq, i) =>
         /\ q[i].action = "invoke" => label[i] = q[i].msg
         /\ q[i].action = "deliver" => label[i] \in kept
         /\ \A n \in done : n < label[i]
    /\ \A n \in kept :
         \E i \in DOMAIN q : Mine(q, e, mq, i) /\ q[i].action = "deliver" /\ label[i] = n

Ordered(e) ==
    /\ Increasing(executed[e]) /\ Increasing(broker[e].default)
    /\ \A n \in Elements(executed[e]) : n <= sent[e]
    /\ \E label \in [DOMAIN queue -> 0 .. sent[e]] :
         Labelled(queue, e, broker[e].mq, Elements(broker[e].default),
                  Elements(executed[e]), label)

DefaultInv == \A e \in Entities : Scheduler[e] = "default" => Ordered(e)

\* A sequence stays increasing when a greater element follows, or the first goes.
LEMMA IncreasingAppend ==
    ASSUME NEW s \in Seq(Messages), NEW x \in Messages, Increasing(s),
           \A n \in Elements(s) : n < x
    PROVE  Increasing(Append(s, x))
<1>1. /\ DOMAIN Append(s, x) = DOMAIN s \union {Len(s) + 1}
      /\ \A i \in DOMAIN s : Append(s, x)[i] = s[i] /\ i < Len(s) + 1 /\ i \in Nat
      /\ Append(s, x)[Len(s) + 1] = x /\ Len(s) + 1 \in Nat
  BY Appended
<1>2. \A i \in DOMAIN s : s[i] < x
  BY DEF Elements
<1>. DEFINE t == Append(s, x)
            l == Len(s) + 1
<1>. HIDE DEF t, l
<1>3. /\ DOMAIN t = DOMAIN s \union {l} /\ t[l] = x /\ l \in Nat
      /\ \A i \in DOMAIN s : t[i] = s[i] /\ i < l /\ i \in Nat
  BY <1>1 DEF t, l
<1>4. Increasing(t)
  BY ONLY <1>2, <1>3, Increasing(s) DEF Increasing
<1>5. QED
  BY <1>4 DEF t

LEMMA IncreasingTail ==
    ASSUME NEW s \in Seq(Messages), s # <<>>, Increasing(s)
    PROVE  /\ Increasing(Tail(s))
           /\ Head(s) \in Elements(s) /\ Elements(Tail(s)) \subseteq Elements(s)
           /\ \A n \in Elements(Tail(s)) : Head(s) < n
<1>1. /\ 1 \in DOMAIN s /\ Head(s) = s[1]
      /\ \A i \in DOMAIN Tail(s) :
           i \in Nat \ {0} /\ i + 1 \in DOMAIN s /\ Tail(s)[i] = s[i + 1]
  BY Taken
<1>. DEFINE t == Tail(s)
<1>2. \A i \in DOMAIN t : i \in Nat \ {0} /\ i + 1 \in DOMAIN s /\ t[i] = s[i + 1]
  BY <1>1
<1>. HIDE DEF t
<1>3. Increasing(t)
  BY ONLY <1>2, Increasing(s) DEF Increasing
<1>4. \A n \in Elements(t) : s[1] < n /\ n \in Elements(s)
  BY ONLY <1>1, <1>2, Increasing(s) DEF Increasing, Elements
<1>5. QED
  BY <1>1, <1>3, <1>4 DEF t, Elements

LEMMA IncreasingNothing == Increasing(<<>>) /\ Elements(<<>>) = {}
BY DEF Increasing, Elements

\* The same for the messages of one entity in the queue.
LEMMA InQueueAppend ==
    ASSUME NEW c \in Seq(Invocations), NEW x \in Invocations, NEW e
    PROVE  /\ x.entity = e => QueuedFor(Append(c, x), e) = QueuedFor(c, e) \union {x.msg}
           /\ x.entity # e => QueuedFor(Append(c, x), e) = QueuedFor(c, e)
           /\ InQueue(c, e) /\ (x.entity = e => \A n \in QueuedFor(c, e) : n < x.msg)
                => InQueue(Append(c, x), e)
<1>1. /\ DOMAIN Append(c, x) = DOMAIN c \union {Len(c) + 1}
      /\ \A i \in DOMAIN c : Append(c, x)[i] = c[i] /\ i < Len(c) + 1 /\ i \in Nat
      /\ Append(c, x)[Len(c) + 1] = x /\ Len(c) + 1 \in Nat /\ Len(c) + 1 \notin DOMAIN c
  BY Appended
<1>. DEFINE t == Append(c, x)
            l == Len(c) + 1
<1>. HIDE DEF t, l
<1>2. /\ DOMAIN t = DOMAIN c \union {l} /\ t[l] = x /\ l \in Nat /\ l \notin DOMAIN c
      /\ \A i \in DOMAIN c : t[i] = c[i] /\ i < l /\ i \in Nat
  BY <1>1 DEF t, l
<1>3. x.entity = e => QueuedFor(t, e) = QueuedFor(c, e) \union {x.msg}
  BY ONLY <1>2 DEF QueuedFor
<1>4. x.entity # e => QueuedFor(t, e) = QueuedFor(c, e)
  BY ONLY <1>2 DEF QueuedFor
<1>5. ASSUME InQueue(c, e), x.entity = e => \A n \in QueuedFor(c, e) : n < x.msg
      PROVE  InQueue(t, e)
  <2>1. \A i \in DOMAIN c : c[i].entity = e /\ x.entity = e => c[i].msg < x.msg
    BY ONLY <1>5 DEF QueuedFor
  <2>2. QED
    BY ONLY <1>2, <1>5, <2>1 DEF InQueue
<1>6. QED
  BY <1>3, <1>4, <1>5 DEF t

LEMMA InQueueTail ==
    ASSUME NEW c \in Seq(Invocations), c # <<>>, NEW e
    PROVE  /\ QueuedFor(Tail(c), e) \subseteq QueuedFor(c, e)
           /\ Head(c).entity = e => Head(c).msg \in QueuedFor(c, e)
           /\ InQueue(c, e) => InQueue(Tail(c), e)
           /\ InQueue(c, e) /\ Head(c).entity = e =>
                \A n \in QueuedFor(Tail(c), e) : Head(c).msg < n
<1>1. /\ 1 \in DOMAIN c /\ Head(c) = c[1]
      /\ \A i \in DOMAIN Tail(c) :
           i \in Nat \ {0} /\ i + 1 \in DOMAIN c /\ Tail(c)[i] = c[i + 1]
  BY Taken
<1>. DEFINE t == Tail(c)
            h == Head(c)
<1>2. /\ 1 \in DOMAIN c /\ h = c[1]
      /\ \A i \in DOMAIN t : i \in Nat \ {0} /\ i + 1 \in DOMAIN c /\ t[i] = c[i + 1]
  BY <1>1
<1>. HIDE DEF t, h
<1>3. QueuedFor(t, e) \subseteq QueuedFor(c, e)
  BY ONLY <1>2 DEF QueuedFor
<1>4. h.entity = e => h.msg \in QueuedFor(c, e)
  BY ONLY <1>2 DEF QueuedFor
<1>5. InQueue(c, e) => InQueue(t, e)
  BY ONLY <1>2 DEF InQueue
<1>6. InQueue(c, e) /\ h.entity = e => \A n \in QueuedFor(t, e) : h.msg < n
  BY ONLY <1>2 DEF InQueue, QueuedFor
<1>7. QED
  BY <1>3, <1>4, <1>5, <1>6 DEF t, h

\* The messages of an entity are counted, and what passed is remembered.
LEMMA HistoryGrows ==
    ASSUME BrokerTypeOK, [BrokerNext]_vars
    PROVE  \A e \in Entities :
             /\ sent[e] \in Nat /\ sent'[e] \in Nat /\ sent[e] <= sent'[e]
             /\ overtaken[e] => overtaken'[e]
<1>1. sent \in [Entities -> Nat] /\ overtaken \in [Entities -> BOOLEAN]
  BY DEF BrokerTypeOK
<1>2. ASSUME NEW e \in Entities, Keep(e) \/ DispatchNow(e) \/ KeepForCustom(e)
      PROVE  \A f \in Entities : /\ sent'[f] \in Nat /\ sent[f] <= sent'[f]
                                 /\ overtaken[f] => overtaken'[f]
  <2>1. sent' = [sent EXCEPT ![e] = @ + 1]
    BY <1>2 DEF Keep, DispatchNow, KeepForCustom, Arrives
  <2>2. \A f \in Entities : sent'[f] \in Nat /\ sent[f] <= sent'[f]
    BY ONLY <1>1, <2>1
  <2>3. \A f \in Entities : overtaken[f] => overtaken'[f]
    BY <1>1, <1>2 DEF Keep, DispatchNow, KeepForCustom
  <2>4. QED
    BY <2>2, <2>3
<1>3. CASE DefaultStep \/ Collide \/ CustomStep \/ UNCHANGED vars
  <2>1. UNCHANGED <<sent, overtaken>>
    BY <1>3 DEF DefaultStep, RunInvoke, RunDangling, RunDeliver, Runs, Check, Erase, Flush,
                FlushNull, Unlocked, Unbind, Collide, CustomStep, CustomTest, CustomExecute,
                vars
  <2>2. QED
    BY ONLY <1>1, <2>1
<1>4. ASSUME NEW e \in Entities, Bind(e) \/ Unsubscribe(e)
      PROVE  \A f \in Entities : /\ sent'[f] \in Nat /\ sent[f] <= sent'[f]
                                 /\ overtaken[f] => overtaken'[f]
  BY <1>1, <1>4 DEF Bind, Unsubscribe
<1>5. QED
  BY <1>1, <1>2, <1>3, <1>4 DEF BrokerNext

\* What the queues gain is an invocation for the scheduler of its entity.
LEMMA QueueGains ==
    ASSUME BrokerTypeOK, NEW e \in Entities, NEW m \in Messages, QueueInvocation(e, m)
    PROVE  /\ Scheduler[e] = "default" =>
                /\ Elements(queue') = Elements(queue) \union {Invoke(e, m)}
                /\ UNCHANGED <<customQueue, executed>>
           /\ Scheduler[e] # "default" => queue' = queue
           /\ Scheduler[e] = "custom" =>
                /\ Elements(customQueue') = Elements(customQueue) \union {Invocation(e, m)}
                /\ UNCHANGED executed
           /\ Scheduler[e] # "custom" => customQueue' = customQueue
<1>1. Scheduler[e] \in {"default", "custom", "synchronous"}
  BY MessageBrokerAssumption
<1>2. /\ queue \in Seq(Deliveries \union Invokes) /\ customQueue \in Seq(Invocations)
      /\ Invoke(e, m) \in Deliveries \union Invokes /\ Invocation(e, m) \in Invocations
  BY QueuedFields DEF BrokerTypeOK
<1>. DEFINE q == Invoke(e, m)
            c == Invocation(e, m)
<1>. HIDE DEF q, c
<1>3. queue \in Seq(Deliveries \union Invokes) /\ q \in Deliveries \union Invokes
  BY <1>2 DEF q
<1>4. Elements(Append(queue, q)) = Elements(queue) \union {q}
  BY ONLY <1>3, ElementsOfAppend
<1>5. customQueue \in Seq(Invocations) /\ c \in Invocations
  BY <1>2 DEF c
<1>6. Elements(Append(customQueue, c)) = Elements(customQueue) \union {c}
  BY ONLY <1>5, ElementsOfAppend
<1>7. /\ Scheduler[e] = "default" =>
           queue' = Append(queue, q) /\ UNCHANGED <<customQueue, executed>>
      /\ Scheduler[e] = "custom" =>
           customQueue' = Append(customQueue, c) /\ UNCHANGED <<queue, executed>>
      /\ Scheduler[e] = "synchronous" => UNCHANGED <<queue, customQueue>>
  BY DEF QueueInvocation, q, c
<1>8. QED
  BY ONLY <1>1, <1>4, <1>6, <1>7 DEF q, c

LEMMA QueuePlaceStep ==
    ASSUME BrokerTypeOK, QueuePlace, MqPlace, [BrokerNext]_vars
    PROVE  QueuePlace'
<1>0. /\ queue \in Seq(Deliveries \union Invokes) /\ running \in Actions
      /\ \A e \in Entities : /\ sent[e] \in Nat /\ sent'[e] \in Nat /\ sent[e] <= sent'[e]
      /\ \A q \in Elements(queue) : q \in Deliveries \union Invokes
  <2>1. \A q \in Elements(queue) : q \in Deliveries \union Invokes
    BY DEF BrokerTypeOK, Elements
  <2>2. QED
    BY <2>1, HistoryGrows DEF BrokerTypeOK
<1>. DEFINE Right(q) == /\ q.action = "invoke" => Scheduler[q.entity] = "default"
                        /\ q.action = "deliver" => q.mq \in 1 .. sent'[q.entity]
<1>1. SUFFICES \A q \in Elements(queue') : Right(q)
  BY DEF QueuePlace
<1>2. \A q \in Elements(queue) : Right(q)
  <2>1. SUFFICES ASSUME NEW q \in Elements(queue) PROVE Right(q)
    OBVIOUS
  <2>2. q.entity \in Entities
    BY <1>0, QueuedFields
  <2>3. QED
    BY <1>0, <2>2 DEF QueuePlace
<1>3. ASSUME Elements(queue') \subseteq Elements(queue)
      PROVE  \A q \in Elements(queue') : Right(q)
  BY <1>2, <1>3
<1>4. ASSUME NEW e \in Entities, NEW m \in Messages, QueueInvocation(e, m)
      PROVE  \A q \in Elements(queue') : Right(q)
  <2>1. CASE Scheduler[e] = "default"
    <3>1. Elements(queue') = Elements(queue) \union {Invoke(e, m)}
      BY <1>4, <2>1, QueueGains
    <3>2. Invoke(e, m).entity = e /\ Invoke(e, m).action = "invoke"
      BY QueuedFields
    <3>3. Right(Invoke(e, m))
      BY <2>1, <3>2
    <3>. HIDE DEF Right
    <3>4. QED
      BY <1>2, <3>1, <3>3
  <2>2. CASE Scheduler[e] # "default"
    BY <1>2, <1>4, <2>2, QueueGains
  <2>3. QED
    BY <2>1, <2>2
<1>5. ASSUME NEW e \in Entities, Keep(e) PROVE \A q \in Elements(queue') : Right(q)
  <2>. DEFINE mq == IF broker[e].mq = 0 THEN sent[e] + 1 ELSE broker[e].mq
              d  == Deliver(e, mq)
  <2>1. broker[e].mq <= sent[e] /\ broker[e].mq \in Nat
    BY DEF BrokerTypeOK, MqPlace, Mqs
  <2>2. sent'[e] = sent[e] + 1
    BY <1>5, ArrivesTypes DEF Keep
  <2>3. mq \in 1 .. sent'[e] /\ mq \in Nat
    BY <1>0, <2>1, <2>2
  <2>4. queue' = Append(queue, d)
    BY <1>5 DEF Keep
  <2>. HIDE DEF mq
  <2>5. d.entity = e /\ d.action = "deliver" /\ d.mq = mq /\ d \in Deliveries \union Invokes
    BY <2>3, QueuedFields
  <2>. HIDE DEF d
  <2>6. Elements(queue') = Elements(queue) \union {d}
    BY ONLY <1>0, <2>4, <2>5, ElementsOfAppend
  <2>7. Right(d)
    BY <2>3, <2>5
  <2>. HIDE DEF Right
  <2>8. QED
    BY ONLY <1>2, <2>6, <2>7
<1>6. ASSUME NEW e \in Entities, DispatchNow(e)
      PROVE  \A q \in Elements(queue') : Right(q)
  <2>1. sent[e] + 1 \in Messages /\ QueueInvocation(e, sent[e] + 1)
    BY <1>6, ArrivesTypes DEF DispatchNow
  <2>. HIDE DEF Right
  <2>2. QED
    BY <1>4, <2>1
<1>7. CASE Flush
  <2>1. /\ running.entity \in Entities /\ running.kept \in Seq(Messages)
        /\ running.kept # <<>> /\ QueueInvocation(running.entity, Head(running.kept))
    BY <1>0, <1>7, ActionFields DEF Flush
  <2>2. Head(running.kept) \in Messages
    BY ONLY <2>1, TailTypes
  <2>. HIDE DEF Right
  <2>3. QED
    BY <1>4, <2>1, <2>2
<1>8. CASE RunInvoke \/ RunDeliver
  <2>1. queue # <<>> /\ queue' = Tail(queue)
    BY <1>8 DEF RunInvoke, RunDeliver, Runs
  <2>2. Elements(queue') \subseteq Elements(queue)
    BY ONLY <1>0, <2>1, ElementsOfTail
  <2>. HIDE DEF Right
  <2>3. QED
    BY <1>3, <2>2
<1>9. CASE queue' = queue
  BY <1>2, <1>9
<1>10. ASSUME NEW e \in Entities, KeepForCustom(e) \/ Bind(e) \/ Unsubscribe(e)
       PROVE  queue' = queue
  BY <1>10 DEF KeepForCustom, Bind, Unsubscribe, queueVars
<1>11. CASE RunDangling \/ Check \/ Erase \/ FlushNull \/ Unbind \/ Collide \/ CustomStep
              \/ UNCHANGED vars
  <2>1. queue' = queue
    BY <1>11 DEF RunDangling, Check, Erase, FlushNull, Unbind, Collide, CustomStep,
                 CustomTest, CustomExecute, vars, queueVars
  <2>2. QED
    BY <1>9, <2>1
<1>. HIDE DEF Right
<1>12. QED
  BY <1>5, <1>6, <1>7, <1>8, <1>9, <1>10, <1>11 DEF BrokerNext, DefaultStep

LEMMA CustomPlaceStep ==
    ASSUME BrokerTypeOK, CustomPlace, [BrokerNext]_vars
    PROVE  CustomPlace'
<1>0. /\ customQueue \in Seq(Invocations) /\ queue \in Seq(Deliveries \union Invokes)
      /\ running \in Actions
  BY DEF BrokerTypeOK
<1>1. ASSUME NEW e \in Entities, NEW m \in Messages, executing' = executing,
             QueueInvocation(e, m)
      PROVE  CustomPlace'
  <2>1. Invocation(e, m).entity = e
    BY QueuedFields
  <2>2. CASE Scheduler[e] = "custom"
    <3>1. Elements(customQueue') = Elements(customQueue) \union {Invocation(e, m)}
      BY <1>1, <2>2, QueueGains
    <3>2. QED
      BY ONLY <1>1, <2>1, <2>2, <3>1, CustomPlace DEF CustomPlace
  <2>3. CASE Scheduler[e] # "custom"
    <3>1. customQueue' = customQueue
      BY <1>1, <2>3, QueueGains
    <3>2. QED
      BY ONLY <1>1, <3>1, CustomPlace DEF CustomPlace
  <2>4. QED
    BY <2>2, <2>3
<1>2. ASSUME NEW e \in Entities, DispatchNow(e) PROVE CustomPlace'
  <2>1. /\ sent[e] + 1 \in Messages /\ QueueInvocation(e, sent[e] + 1)
        /\ executing' = executing
    BY <1>2, ArrivesTypes DEF DispatchNow
  <2>2. QED
    BY <1>1, <2>1
<1>3. CASE Flush
  <2>1. /\ running.entity \in Entities /\ running.kept \in Seq(Messages)
        /\ running.kept # <<>> /\ QueueInvocation(running.entity, Head(running.kept))
        /\ executing' = executing
    BY <1>0, <1>3, ActionFields DEF Flush, Unlocked
  <2>2. Head(running.kept) \in Messages
    BY ONLY <2>1, TailTypes
  <2>3. QED
    BY <1>1, <2>1, <2>2
<1>4. CASE RunDeliver
  <2>. DEFINE e == Head(queue).entity
              first == broker[e].default
              c == Invocation(e, Head(first))
  <2>1. executing' = executing /\ queue # <<>>
    BY <1>4 DEF RunDeliver, Runs
  <2>2. CASE customQueue' = customQueue
    BY ONLY <2>1, <2>2, CustomPlace DEF CustomPlace
  <2>3. CASE customQueue' # customQueue
    <3>1. Scheduler[e] = "custom" /\ first # <<>> /\ customQueue' = Append(customQueue, c)
      BY <1>4, <2>3 DEF RunDeliver
    <3>2. e \in Entities
      BY <1>0, <2>1, TailTypes, QueuedFields
    <3>3. first \in Seq(Messages)
      BY <3>2 DEF BrokerTypeOK, Mqs
    <3>4. Head(first) \in Messages
      BY <3>1, <3>3, TailTypes
    <3>. HIDE DEF e, first
    <3>5. c \in Invocations /\ c.entity = e
      BY <3>2, <3>4, QueuedFields
    <3>. HIDE DEF c
    <3>6. Elements(customQueue') = Elements(customQueue) \union {c}
      BY ONLY <1>0, <3>1, <3>5, ElementsOfAppend
    <3>7. QED
      BY ONLY <2>1, <3>1, <3>5, <3>6, CustomPlace DEF CustomPlace
  <2>4. QED
    BY <2>2, <2>3
<1>5. CASE CustomTest
  <2>. DEFINE head == Head(customQueue)
  <2>1. /\ customQueue # <<>> /\ customQueue' = Tail(customQueue)
        /\ executing' = IF ExistsId(head.entity) THEN head ELSE Nothing
    BY <1>5 DEF CustomTest
  <2>. HIDE DEF head
  <2>2. Elements(customQueue) = {head} \union Elements(customQueue')
    BY ONLY <1>0, <2>1, ElementsOfTail DEF head
  <2>3. QED
    BY ONLY <2>1, <2>2, CustomPlace DEF CustomPlace
<1>6. CASE CustomExecute
  <2>1. customQueue' = customQueue /\ executing' = Nothing
    BY <1>6 DEF CustomExecute, queueVars
  <2>2. QED
    BY ONLY <2>1, CustomPlace DEF CustomPlace
<1>7. CASE UNCHANGED <<customQueue, executing>>
  BY ONLY <1>7, CustomPlace DEF CustomPlace
<1>8. ASSUME NEW e \in Entities, Keep(e) \/ KeepForCustom(e) \/ Bind(e) \/ Unsubscribe(e)
      PROVE  UNCHANGED <<customQueue, executing>>
  BY <1>8 DEF Keep, KeepForCustom, Arrives, Bind, Unsubscribe, queueVars
<1>9. CASE RunInvoke \/ RunDangling \/ Check \/ Erase \/ FlushNull \/ Unbind \/ Collide
             \/ UNCHANGED vars
  <2>1. UNCHANGED <<customQueue, executing>>
    BY <1>9 DEF RunInvoke, RunDangling, Runs, Check, Erase, FlushNull, Unbind, Collide,
                Unlocked, vars, queueVars
  <2>2. QED
    BY <1>7, <2>1
<1>10. QED
  BY <1>2, <1>3, <1>4, <1>5, <1>6, <1>7, <1>8, <1>9 DEF BrokerNext, DefaultStep, CustomStep

LEMMA MqPlaceStep ==
    ASSUME BrokerTypeOK, MqPlace, [BrokerNext]_vars
    PROVE  MqPlace'
<1>0. /\ subscriptions \in [Entities -> {"absent", "null", "entity"}]
      /\ broker \in [Entities -> Mqs] /\ running \in Actions
      /\ overtaken \in [Entities -> BOOLEAN]
      /\ \A e \in Entities : broker[e] \in Mqs /\ broker[e].mq \in Nat
      /\ Idle.at = "idle"
  BY NoMqTypes DEF BrokerTypeOK, Mqs
<1>1. \A e \in Entities :
         /\ sent[e] \in Nat /\ sent'[e] \in Nat /\ sent[e] <= sent'[e]
         /\ overtaken[e] => overtaken'[e]
  BY HistoryGrows
<1>. DEFINE
       Held1(f) == /\ broker'[f].mq <= sent'[f]
                   /\ Scheduler[f] = "default" => broker'[f].custom = <<>> /\ ~Flushing(f)'
       Held2(f) == /\ ~overtaken'[f] /\ (broker'[f].custom # <<>> \/ Flushing(f)')
                        => subscriptions'[f] = "entity"
                   /\ ~overtaken'[f] /\ Flushing(f)' => broker'[f].mq = 0
       Quiet(f) == /\ broker'[f].mq = broker[f].mq /\ broker'[f].custom = broker[f].custom
                   /\ Flushing(f)' => Flushing(f)
                   /\ subscriptions[f] = "entity" => subscriptions'[f] = "entity"
<1>2. ASSUME NEW f \in Entities, Quiet(f) PROVE Held1(f) /\ Held2(f)
  <2>1. broker[f].mq <= sent'[f]
    <3>1. broker[f].mq <= sent[f]
      BY DEF MqPlace
    <3>2. QED
      BY ONLY <1>0, <1>1, <3>1, f \in Entities
  <2>2. QED
    BY ONLY <1>1, <1>2, <2>1, f \in Entities, MqPlace DEF MqPlace
<1>3. ASSUME NEW e \in Entities, Keep(e), NEW f \in Entities PROVE Held1(f) /\ Held2(f)
  <2>. DEFINE mq == IF broker[e].mq = 0 THEN sent[e] + 1 ELSE broker[e].mq
  <2>1. /\ subscriptions[e] # "entity" /\ subscriptions' = [subscriptions EXCEPT ![e] = "null"]
        /\ broker' = [broker EXCEPT ![e].mq = mq, ![e].default = Append(@, sent[e] + 1)]
        /\ overtaken' = overtaken
    BY <1>3 DEF Keep
  <2>2. sent[e] + 1 \in Messages /\ running' = running /\ sent'[e] = sent[e] + 1
    BY <1>3, ArrivesTypes DEF Keep
  <2>3. mq \in Nat /\ mq <= sent'[e]
    <3>1. broker[e].mq <= sent[e]
      BY DEF MqPlace
    <3>2. QED
      BY <1>0, <1>1, <2>2, <3>1
  <2>. HIDE DEF mq
  <2>4. /\ broker'[e] = [mq |-> mq, default |-> Append(broker[e].default, sent[e] + 1),
                         custom |-> broker[e].custom]
        /\ f # e => broker'[f] = broker[f]
    BY <2>1, <2>2, <2>3, KeepBroker
  <2>5. broker'[e].mq = mq /\ broker'[e].custom = broker[e].custom
    BY ONLY <2>4
  <2>6. Flushing(f)' = Flushing(f)
    BY ONLY <2>2 DEF Flushing
  <2>7. CASE f = e
    <3>1. /\ Scheduler[e] = "default" => broker[e].custom = <<>> /\ ~Flushing(e)
          /\ ~overtaken[e] => broker[e].custom = <<>> /\ ~Flushing(e)
      BY <2>1 DEF MqPlace
    <3>2. QED
      BY ONLY <2>1, <2>3, <2>5, <2>6, <2>7, <3>1
  <2>8. CASE f # e
    <3>1. subscriptions'[f] = subscriptions[f]
      BY ONLY <1>0, <2>1, <2>8
    <3>2. Quiet(f)
      BY ONLY <2>4, <2>6, <2>8, <3>1
    <3>. HIDE DEF Quiet, Held1, Held2
    <3>3. QED
      BY <1>2, <3>2
  <2>9. QED
    BY <2>7, <2>8
<1>4. ASSUME NEW e \in Entities, KeepForCustom(e), NEW f \in Entities
      PROVE  Held1(f) /\ Held2(f)
  <2>1. /\ broker' = [broker EXCEPT ![e].custom = Append(@, sent[e] + 1)]
        /\ subscriptions[e] = "entity" /\ ~Passes(e) /\ running' = running
        /\ UNCHANGED <<subscriptions, overtaken>>
    BY <1>4 DEF KeepForCustom, Arrives
  <2>2. Flushing(f)' = Flushing(f)
    BY ONLY <2>1 DEF Flushing
  <2>3. Scheduler[e] # "default" /\ broker[e].mq # 0
    BY <2>1 DEF Passes
  <2>4. broker'[e].mq = broker[e].mq /\ (f # e => broker'[f] = broker[f])
    BY ONLY <1>0, <2>1 DEF Mqs
  <2>5. CASE f = e
    <3>1. broker[e].mq <= sent'[e]
      <4>1. broker[e].mq <= sent[e]
        BY DEF MqPlace
      <4>2. QED
        BY ONLY <1>0, <1>1, <4>1, e \in Entities
    <3>2. ~overtaken[e] /\ Flushing(e) => broker[e].mq = 0
      BY DEF MqPlace
    <3>3. QED
      BY ONLY <2>1, <2>2, <2>3, <2>4, <2>5, <3>1, <3>2
  <2>6. CASE f # e
    <3>1. Quiet(f)
      BY ONLY <2>1, <2>2, <2>4, <2>6
    <3>. HIDE DEF Quiet, Held1, Held2
    <3>2. QED
      BY <1>2, <3>1
  <2>7. QED
    BY <2>5, <2>6
<1>5. ASSUME RunDeliver, NEW f \in Entities PROVE Quiet(f)
  <2>. DEFINE e == Head(queue).entity
              first == broker[e].default
  <2>1. /\ IF first # <<>> THEN broker' = [broker EXCEPT ![e].default = Tail(@)]
                           ELSE UNCHANGED broker
        /\ subscriptions' = [subscriptions EXCEPT ![e] = IF @ = "absent" THEN "null" ELSE @]
        /\ running'.at = "check"
    BY <1>5 DEF RunDeliver
  <2>. HIDE DEF e, first
  <2>2. broker'[f].mq = broker[f].mq /\ broker'[f].custom = broker[f].custom
    <3>1. CASE first = <<>>
      BY <2>1, <3>1
    <3>2. CASE first # <<>>
      <4>1. broker' = [broker EXCEPT ![e].default = Tail(@)]
        BY <2>1, <3>2
      <4>2. CASE e = f
        BY ONLY <1>0, <4>1, <4>2, f \in Entities DEF Mqs
      <4>3. CASE e # f
        BY ONLY <1>0, <4>1, <4>3, f \in Entities
      <4>4. QED
        BY <4>2, <4>3
    <3>3. QED
      BY <3>1, <3>2
  <2>3. subscriptions[f] = "entity" => subscriptions'[f] = "entity"
    BY ONLY <1>0, <2>1, f \in Entities
  <2>4. QED
    BY ONLY <2>1, <2>2, <2>3 DEF Flushing
<1>6. ASSUME Erase, NEW f \in Entities PROVE Held1(f) /\ Held2(f)
  <2>. DEFINE e    == running.entity
              kept == broker[e].custom
  <2>1. /\ e \in Entities /\ running.at = "erase"
        /\ broker' = [broker EXCEPT ![e] = NoMq]
        /\ running' = IF kept = <<>> THEN Idle
                      ELSE [at |-> "flush", entity |-> e, bound |-> running.bound,
                            kept |-> kept]
        /\ UNCHANGED <<subscriptions, overtaken>>
    BY <1>0, <1>6, ActionFields DEF Erase, Unlocked
  <2>2. NoMq.mq = 0 /\ NoMq.custom = <<>>
    BY DEF NoMq
  <2>3. Flushing(f)' => f = e /\ kept # <<>>
    <3>. HIDE DEF e, kept
    <3>1. QED
      BY ONLY <1>0, <2>1 DEF Flushing
  <2>4. CASE f = e
    <3>1. broker'[e] = NoMq
      BY ONLY <1>0, <2>1
    <3>2. /\ Scheduler[e] = "default" => kept = <<>>
          /\ ~overtaken[e] /\ kept # <<>> => subscriptions[e] = "entity"
      BY <2>1 DEF MqPlace
    <3>3. QED
      BY ONLY <1>1, <2>1, <2>2, <2>3, <2>4, <3>1, <3>2
  <2>5. CASE f # e
    <3>1. Quiet(f)
      BY ONLY <1>0, <2>1, <2>3, <2>5, f \in Entities
    <3>. HIDE DEF Quiet, Held1, Held2
    <3>2. QED
      BY <1>2, <3>1
  <2>6. QED
    BY <2>4, <2>5
<1>7. ASSUME Flush, NEW f \in Entities PROVE Quiet(f)
  <2>1. /\ running' = IF Len(running.kept) = 1 THEN Idle ELSE [running EXCEPT !.kept = Tail(@)]
        /\ running.at = "flush" /\ UNCHANGED <<broker, subscriptions>>
    BY <1>7 DEF Flush, Unlocked
  <2>2. Flushing(f)' => Flushing(f)
    BY <1>0, <2>1, ActionFields DEF Flushing
  <2>3. QED
    BY ONLY <2>1, <2>2
<1>8. ASSUME NEW e \in Entities, Unsubscribe(e), NEW f \in Entities
      PROVE  Held1(f) /\ Held2(f)
  <2>1. /\ subscriptions' = [subscriptions EXCEPT ![e] = "absent"]
        /\ broker' = broker /\ running'.at = "unbind"
        /\ overtaken' = [overtaken EXCEPT ![e] = @ \/ broker[e].custom # <<>>]
    BY <1>8 DEF Unsubscribe
  <2>2. ~Flushing(f)'
    BY ONLY <2>1 DEF Flushing
  <2>3. CASE f = e
    <3>1. ~overtaken'[e] => broker[e].custom = <<>>
      BY <1>0, <2>1
    <3>2. /\ broker[e].mq <= sent[e]
          /\ Scheduler[e] = "default" => broker[e].custom = <<>>
      BY DEF MqPlace
    <3>3. broker[e].mq <= sent'[e]
      BY ONLY <1>0, <1>1, <3>2, e \in Entities
    <3>4. QED
      BY ONLY <2>1, <2>2, <2>3, <3>1, <3>2, <3>3
  <2>4. CASE f # e
    <3>1. Quiet(f)
      BY ONLY <1>0, <2>1, <2>2, <2>4, f \in Entities
    <3>. HIDE DEF Quiet, Held1, Held2
    <3>2. QED
      BY <1>2, <3>1
  <2>5. QED
    BY <2>3, <2>4
<1>9. ASSUME NEW e \in Entities, DispatchNow(e) \/ Bind(e), NEW f \in Entities
      PROVE  Quiet(f)
  <2>1. /\ UNCHANGED <<broker, running>>
        /\ subscriptions' = subscriptions \/ subscriptions' = [subscriptions EXCEPT ![e] = "entity"]
    BY <1>9 DEF DispatchNow, Arrives, Bind, brokerVars
  <2>2. QED
    BY ONLY <1>0, <2>1, f \in Entities DEF Flushing
<1>10. ASSUME RunInvoke \/ RunDangling \/ Check \/ FlushNull \/ Unbind \/ Collide \/ CustomStep
                \/ UNCHANGED vars,
              NEW f \in Entities
       PROVE  Quiet(f)
  <2>1. UNCHANGED <<broker, subscriptions>>
    BY <1>10 DEF RunInvoke, RunDangling, Check, FlushNull, Unbind, Collide, Unlocked, CustomStep,
                 CustomTest, CustomExecute, vars, brokerVars
  <2>2. running' = running \/ running'.at # "flush"
    <3>1. CASE Check
      BY <1>0, <3>1, ActionFields DEF Check
    <3>2. CASE Unbind
      BY <1>0, <3>2 DEF Unbind
    <3>3. CASE ~Check /\ ~Unbind
      BY <1>10, <3>3 DEF RunInvoke, RunDangling, Runs, FlushNull, Collide, CustomStep,
                         CustomTest, CustomExecute, vars
    <3>4. QED
      BY <3>1, <3>2, <3>3
  <2>3. QED
    BY ONLY <2>1, <2>2 DEF Flushing
<1>11. SUFFICES ASSUME NEW f \in Entities PROVE Held1(f) /\ Held2(f)
  BY DEF MqPlace
<1>. HIDE DEF Quiet, Held1, Held2
<1>12. QED
  BY <1>2, <1>3, <1>4, <1>5, <1>6, <1>7, <1>8, <1>9, <1>10 DEF BrokerNext, DefaultStep

LEMMA PlaceStep == BrokerTypeOK /\ PlaceInv /\ [BrokerNext]_vars => PlaceInv'
<1>. SUFFICES ASSUME BrokerTypeOK, PlaceInv, [BrokerNext]_vars PROVE PlaceInv'
  OBVIOUS
<1>1. QED
  BY QueuePlaceStep, CustomPlaceStep, MqPlaceStep DEF PlaceInv

LEMMA PlaceInit == BrokerInit => PlaceInv
<1>. SUFFICES ASSUME BrokerInit PROVE PlaceInv
  OBVIOUS
<1>1. Idle.at = "idle" /\ NoMq.mq = 0 /\ NoMq.custom = <<>>
  BY DEF Idle, NoMq
<1>2. QED
  BY <1>1, ElementsOfNothing DEF BrokerInit, PlaceInv, QueuePlace, CustomPlace, MqPlace,
                                 Flushing

\* The stations of the line, before and after a step.
LEMMA Stations ==
    \A e : /\ Line(e)[1] = Elements(executed[e])
           /\ Line(e)[2] = IF executing # Nothing /\ executing.entity = e
                           THEN {executing.msg} ELSE {}
           /\ Line(e)[3] = QueuedFor(customQueue, e)
           /\ Line(e)[4] = Elements(broker[e].default)
           /\ Line(e)[5] = IF Flushing(e) THEN Elements(running.kept) ELSE {}
           /\ Line(e)[6] = Elements(broker[e].custom)
BY DEF Line

LEMMA StationsThen ==
    \A e : /\ Line(e)'[1] = Elements(executed'[e])
           /\ Line(e)'[2] = IF executing' # Nothing /\ executing'.entity = e
                            THEN {executing'.msg} ELSE {}
           /\ Line(e)'[3] = QueuedFor(customQueue', e)
           /\ Line(e)'[4] = Elements(broker'[e].default)
           /\ Line(e)'[5] = IF Flushing(e)' THEN Elements(running'.kept) ELSE {}
           /\ Line(e)'[6] = Elements(broker'[e].custom)
BY DEF Line, Elements, QueuedFor, Nothing

LEMMA LineTypes ==
    ASSUME BrokerTypeOK, NEW e \in Entities, NEW k \in 1 .. 6
    PROVE  Line(e)[k] \subseteq Messages
<1>1. /\ executed[e] \in Seq(Messages) /\ customQueue \in Seq(Invocations)
      /\ broker[e] \in Mqs /\ broker[e].default \in Seq(Messages)
      /\ broker[e].custom \in Seq(Messages)
      /\ executing \in {Nothing} \union Invocations
      /\ Flushing(e) => running.kept \in Seq(Messages)
  <2>1. broker[e] \in Mqs /\ running \in Actions
    BY DEF BrokerTypeOK
  <2>2. Flushing(e) => running.kept \in Seq(Messages)
    BY ONLY <2>1, ActionFields DEF Flushing
  <2>3. broker[e].default \in Seq(Messages) /\ broker[e].custom \in Seq(Messages)
    BY ONLY <2>1 DEF Mqs
  <2>4. QED
    BY <2>1, <2>2, <2>3 DEF BrokerTypeOK
<1>2. \A s \in Seq(Messages) : Elements(s) \subseteq Messages
  BY DEF Elements
<1>3. QueuedFor(customQueue, e) \subseteq Messages
  <2>1. \A i \in DOMAIN customQueue : customQueue[i] \in Invocations
    BY <1>1
  <2>2. QED
    BY <2>1, QueuedFields DEF QueuedFor
<1>4. executing # Nothing => executing.msg \in Messages
  BY <1>1, QueuedFields
<1>5. k \in {1, 2, 3, 4, 5, 6}
  OBVIOUS
<1>6. QED
  BY ONLY <1>1, <1>2, <1>3, <1>4, <1>5, Stations

\* A message may go down the line past stations where nothing is left.
LEMMA Moves ==
    ASSUME NEW P, NEW Q, NEW h, NEW k \in 1 .. 6, Sorted(P),
           \A j \in 1 .. 6 : j # k => Q[j] \subseteq P[j],
           Q[k] \subseteq P[k] \union {h},
           \A j \in 1 .. 6 : j <= k => \A m \in P[j] : m < h,
           \A j \in 1 .. 6 : k < j => \A m \in Q[j] : h < m
    PROVE  Sorted(Q)
<1>. SUFFICES ASSUME NEW i \in 1 .. 6, NEW j \in 1 .. 6, i < j, NEW m \in Q[i], NEW n \in Q[j]
              PROVE  m < n
  BY DEF Sorted
<1>1. CASE i = k
  <2>1. n \in P[j]
    BY <1>1
  <2>2. m \in P[i] => m < n
    BY <2>1 DEF Sorted
  <2>3. m = h => m < n
    BY <1>1
  <2>4. QED
    BY <1>1, <2>2, <2>3
<1>2. CASE j = k
  <2>1. m \in P[i]
    BY <1>2
  <2>2. n \in P[j] => m < n
    BY <2>1 DEF Sorted
  <2>3. n = h => m < n
    BY <1>2, <2>1
  <2>4. QED
    BY <1>2, <2>2, <2>3
<1>3. CASE i # k /\ j # k
  BY <1>3 DEF Sorted
<1>4. QED
  BY <1>1, <1>2, <1>3

Bounded(line, n) == \A k \in 1 .. 6 : \A m \in line[k] : m <= n

\* Nothing new in the line of f.
LEMMA LineShrinks ==
    ASSUME BrokerTypeOK, NEW f \in Entities, InLine(f),
           sent[f] \in Nat, sent'[f] \in Nat, sent[f] <= sent'[f],
           \A j \in 1 .. 6 : Line(f)'[j] \subseteq Line(f)[j]
    PROVE  Sorted(Line(f)') /\ Bounded(Line(f)', sent'[f])
<1>1. Sorted(Line(f)) /\ \A k \in 1 .. 6 : \A m \in Line(f)[k] : m <= sent[f] /\ m \in Nat
  BY LineTypes DEF InLine, Messages
<1>2. Sorted(Line(f)')
  BY <1>1 DEF Sorted
<1>3. Bounded(Line(f)', sent'[f])
  BY <1>1 DEF Bounded
<1>4. QED
  BY <1>2, <1>3

\* The message that arrives goes to the end of the line.
LEMMA LineGrows ==
    ASSUME BrokerTypeOK, NEW f \in Entities, InLine(f), NEW k \in 1 .. 6,
           sent[f] \in Nat, sent'[f] = sent[f] + 1,
           \A j \in 1 .. 6 : j # k => Line(f)'[j] \subseteq Line(f)[j],
           Line(f)'[k] \subseteq Line(f)[k] \union {sent[f] + 1},
           \A j \in 1 .. 6 : k < j => Line(f)'[j] = {}
    PROVE  Sorted(Line(f)') /\ Bounded(Line(f)', sent'[f])
<1>1. Sorted(Line(f)) /\ \A j \in 1 .. 6 : \A m \in Line(f)[j] : m <= sent[f] /\ m \in Nat
  BY LineTypes DEF InLine, Messages
<1>2. \A j \in 1 .. 6 : \A m \in Line(f)[j] : m < sent[f] + 1 /\ m <= sent'[f]
  BY <1>1
<1>3. Sorted(Line(f)')
  BY <1>1, <1>2, Moves
<1>4. Bounded(Line(f)', sent'[f])
  BY <1>2 DEF Bounded
<1>5. QED
  BY <1>3, <1>4

LEMMA InLineParts ==
    ASSUME NEW e
    PROVE  InLine(e)' <=> /\ Sorted(Line(e)') /\ Bounded(Line(e)', sent'[e])
                          /\ Increasing(executed'[e]) /\ InQueue(customQueue', e)
                          /\ Increasing(broker'[e].default)
                          /\ Flushing(e)' => Increasing(running'.kept)
                          /\ Increasing(broker'[e].custom)
BY DEF InLine, Bounded, Sorted, Increasing, InQueue

\* An invocation given to a scheduler other than the default one.
Handed(e, m) ==
    \/ /\ Scheduler[e] = "custom"
       /\ customQueue' = Append(customQueue, Invocation(e, m)) /\ executed' = executed
    \/ /\ Scheduler[e] = "synchronous"
       /\ ExecuteIfExists(e, m) /\ customQueue' = customQueue

LEMMA QueuedIsHanded ==
    ASSUME NEW e \in Entities, NEW m, QueueInvocation(e, m), Scheduler[e] # "default"
    PROVE  Handed(e, m)
BY MessageBrokerAssumption DEF QueueInvocation, Handed

\* It is nothing to the others.
LEMMA HandedToAnother ==
    ASSUME BrokerTypeOK, NEW e \in Entities, NEW m \in Messages, Handed(e, m),
           NEW f \in Entities, f # e
    PROVE  /\ executed'[f] = executed[f]
           /\ QueuedFor(customQueue', f) = QueuedFor(customQueue, f)
           /\ InQueue(customQueue, f) => InQueue(customQueue', f)
<1>. DEFINE c == Invocation(e, m)
<1>1. c \in Invocations /\ c.entity = e /\ customQueue \in Seq(Invocations)
  BY QueuedFields DEF BrokerTypeOK
<1>2. customQueue' = customQueue \/ customQueue' = Append(customQueue, c)
  BY DEF Handed
<1>3. executed' = executed \/ executed' = [executed EXCEPT ![e] = Append(@, m)]
  BY DEF Handed, ExecuteIfExists, Execute
<1>4. executed'[f] = executed[f]
  BY <1>3 DEF BrokerTypeOK
<1>. HIDE DEF c
<1>5. /\ QueuedFor(customQueue', f) = QueuedFor(customQueue, f)
      /\ InQueue(customQueue, f) => InQueue(customQueue', f)
  <2>1. CASE customQueue' = Append(customQueue, c)
    <3>1. /\ QueuedFor(Append(customQueue, c), f) = QueuedFor(customQueue, f)
          /\ InQueue(customQueue, f) => InQueue(Append(customQueue, c), f)
      BY ONLY <1>1, f # e, InQueueAppend
    <3>2. QED
      BY ONLY <2>1, <3>1
  <2>2. QED
    BY ONLY <1>2, <2>1
<1>6. QED
  BY <1>4, <1>5

\* For the entity itself it joins the back of the queue, or is executed where
\* nobody queues.
LEMMA HandedInLine ==
    ASSUME BrokerTypeOK, PlaceInv, NEW f \in Entities, InLine(f), NEW m \in Messages,
           Handed(f, m), executing' = executing,
           \A j \in 1 .. 3 : \A n \in Line(f)[j] : n < m,
           \A j \in 4 .. 6 : Line(f)'[j] \subseteq Line(f)[j] /\ \A n \in Line(f)'[j] : m < n,
           sent[f] \in Nat, sent'[f] \in Nat, sent[f] <= sent'[f], m <= sent'[f]
    PROVE  /\ Sorted(Line(f)') /\ Bounded(Line(f)', sent'[f])
           /\ Increasing(executed'[f]) /\ InQueue(customQueue', f)
<1>. DEFINE P == Line(f)
            Q == Line(f)'
            c == Invocation(f, m)
<1>1. /\ c \in Invocations /\ c.entity = f /\ c.msg = m /\ customQueue \in Seq(Invocations)
      /\ executed \in [Entities -> Seq(Messages)] /\ executed[f] \in Seq(Messages)
  BY QueuedFields DEF BrokerTypeOK
<1>2. /\ Sorted(P) /\ Increasing(executed[f]) /\ InQueue(customQueue, f)
      /\ \A j \in 1 .. 6 : \A n \in P[j] : n <= sent[f] /\ n \in Nat
  BY LineTypes DEF InLine, Messages
<1>3. /\ P[1] = Elements(executed[f]) /\ P[3] = QueuedFor(customQueue, f)
      /\ Q[1] = Elements(executed'[f]) /\ Q[3] = QueuedFor(customQueue', f)
      /\ Q[2] = P[2]
      /\ P[2] = IF executing # Nothing /\ executing.entity = f THEN {executing.msg} ELSE {}
  <2>1. P[1] = Elements(executed[f]) /\ P[3] = QueuedFor(customQueue, f)
    BY Stations
  <2>2. Q[1] = Elements(executed'[f]) /\ Q[3] = QueuedFor(customQueue', f)
    BY StationsThen
  <2>3. P[2] = IF executing # Nothing /\ executing.entity = f THEN {executing.msg} ELSE {}
    BY Stations
  <2>4. Q[2] = IF executing' # Nothing /\ executing'.entity = f THEN {executing'.msg} ELSE {}
    BY StationsThen
  <2>5. executing' = executing
    OBVIOUS
  <2>. HIDE DEF P, Q
  <2>6. Q[2] = P[2]
    BY ONLY <2>3, <2>4, <2>5
  <2>7. QED
    BY ONLY <2>1, <2>2, <2>3, <2>6
<1>4. ASSUME NEW k \in {1, 3},
             \A j \in 1 .. 3 : j # k => Q[j] \subseteq P[j],
             Q[k] \subseteq P[k] \union {m},
             \A j \in 2 .. 3 : k < j => Q[j] = {}
      PROVE  Sorted(Q) /\ Bounded(Q, sent'[f])
  <2>1. /\ \A j \in 1 .. 6 : j # k => Q[j] \subseteq P[j]
        /\ \A j \in 1 .. 6 : j <= k => \A n \in P[j] : n < m
        /\ \A j \in 1 .. 6 : k < j => \A n \in Q[j] : m < n
        /\ k \in 1 .. 6
    <3>1. \A j \in 1 .. 6 : j \in 1 .. 3 \/ j \in 4 .. 6
      OBVIOUS
    <3>2. \A j \in 1 .. 3 : k < j => j \in 2 .. 3
      OBVIOUS
    <3>. HIDE DEF P, Q
    <3>3. \A j \in 4 .. 6 : Q[j] \subseteq P[j] /\ \A n \in Q[j] : m < n
      BY DEF P, Q
    <3>4. \A j \in 1 .. 3 : \A n \in P[j] : n < m
      BY DEF P
    <3>5. QED
      BY ONLY <1>4, <3>1, <3>2, <3>3, <3>4
  <2>2. Sorted(Q)
    <3>. HIDE DEF P, Q
    <3>1. QED
      BY ONLY <1>2, <1>4, <2>1, Moves
  <2>3. Bounded(Q, sent'[f])
    <3>. HIDE DEF P, Q
    <3>1. QED
      BY ONLY <1>2, <1>4, <2>1, sent[f] \in Nat, sent'[f] \in Nat, sent[f] <= sent'[f],
              m <= sent'[f] DEF Bounded
  <2>4. QED
    BY <2>2, <2>3
<1>5. CASE Scheduler[f] = "custom"
  <2>1. customQueue' = Append(customQueue, c) /\ executed' = executed
    BY <1>5 DEF Handed
  <2>. HIDE DEF c
  <2>2. \A n \in QueuedFor(customQueue, f) : n < m
    BY <1>3
  <2>3. /\ QueuedFor(customQueue', f) = QueuedFor(customQueue, f) \union {m}
        /\ InQueue(customQueue', f)
    BY ONLY <1>1, <1>2, <2>1, <2>2, InQueueAppend
  <2>4. Sorted(Q) /\ Bounded(Q, sent'[f])
    <3>1. /\ \A j \in 1 .. 3 : j # 3 => Q[j] \subseteq P[j]
          /\ Q[3] \subseteq P[3] \union {m}
          /\ \A j \in 2 .. 3 : 3 < j => Q[j] = {}
      <4>. HIDE DEF P, Q
      <4>1. \A j \in 1 .. 3 : j # 3 => j = 1 \/ j = 2
        OBVIOUS
      <4>2. QED
        BY ONLY <1>3, <2>1, <2>3, <4>1
    <3>. HIDE DEF P, Q
    <3>2. QED
      BY ONLY <1>4, <3>1
  <2>5. QED
    BY <1>2, <2>1, <2>3, <2>4
<1>6. CASE Scheduler[f] = "synchronous"
  <2>1. ExecuteIfExists(f, m) /\ customQueue' = customQueue
    BY <1>6 DEF Handed
  <2>2. P[2] = {} /\ P[3] = {}
    <3>1. executing # Nothing => executing.entity # f
      BY <1>6 DEF PlaceInv, CustomPlace
    <3>2. \A i \in DOMAIN customQueue : customQueue[i].entity # f
      BY <1>6 DEF PlaceInv, CustomPlace, Elements
    <3>3. QED
      BY <1>3, <3>1, <3>2 DEF QueuedFor
  <2>3. executed'[f] = executed[f] \/ executed'[f] = Append(executed[f], m)
    BY <1>1, <2>1 DEF ExecuteIfExists, Execute
  <2>4. \A n \in Elements(executed[f]) : n < m
    BY <1>3
  <2>5. Increasing(executed'[f]) /\ Elements(executed'[f]) \subseteq Elements(executed[f]) \union {m}
    <3>1. Increasing(Append(executed[f], m))
      BY ONLY <1>1, <1>2, <2>4, m \in Messages, IncreasingAppend
    <3>2. Elements(Append(executed[f], m)) = Elements(executed[f]) \union {m}
      BY ONLY <1>1, m \in Messages, ElementsOfAppend
    <3>3. QED
      BY ONLY <1>2, <2>3, <3>1, <3>2
  <2>6. Sorted(Q) /\ Bounded(Q, sent'[f])
    <3>1. /\ \A j \in 1 .. 3 : j # 1 => Q[j] \subseteq P[j]
          /\ Q[1] \subseteq P[1] \union {m}
          /\ \A j \in 2 .. 3 : 1 < j => Q[j] = {}
      <4>. HIDE DEF P, Q
      <4>1. \A j \in 1 .. 3 : j # 1 => j = 3 \/ j = 2
        OBVIOUS
      <4>2. \A j \in 2 .. 3 : j = 2 \/ j = 3
        OBVIOUS
      <4>3. QED
        BY ONLY <1>3, <2>1, <2>2, <2>5, <4>1, <4>2
    <3>. HIDE DEF P, Q
    <3>2. QED
      BY ONLY <1>4, <3>1
  <2>7. QED
    BY <1>2, <2>1, <2>5, <2>6
<1>7. QED
  BY <1>5, <1>6 DEF Handed

\* Nothing joins a station of f.
LEMMA LineQuiet ==
    ASSUME BrokerTypeOK, NEW f \in Entities, InLine(f),
           sent[f] \in Nat, sent'[f] \in Nat, sent[f] <= sent'[f],
           executed'[f] = executed[f], executing' = executing \/ executing' = Nothing,
           QueuedFor(customQueue', f) \subseteq QueuedFor(customQueue, f),
           InQueue(customQueue', f),
           Elements(broker'[f].default) \subseteq Elements(broker[f].default),
           Increasing(broker'[f].default),
           Flushing(f)' => Flushing(f) /\ running'.kept = running.kept,
           broker'[f].custom = broker[f].custom
    PROVE  InLine(f)'
<1>. DEFINE P == Line(f)
            Q == Line(f)'
<1>1. Q[1] \subseteq P[1] /\ Q[3] \subseteq P[3] /\ Q[4] \subseteq P[4] /\ Q[6] \subseteq P[6]
  BY Stations, StationsThen
<1>2. Q[2] \subseteq P[2]
  <2>1. P[2] = IF executing # Nothing /\ executing.entity = f THEN {executing.msg} ELSE {}
    BY Stations
  <2>2. Q[2] = IF executing' # Nothing /\ executing'.entity = f THEN {executing'.msg} ELSE {}
    BY StationsThen
  <2>3. executing' = executing \/ executing' = Nothing
    OBVIOUS
  <2>. HIDE DEF P, Q
  <2>4. QED
    BY ONLY <2>1, <2>2, <2>3
<1>3. Q[5] \subseteq P[5]
  <2>1. P[5] = IF Flushing(f) THEN Elements(running.kept) ELSE {}
    BY Stations
  <2>2. Q[5] = IF Flushing(f)' THEN Elements(running'.kept) ELSE {}
    BY StationsThen
  <2>3. QED
    BY <2>1, <2>2
<1>4. \A j \in 1 .. 6 : Q[j] \subseteq P[j]
  <2>1. \A j \in 1 .. 6 : j \in {1, 2, 3, 4, 5, 6}
    OBVIOUS
  <2>. HIDE DEF P, Q
  <2>2. QED
    BY ONLY <1>1, <1>2, <1>3, <2>1
<1>5. Sorted(Line(f)') /\ Bounded(Line(f)', sent'[f])
  BY <1>4, LineShrinks
<1>6. /\ Increasing(executed'[f]) /\ Increasing(broker'[f].custom)
      /\ Flushing(f)' => Increasing(running'.kept)
  BY DEF InLine
<1>7. QED
  BY <1>5, <1>6, InLineParts

\* What a step does to none of the stations.
LEMMA LineUnchanged ==
    ASSUME BrokerTypeOK, NEW f \in Entities, InLine(f),
           sent[f] \in Nat, sent'[f] \in Nat, sent[f] <= sent'[f],
           executed'[f] = executed[f], executing' = executing,
           QueuedFor(customQueue', f) = QueuedFor(customQueue, f),
           InQueue(customQueue', f), broker'[f] = broker[f],
           Flushing(f)' => Flushing(f) /\ running'.kept = running.kept
    PROVE  InLine(f)'
<1>1. Increasing(broker'[f].default)
  BY DEF InLine
<1>2. QED
  BY <1>1, LineQuiet

LEMMA LineArrival ==
    ASSUME BrokerTypeOK, PlaceInv, NEW e \in Entities,
           Keep(e) \/ DispatchNow(e) \/ KeepForCustom(e),
           NEW f \in Entities, InLine(f), Scheduler[f] # "default", ~overtaken'[f]
    PROVE  InLine(f)'
<1>0. /\ Arrives(e) /\ broker \in [Entities -> Mqs] /\ broker[e] \in Mqs
      /\ broker[e].default \in Seq(Messages) /\ broker[e].custom \in Seq(Messages)
  BY DEF Keep, DispatchNow, KeepForCustom, BrokerTypeOK, Mqs
<1>. DEFINE m == sent[e] + 1
<1>1. /\ m \in Messages /\ sent[e] \in Nat /\ sent'[e] = sent[e] + 1
      /\ sent[f] \in Nat /\ sent'[f] \in Nat /\ sent[f] <= sent'[f]
      /\ UNCHANGED <<running, executing>>
  <2>1. /\ m \in Messages /\ sent[e] \in Nat /\ sent'[e] = sent[e] + 1
        /\ UNCHANGED <<running, executing>> /\ (f # e => sent'[f] = sent[f])
    BY <1>0, ArrivesTypes
  <2>2. sent[f] \in Nat
    BY DEF BrokerTypeOK
  <2>3. QED
    BY ONLY <2>1, <2>2
<1>2. /\ Flushing(f)' = Flushing(f) /\ running'.kept = running.kept
      /\ InQueue(customQueue, f)
  BY <1>1 DEF Flushing, InLine
<1>3. CASE f # e
  <2>1. broker'[f] = broker[f]
    BY <1>0, <1>3 DEF Keep, DispatchNow, KeepForCustom, brokerVars
  <2>2. /\ executed'[f] = executed[f] /\ QueuedFor(customQueue', f) = QueuedFor(customQueue, f)
        /\ InQueue(customQueue', f)
    <3>1. CASE DispatchNow(e)
      <4>1. QueueInvocation(e, m)
        BY <3>1 DEF DispatchNow
      <4>2. CASE Scheduler[e] = "default"
        BY <1>1, <1>2, <4>1, <4>2, QueueGains
      <4>3. CASE Scheduler[e] # "default"
        <5>1. Handed(e, m)
          BY <4>1, <4>3, QueuedIsHanded
        <5>. HIDE DEF m
        <5>2. QED
          BY <1>1, <1>2, <1>3, <5>1, HandedToAnother
      <4>4. QED
        BY <4>2, <4>3
    <3>2. CASE Keep(e) \/ KeepForCustom(e)
      BY <1>2, <3>2 DEF Keep, KeepForCustom, queueVars
    <3>3. QED
      BY <3>1, <3>2
  <2>3. QED
    BY <1>1, <1>2, <2>1, <2>2, LineUnchanged
<1>4. CASE f = e /\ Keep(e)
  <2>. DEFINE mq == IF broker[e].mq = 0 THEN sent[e] + 1 ELSE broker[e].mq
  <2>1. /\ broker' = [broker EXCEPT ![e].mq = mq, ![e].default = Append(@, m)]
        /\ subscriptions[e] # "entity" /\ UNCHANGED <<customQueue, executed, overtaken>>
    BY <1>4 DEF Keep
  <2>2. mq \in Nat
    BY <1>0, <1>1 DEF Mqs
  <2>. HIDE DEF mq
  <2>3. broker'[e] = [mq |-> mq, default |-> Append(broker[e].default, m),
                      custom |-> broker[e].custom]
    BY <1>1, <2>1, <2>2, KeepBroker
  <2>4. broker'[e].default = Append(broker[e].default, m) /\ broker'[e].custom = broker[e].custom
    BY ONLY <2>3
  <2>5. broker[e].custom = <<>> /\ ~Flushing(e)
    BY <1>4, <2>1 DEF PlaceInv, MqPlace
  <2>. HIDE DEF m
  <2>6. Elements(broker'[e].default) = Elements(broker[e].default) \union {m}
    BY ONLY <1>0, <1>1, <2>4, ElementsOfAppend
  <2>7. Sorted(Line(e)') /\ Bounded(Line(e)', sent'[e])
    <3>. DEFINE P == Line(e)
                Q == Line(e)'
    <3>1. Q[1] = P[1] /\ Q[3] = P[3] /\ Q[4] = P[4] \union {m}
      <4>1. /\ P[1] = Elements(executed[e]) /\ P[3] = QueuedFor(customQueue, e)
            /\ P[4] = Elements(broker[e].default)
        BY Stations
      <4>2. /\ Q[1] = Elements(executed'[e]) /\ Q[3] = QueuedFor(customQueue', e)
            /\ Q[4] = Elements(broker'[e].default)
        BY StationsThen
      <4>. HIDE DEF P, Q
      <4>3. QED
        BY ONLY <2>1, <2>6, <4>1, <4>2
    <3>2. Q[2] = P[2]
      <4>1. P[2] = IF executing # Nothing /\ executing.entity = e THEN {executing.msg} ELSE {}
        BY Stations
      <4>2. Q[2] = IF executing' # Nothing /\ executing'.entity = e THEN {executing'.msg} ELSE {}
        BY StationsThen
      <4>. HIDE DEF P, Q
      <4>3. QED
        BY ONLY <1>1, <4>1, <4>2
    <3>3. Q[5] = {}
      BY <1>2, <1>4, <2>5, StationsThen
    <3>4. Q[6] = {}
      BY <2>4, <2>5, StationsThen, ElementsOfNothing
    <3>5. \A j \in 1 .. 6 : j # 4 => j \in {1, 2, 3, 5, 6}
      OBVIOUS
    <3>6. \A j \in 1 .. 6 : 4 < j => j \in {5, 6}
      OBVIOUS
    <3>. HIDE DEF P, Q
    <3>7. /\ \A j \in 1 .. 6 : j # 4 => Q[j] \subseteq P[j]
          /\ Q[4] \subseteq P[4] \union {m}
          /\ \A j \in 1 .. 6 : 4 < j => Q[j] = {}
      BY ONLY <3>1, <3>2, <3>3, <3>4, <3>5, <3>6
    <3>8. QED
      BY <1>1, <1>4, <3>7, LineGrows DEF P, Q, m
  <2>8. Increasing(broker'[e].default)
    <3>1. Increasing(broker[e].default) /\ \A n \in Elements(broker[e].default) : n < m
      <4>1. \A n \in Line(e)[4] : n <= sent[e] /\ n \in Nat
        BY <1>4, LineTypes DEF InLine, Messages
      <4>2. \A n \in Line(e)[4] : n < m
        BY ONLY <1>1, <4>1 DEF m
      <4>3. QED
        BY <1>4, <4>2, Stations DEF InLine
    <3>2. QED
      BY ONLY <1>0, <1>1, <2>4, <3>1, IncreasingAppend
  <2>9. /\ Increasing(executed'[e]) /\ InQueue(customQueue', e)
        /\ Increasing(broker'[e].custom) /\ ~Flushing(e)'
    BY <1>2, <1>4, <2>1, <2>4, <2>5 DEF InLine
  <2>10. QED
    BY ONLY <1>4, <2>7, <2>8, <2>9, InLineParts
<1>5. CASE f = e /\ DispatchNow(e)
  <2>1. /\ QueueInvocation(e, m) /\ broker' = broker /\ Passes(e)
        /\ overtaken' = [overtaken EXCEPT ![e] = @ \/ Flushing(e)]
    BY <1>5 DEF DispatchNow, brokerVars
  <2>2. ~Flushing(e)
    BY <1>5, <2>1 DEF BrokerTypeOK
  <2>3. broker[e] = NoMq
    BY <1>5, <2>1 DEF Passes, BrokerTypeOK
  <2>4. Handed(f, m)
    BY <1>5, <2>1, QueuedIsHanded
  <2>5. Elements(NoMq.default) = {} /\ Elements(NoMq.custom) = {}
    BY ElementsOfNothing DEF NoMq
  <2>6. \A j \in 1 .. 6 : \A n \in Line(f)[j] : n < m
    <3>1. \A j \in 1 .. 6 : \A n \in Line(f)[j] : n <= sent[e] /\ n \in Nat
      BY <1>5, LineTypes DEF InLine, Messages
    <3>2. QED
      BY ONLY <1>1, <3>1 DEF m
  <2>7. \A j \in 4 .. 6 : Line(f)'[j] = {}
    <3>1. Line(f)'[4] = {} /\ Line(f)'[6] = {}
      BY <1>5, <2>1, <2>3, <2>5, StationsThen
    <3>2. Line(f)'[5] = {}
      BY <1>2, <1>5, <2>2, StationsThen
    <3>3. \A j \in 4 .. 6 : j \in {4, 5, 6}
      OBVIOUS
    <3>4. QED
      BY ONLY <3>1, <3>2, <3>3
  <2>8. m <= sent'[f]
    BY <1>1, <1>5
  <2>. HIDE DEF m
  <2>9. /\ Sorted(Line(f)') /\ Bounded(Line(f)', sent'[f])
        /\ Increasing(executed'[f]) /\ InQueue(customQueue', f)
    BY <1>1, <2>4, <2>6, <2>7, <2>8, HandedInLine
  <2>10. /\ Increasing(broker'[f].default) /\ Increasing(broker'[f].custom)
         /\ Flushing(f)' => Increasing(running'.kept)
    BY <1>2, <2>1 DEF InLine
  <2>11. QED
    BY ONLY <2>9, <2>10, InLineParts
<1>6. CASE f = e /\ KeepForCustom(e)
  <2>1. /\ broker' = [broker EXCEPT ![e].custom = Append(@, m)]
        /\ UNCHANGED <<customQueue, executed>>
    BY <1>6 DEF KeepForCustom, queueVars
  <2>2. /\ broker'[e].custom = Append(broker[e].custom, m)
        /\ broker'[e].default = broker[e].default
    BY ONLY <1>0, <2>1, e \in Entities DEF Mqs
  <2>. HIDE DEF m
  <2>3. Elements(broker'[e].custom) = Elements(broker[e].custom) \union {m}
    BY ONLY <1>0, <1>1, <2>2, ElementsOfAppend
  <2>4. Sorted(Line(e)') /\ Bounded(Line(e)', sent'[e])
    <3>. DEFINE P == Line(e)
                Q == Line(e)'
    <3>1. Q[1] = P[1] /\ Q[3] = P[3] /\ Q[4] = P[4] /\ Q[6] = P[6] \union {m}
      <4>1. /\ P[1] = Elements(executed[e]) /\ P[3] = QueuedFor(customQueue, e)
            /\ P[4] = Elements(broker[e].default) /\ P[6] = Elements(broker[e].custom)
        BY Stations
      <4>2. /\ Q[1] = Elements(executed'[e]) /\ Q[3] = QueuedFor(customQueue', e)
            /\ Q[4] = Elements(broker'[e].default) /\ Q[6] = Elements(broker'[e].custom)
        BY StationsThen
      <4>. HIDE DEF P, Q
      <4>3. QED
        BY ONLY <2>1, <2>2, <2>3, <4>1, <4>2
    <3>2. Q[2] = P[2]
      <4>1. P[2] = IF executing # Nothing /\ executing.entity = e THEN {executing.msg} ELSE {}
        BY Stations
      <4>2. Q[2] = IF executing' # Nothing /\ executing'.entity = e THEN {executing'.msg} ELSE {}
        BY StationsThen
      <4>. HIDE DEF P, Q
      <4>3. QED
        BY ONLY <1>1, <4>1, <4>2
    <3>3. Q[5] = P[5]
      BY <1>2, <1>6, Stations, StationsThen
    <3>4. \A j \in 1 .. 6 : j # 6 => j \in {1, 2, 3, 4, 5}
      OBVIOUS
    <3>5. \A j \in 1 .. 6 : ~(6 < j)
      OBVIOUS
    <3>. HIDE DEF P, Q
    <3>6. /\ \A j \in 1 .. 6 : j # 6 => Q[j] \subseteq P[j]
          /\ Q[6] \subseteq P[6] \union {m}
          /\ \A j \in 1 .. 6 : 6 < j => Q[j] = {}
      BY ONLY <3>1, <3>2, <3>3, <3>4, <3>5
    <3>7. QED
      BY <1>1, <1>6, <3>6, LineGrows DEF P, Q, m
  <2>5. Increasing(broker'[e].custom)
    <3>1. Increasing(broker[e].custom) /\ \A n \in Elements(broker[e].custom) : n < m
      <4>1. \A n \in Line(e)[6] : n <= sent[e] /\ n \in Nat
        BY <1>6, LineTypes DEF InLine, Messages
      <4>2. \A n \in Line(e)[6] : n < m
        BY ONLY <1>1, <4>1 DEF m
      <4>3. QED
        BY <1>6, <4>2, Stations DEF InLine
    <3>2. QED
      BY ONLY <1>0, <1>1, <2>2, <3>1, IncreasingAppend
  <2>6. /\ Increasing(executed'[e]) /\ InQueue(customQueue', e)
        /\ Increasing(broker'[e].default) /\ (Flushing(e)' => Increasing(running'.kept))
    BY <1>2, <1>6, <2>1, <2>2 DEF InLine
  <2>7. QED
    BY ONLY <1>6, <2>4, <2>5, <2>6, InLineParts
<1>7. QED
  BY <1>3, <1>4, <1>5, <1>6

LEMMA LineDeliver ==
    ASSUME BrokerTypeOK, PlaceInv, RunDeliver,
           NEW f \in Entities, InLine(f), Scheduler[f] # "default"
    PROVE  InLine(f)'
<1>. DEFINE head  == Head(queue)
            e     == head.entity
            first == broker[e].default
            h     == Head(first)
<1>1. /\ queue # <<>> /\ running = Idle /\ running'.at = "check"
      /\ UNCHANGED <<sent, executing>>
      /\ IF first # <<>> THEN broker' = [broker EXCEPT ![e].default = Tail(@)]
                         ELSE UNCHANGED broker
      /\ \/ UNCHANGED <<executed, customQueue>>
         \/ first # <<>> /\ Scheduler[e] # "default" /\ Handed(e, h)
         \/ Scheduler[e] = "default" /\ Execute(e, h) /\ UNCHANGED customQueue
  <2>1. \/ UNCHANGED <<executed, customQueue>>
        \/ first # <<>> /\ Scheduler[e] # "default" /\ Handed(e, h)
        \/ Scheduler[e] = "default" /\ Execute(e, h) /\ UNCHANGED customQueue
    <3>1. Scheduler[e] \in {"default", "custom", "synchronous"}
      <4>1. head \in Deliveries \union Invokes
        BY TailTypes DEF BrokerTypeOK, RunDeliver, Runs
      <4>2. e \in Entities
        BY <4>1, QueuedFields
      <4>3. QED
        BY <4>2, MessageBrokerAssumption
    <3>2. QED
      BY <3>1 DEF RunDeliver, Handed
  <2>2. QED
    BY <2>1 DEF RunDeliver, Runs
<1>2. e \in Entities
  <2>1. head \in Deliveries \union Invokes
    BY <1>1, TailTypes DEF BrokerTypeOK
  <2>2. QED
    BY <2>1, QueuedFields
<1>. HIDE DEF head, e
<1>3. /\ first \in Seq(Messages) /\ broker \in [Entities -> Mqs]
      /\ sent[f] \in Nat /\ sent' = sent
      /\ InQueue(customQueue, f) /\ Increasing(broker[f].default)
  BY <1>1, <1>2 DEF BrokerTypeOK, Mqs, InLine
<1>4. ~Flushing(f) /\ ~Flushing(f)'
  BY <1>1, NoMqTypes DEF Flushing
<1>. HIDE DEF first
<1>5. /\ first # <<>> => h \in Messages /\ Tail(first) \in Seq(Messages)
      /\ broker'[f].custom = broker[f].custom
      /\ f # e => broker'[f] = broker[f]
      /\ f = e /\ first # <<>> => broker'[f].default = Tail(first)
      /\ f = e /\ first = <<>> => broker'[f].default = first
  <2>1. first # <<>> => h \in Messages /\ Tail(first) \in Seq(Messages)
    BY <1>3, TailTypes
  <2>2. CASE first = <<>>
    BY <1>1, <2>1, <2>2 DEF first
  <2>3. CASE first # <<>>
    <3>1. broker' = [broker EXCEPT ![e].default = Tail(@)]
      BY <1>1, <2>3
    <3>2. CASE f # e
      BY ONLY <1>3, <2>1, <2>3, <3>1, <3>2, f \in Entities
    <3>3. CASE f = e
      <4>1. broker'[e].custom = broker[e].custom /\ broker'[e].default = Tail(broker[e].default)
        BY ONLY <1>2, <1>3, <3>1 DEF Mqs
      <4>2. QED
        BY <2>1, <2>3, <3>3, <4>1 DEF first
    <3>4. QED
      BY <3>2, <3>3
  <2>4. QED
    BY <2>2, <2>3
<1>6. CASE f # e
  <2>1. /\ executed'[f] = executed[f] /\ QueuedFor(customQueue', f) = QueuedFor(customQueue, f)
        /\ InQueue(customQueue', f)
    <3>1. CASE UNCHANGED <<executed, customQueue>>
      BY <1>3, <3>1
    <3>2. CASE first # <<>> /\ Handed(e, h)
      <4>. HIDE DEF h
      <4>1. QED
        BY <1>2, <1>3, <1>5, <1>6, <3>2, HandedToAnother
    <3>3. CASE Execute(e, h) /\ UNCHANGED customQueue
      BY <1>3, <1>6, <3>3 DEF Execute, BrokerTypeOK
    <3>4. QED
      BY <1>1, <3>1, <3>2, <3>3
  <2>2. broker'[f] = broker[f]
    BY <1>5, <1>6
  <2>3. QED
    BY <1>1, <1>3, <1>4, <2>1, <2>2, LineUnchanged
<1>7. CASE f = e /\ UNCHANGED <<executed, customQueue>>
  <2>1. /\ Elements(broker'[f].default) \subseteq Elements(broker[f].default)
        /\ Increasing(broker'[f].default)
    <3>1. CASE first = <<>>
      BY <1>3, <1>5, <1>7, <3>1 DEF first
    <3>2. CASE first # <<>>
      <4>1. first = broker[f].default
        BY <1>7 DEF first
      <4>2. QED
        BY <1>3, <1>5, <1>7, <3>2, <4>1, IncreasingTail
    <3>3. QED
      BY <3>1, <3>2
  <2>2. QED
    BY <1>1, <1>3, <1>4, <1>5, <1>7, <2>1, LineQuiet
<1>8. CASE f = e /\ first # <<>> /\ Handed(e, h)
  <2>. DEFINE P == Line(f)
              Q == Line(f)'
  <2>1. /\ Increasing(Tail(first)) /\ h \in Elements(first)
        /\ Elements(Tail(first)) \subseteq Elements(first)
        /\ \A n \in Elements(Tail(first)) : h < n
    <3>1. Increasing(first)
      BY <1>3, <1>8 DEF first
    <3>2. QED
      BY <1>3, <1>8, <3>1, IncreasingTail
  <2>2. P[4] = Elements(first) /\ P[6] = Elements(broker[f].custom)
    BY <1>8, Stations DEF first
  <2>3. Q[4] = Elements(Tail(first)) /\ Q[6] = P[6] /\ Q[5] = {}
    <3>1. Q[4] = Elements(broker'[f].default) /\ Q[6] = Elements(broker'[f].custom)
      BY StationsThen
    <3>2. Q[5] = {}
      BY <1>4, StationsThen
    <3>. HIDE DEF P, Q
    <3>3. QED
      BY ONLY <1>5, <1>8, <2>2, <3>1, <3>2
  <2>4. /\ Sorted(P) /\ \A j \in 1 .. 6 : \A n \in P[j] : n <= sent[f]
    BY DEF InLine
  <2>. HIDE DEF P, Q, h
  <2>5. \A j \in 1 .. 3 : \A n \in P[j] : n < h
    <3>1. \A j \in 1 .. 3 : j \in 1 .. 6 /\ j < 4 /\ 4 \in 1 .. 6
      OBVIOUS
    <3>2. QED
      BY ONLY <2>1, <2>2, <2>4, <3>1 DEF Sorted
  <2>6. \A j \in 4 .. 6 : Q[j] \subseteq P[j] /\ \A n \in Q[j] : h < n
    <3>1. \A n \in P[6] : h < n
      BY ONLY <2>1, <2>2, <2>4 DEF Sorted
    <3>2. \A j \in 4 .. 6 : j \in {4, 5, 6}
      OBVIOUS
    <3>3. QED
      BY ONLY <2>1, <2>2, <2>3, <3>1, <3>2
  <2>7. h <= sent'[f]
    BY <1>3, <2>1, <2>2, <2>4
  <2>8. h \in Messages
    BY <1>5, <1>8
  <2>9. /\ Sorted(Line(f)') /\ Bounded(Line(f)', sent'[f])
        /\ Increasing(executed'[f]) /\ InQueue(customQueue', f)
    BY <1>1, <1>3, <1>8, <2>5, <2>6, <2>7, <2>8, HandedInLine DEF P, Q
  <2>10. Increasing(broker'[f].default) /\ Increasing(broker'[f].custom)
    BY <1>5, <1>8, <2>1 DEF InLine
  <2>11. QED
    BY ONLY <1>4, <2>9, <2>10, InLineParts
<1>9. QED
  BY <1>1, <1>6, <1>7, <1>8

LEMMA LineErase ==
    ASSUME BrokerTypeOK, Erase, NEW f \in Entities, InLine(f)
    PROVE  InLine(f)'
<1>. DEFINE e    == running.entity
            kept == broker[e].custom
<1>1. /\ e \in Entities /\ running.at = "erase"
      /\ broker' = [broker EXCEPT ![e] = NoMq]
      /\ running' = IF kept = <<>> THEN Idle
                    ELSE [at |-> "flush", entity |-> e, bound |-> running.bound,
                          kept |-> kept]
      /\ UNCHANGED <<customQueue, executed, sent, executing>>
  BY ActionFields DEF Erase, Unlocked, queueVars, BrokerTypeOK
<1>2. /\ sent[f] \in Nat /\ ~Flushing(f) /\ InQueue(customQueue', f)
      /\ broker \in [Entities -> Mqs] /\ Idle.at = "idle"
  BY <1>1, NoMqTypes DEF Flushing, InLine, BrokerTypeOK
<1>3. Flushing(f)' => f = e /\ running'.kept = kept
  <2>. HIDE DEF e, kept
  <2>1. QED
    BY ONLY <1>1, <1>2 DEF Flushing
<1>4. CASE f # e
  <2>1. broker'[f] = broker[f]
    BY <1>1, <1>2, <1>4
  <2>2. QED
    BY <1>1, <1>2, <1>3, <1>4, <2>1, LineUnchanged
<1>5. CASE f = e
  <2>. DEFINE P == Line(f)
              Q == Line(f)'
  <2>1. broker'[f] = NoMq
    BY <1>1, <1>2, <1>5
  <2>2. /\ Elements(NoMq.default) = {} /\ Elements(NoMq.custom) = {}
        /\ Increasing(NoMq.default) /\ Increasing(NoMq.custom)
    BY IncreasingNothing DEF NoMq
  <2>3. Q[4] = {} /\ Q[6] = {}
    BY <2>1, <2>2, StationsThen
  <2>4. Q[1] = P[1] /\ Q[3] = P[3]
    BY <1>1, Stations, StationsThen
  <2>5. Q[2] = P[2]
    <3>1. P[2] = IF executing # Nothing /\ executing.entity = f THEN {executing.msg} ELSE {}
      BY Stations
    <3>2. Q[2] = IF executing' # Nothing /\ executing'.entity = f THEN {executing'.msg} ELSE {}
      BY StationsThen
    <3>. HIDE DEF P, Q
    <3>3. QED
      BY ONLY <1>1, <3>1, <3>2
  <2>6. Q[5] \subseteq P[6]
    <3>1. Q[5] = IF Flushing(f)' THEN Elements(running'.kept) ELSE {}
      BY StationsThen
    <3>2. P[6] = Elements(broker[f].custom)
      BY Stations
    <3>. HIDE DEF P, Q
    <3>3. QED
      BY <1>3, <1>5, <3>1, <3>2
  <2>7. Sorted(P) /\ \A j \in 1 .. 6 : \A n \in P[j] : n <= sent[f]
    BY DEF InLine
  <2>. HIDE DEF P, Q
  <2>8. Sorted(Q) /\ Bounded(Q, sent'[f])
    <3>1. \A j \in 1 .. 6 : j \in {1, 2, 3, 4, 5, 6}
      OBVIOUS
    <3>2. Sorted(Q)
      <4>1. SUFFICES ASSUME NEW i \in 1 .. 6, NEW j \in 1 .. 6, i < j, NEW m \in Q[i], NEW n \in Q[j]
                     PROVE  m < n
        BY DEF Sorted
      <4>2. \A k \in {1, 2, 3} : k < 6 /\ k \in 1 .. 6 /\ 6 \in 1 .. 6
        OBVIOUS
      <4>3. i \in {1, 2, 3, 5} /\ j \in {1, 2, 3, 5} /\ i # 5
        BY ONLY <2>3, <3>1, <4>1
      <4>4. CASE j = 5
        BY ONLY <2>4, <2>5, <2>6, <2>7, <4>1, <4>2, <4>3, <4>4 DEF Sorted
      <4>5. CASE j # 5
        BY ONLY <2>4, <2>5, <2>7, <4>1, <4>3, <4>5 DEF Sorted
      <4>6. QED
        BY <4>4, <4>5
    <3>3. Bounded(Q, sent'[f])
      BY ONLY <1>1, <2>3, <2>4, <2>5, <2>6, <2>7, <3>1 DEF Bounded
    <3>4. QED
      BY <3>2, <3>3
  <2>9. Flushing(f)' => Increasing(running'.kept)
    BY <1>3, <1>5 DEF InLine
  <2>10. Increasing(executed'[f])
    BY <1>1 DEF InLine
  <2>11. QED
    BY <1>2, <2>1, <2>2, <2>8, <2>9, <2>10, InLineParts DEF Q
<1>6. QED
  BY <1>4, <1>5

LEMMA LineFlush ==
    ASSUME BrokerTypeOK, PlaceInv, Flush, NEW f \in Entities, InLine(f),
           Scheduler[f] # "default", ~overtaken[f]
    PROVE  InLine(f)'
<1>. DEFINE e    == running.entity
            kept == running.kept
            h    == Head(kept)
<1>1. /\ e \in Entities /\ kept \in Seq(Messages) /\ kept # <<>> /\ running.at = "flush"
      /\ broker' = broker /\ QueueInvocation(e, h)
      /\ running' = IF Len(kept) = 1 THEN Idle ELSE [running EXCEPT !.kept = Tail(@)]
      /\ UNCHANGED <<sent, executing>>
  BY ActionFields DEF Flush, Unlocked, BrokerTypeOK
<1>2. h \in Messages /\ Tail(kept) \in Seq(Messages)
  BY <1>1, TailTypes
<1>3. sent[f] \in Nat /\ sent' = sent /\ InQueue(customQueue, f)
  BY <1>1 DEF BrokerTypeOK, InLine
<1>4. Flushing(f)' => f = e /\ running'.kept = Tail(kept)
  <2>1. CASE Len(kept) = 1
    BY <1>1, <2>1, NoMqTypes DEF Flushing
  <2>2. CASE Len(kept) # 1
    <3>1. running' = [running EXCEPT !.kept = Tail(@)] /\ running \in Actions
      BY <1>1, <2>2 DEF BrokerTypeOK
    <3>2. running'.entity = e /\ running'.kept = Tail(kept)
      BY <1>1, <2>2, <3>1, ActionFields
    <3>3. QED
      BY <3>2 DEF Flushing
  <2>3. QED
    BY <2>1, <2>2
<1>5. CASE f # e
  <2>1. /\ executed'[f] = executed[f] /\ QueuedFor(customQueue', f) = QueuedFor(customQueue, f)
        /\ InQueue(customQueue', f)
    <3>1. CASE Scheduler[e] = "default"
      BY <1>1, <1>2, <1>3, <3>1, QueueGains
    <3>2. CASE Scheduler[e] # "default"
      <4>1. Handed(e, h)
        BY <1>1, <3>2, QueuedIsHanded
      <4>. HIDE DEF e, h
      <4>2. QED
        BY <1>1, <1>2, <1>3, <1>5, <4>1, HandedToAnother
    <3>3. QED
      BY <3>1, <3>2
  <2>2. ~Flushing(f)'
    BY <1>4, <1>5
  <2>3. QED
    BY <1>1, <1>3, <2>1, <2>2, LineUnchanged
<1>6. CASE f = e
  <2>. DEFINE P == Line(f)
              Q == Line(f)'
  <2>1. Flushing(f)
    BY <1>1, <1>6 DEF Flushing
  <2>2. broker[f] = NoMq
    BY <2>1 DEF PlaceInv, MqPlace, BrokerTypeOK
  <2>3. Handed(f, h)
    BY <1>1, <1>6, QueuedIsHanded
  <2>4. /\ Increasing(Tail(kept)) /\ h \in Elements(kept)
        /\ Elements(Tail(kept)) \subseteq Elements(kept)
        /\ \A n \in Elements(Tail(kept)) : h < n
    <3>1. Increasing(kept)
      BY <2>1 DEF InLine
    <3>2. QED
      BY <1>1, <3>1, IncreasingTail
  <2>5. P[5] = Elements(kept)
    BY <2>1, Stations
  <2>6. Q[4] = {} /\ Q[6] = {} /\ Q[5] \subseteq Elements(Tail(kept))
    <3>1. Q[4] = Elements(broker'[f].default) /\ Q[6] = Elements(broker'[f].custom)
      BY StationsThen
    <3>2. Q[5] = IF Flushing(f)' THEN Elements(running'.kept) ELSE {}
      BY StationsThen
    <3>3. Elements(NoMq.default) = {} /\ Elements(NoMq.custom) = {}
      BY ElementsOfNothing DEF NoMq
    <3>4. broker'[f] = NoMq
      BY <1>1, <2>2
    <3>. HIDE DEF P, Q
    <3>5. QED
      BY ONLY <1>4, <3>1, <3>2, <3>3, <3>4
  <2>7. Sorted(P) /\ \A j \in 1 .. 6 : \A n \in P[j] : n <= sent[f]
    BY DEF InLine
  <2>. HIDE DEF P, Q, h, kept
  <2>8. \A j \in 1 .. 3 : \A n \in P[j] : n < h
    <3>1. \A j \in 1 .. 3 : j \in 1 .. 6 /\ j < 5 /\ 5 \in 1 .. 6
      OBVIOUS
    <3>2. QED
      BY ONLY <2>4, <2>5, <2>7, <3>1 DEF Sorted
  <2>9. \A j \in 4 .. 6 : Q[j] \subseteq P[j] /\ \A n \in Q[j] : h < n
    <3>1. \A j \in 4 .. 6 : j \in {4, 5, 6}
      OBVIOUS
    <3>2. QED
      BY ONLY <2>4, <2>5, <2>6, <3>1
  <2>10. h <= sent'[f]
    BY <1>3, <2>4, <2>5, <2>7
  <2>11. /\ Sorted(Line(f)') /\ Bounded(Line(f)', sent'[f])
         /\ Increasing(executed'[f]) /\ InQueue(customQueue', f)
    BY <1>1, <1>2, <1>3, <2>3, <2>8, <2>9, <2>10, HandedInLine DEF P, Q
  <2>12. /\ Increasing(broker'[f].default) /\ Increasing(broker'[f].custom)
         /\ Flushing(f)' => Increasing(running'.kept)
    BY <1>1, <1>4, <2>4 DEF InLine
  <2>13. QED
    BY ONLY <2>11, <2>12, InLineParts
<1>7. QED
  BY <1>5, <1>6

LEMMA LineCustom ==
    ASSUME BrokerTypeOK, CustomStep, NEW f \in Entities, InLine(f)
    PROVE  InLine(f)'
<1>. DEFINE P == Line(f)
            Q == Line(f)'
<1>0. /\ customQueue \in Seq(Invocations) /\ executing \in {Nothing} \union Invocations
      /\ executed \in [Entities -> Seq(Messages)] /\ executed[f] \in Seq(Messages)
      /\ sent[f] \in Nat /\ sent' = sent /\ broker' = broker /\ running' = running
      /\ Nothing = Nothing' /\ (Flushing(f)' <=> Flushing(f))
  BY DEF CustomStep, CustomTest, CustomExecute, brokerVars, BrokerTypeOK, Flushing, Nothing
<1>1. /\ Sorted(P) /\ \A j \in 1 .. 6 : \A n \in P[j] : n <= sent[f]
      /\ InQueue(customQueue, f) /\ Increasing(executed[f])
  BY DEF InLine
<1>2. /\ P[1] = Elements(executed[f]) /\ P[3] = QueuedFor(customQueue, f)
      /\ P[2] = IF executing # Nothing /\ executing.entity = f THEN {executing.msg} ELSE {}
  BY Stations
<1>3. /\ Q[1] = Elements(executed'[f]) /\ Q[3] = QueuedFor(customQueue', f)
      /\ Q[2] = IF executing' # Nothing /\ executing'.entity = f THEN {executing'.msg} ELSE {}
  BY StationsThen
<1>4. Q[4] = P[4] /\ Q[5] = P[5] /\ Q[6] = P[6]
  BY <1>0, Stations, StationsThen
<1>5. /\ Increasing(broker'[f].default) /\ Increasing(broker'[f].custom)
      /\ Flushing(f)' => Increasing(running'.kept)
  BY <1>0 DEF InLine
<1>6. ASSUME Sorted(Q), Bounded(Q, sent[f]), Increasing(executed'[f]), InQueue(customQueue', f)
      PROVE  InLine(f)'
  <2>. HIDE DEF P
  <2>1. Sorted(Line(f)') /\ Bounded(Line(f)', sent'[f])
    BY <1>0, <1>6
  <2>2. QED
    BY ONLY <1>5, <1>6, <2>1, InLineParts
<1>7. \A j \in 1 .. 6 : j \in {1, 2, 3, 4, 5, 6}
  OBVIOUS
<1>8. ASSUME \A j \in 1 .. 3 : Q[j] \subseteq P[j]
      PROVE  Sorted(Q) /\ Bounded(Q, sent[f])
  <2>1. \A j \in 1 .. 6 : Q[j] \subseteq P[j]
    <3>. HIDE DEF P, Q
    <3>1. \A j \in {1, 2, 3} : j \in 1 .. 3
      OBVIOUS
    <3>2. QED
      BY ONLY <1>4, <1>7, <1>8, <3>1
  <2>. HIDE DEF P, Q
  <2>2. QED
    BY ONLY <1>1, <2>1 DEF Sorted, Bounded
<1>9. CASE CustomTest
  <2>. DEFINE head == Head(customQueue)
  <2>1. /\ customQueue # <<>> /\ customQueue' = Tail(customQueue) /\ executing = Nothing
        /\ executing' = IF ExistsId(head.entity) THEN head ELSE Nothing
        /\ executed' = executed
    BY <1>9 DEF CustomTest
  <2>2. /\ QueuedFor(customQueue', f) \subseteq QueuedFor(customQueue, f)
        /\ head.entity = f => head.msg \in QueuedFor(customQueue, f)
        /\ InQueue(customQueue', f)
        /\ head.entity = f => \A n \in QueuedFor(customQueue', f) : head.msg < n
    BY <1>0, <1>1, <2>1, InQueueTail
  <2>. HIDE DEF P, Q, head
  <2>3. Sorted(Q) /\ Bounded(Q, sent[f])
    <3>1. CASE head.entity # f \/ executing' = Nothing
      <4>1. Q[1] = P[1] /\ Q[2] = {} /\ Q[3] \subseteq P[3]
        BY ONLY <1>2, <1>3, <2>1, <2>2, <3>1
      <4>2. \A j \in 1 .. 3 : j \in {1, 2, 3}
        OBVIOUS
      <4>3. \A j \in 1 .. 3 : Q[j] \subseteq P[j]
        BY ONLY <4>1, <4>2
      <4>4. QED
        BY <1>8, <4>3
    <3>2. CASE head.entity = f /\ executing' # Nothing
      <4>. DEFINE h == head.msg
      <4>1. Q[1] = P[1] /\ P[2] = {} /\ Q[2] = {h} /\ Q[3] \subseteq P[3] /\ h \in P[3]
        BY ONLY <1>2, <1>3, <2>1, <2>2, <3>2
      <4>. HIDE DEF h
      <4>2. \A j \in 1 .. 6 : j # 2 => Q[j] \subseteq P[j]
        BY ONLY <1>4, <1>7, <4>1
      <4>3. \A j \in 1 .. 6 : j <= 2 => j = 1 \/ j = 2
        OBVIOUS
      <4>4. \A n \in P[1] : n < h
        BY ONLY <1>1, <4>1 DEF Sorted
      <4>5. \A n \in Q[3] : h < n
        BY <1>3, <2>2, <3>2 DEF h
      <4>6. \A j \in {4, 5, 6} : \A n \in Q[j] : h < n
        BY ONLY <1>1, <1>4, <4>1 DEF Sorted
      <4>7. \A j \in 1 .. 6 : j <= 2 => \A n \in P[j] : n < h
        BY ONLY <4>1, <4>3, <4>4
      <4>8. \A j \in 1 .. 6 : 2 < j => \A n \in Q[j] : h < n
        <5>1. \A j \in 1 .. 6 : 2 < j => j \in {3, 4, 5, 6}
          OBVIOUS
        <5>2. QED
          BY ONLY <4>5, <4>6, <5>1
      <4>9. Sorted(Q)
        <5>1. 2 \in 1 .. 6 /\ Q[2] \subseteq P[2] \union {h}
          BY <4>1
        <5>2. QED
          BY ONLY <1>1, <4>2, <4>7, <4>8, <5>1, Moves
      <4>10. Bounded(Q, sent[f])
        BY ONLY <1>1, <4>1, <4>2 DEF Bounded
      <4>11. QED
        BY <4>9, <4>10
    <3>3. QED
      BY <3>1, <3>2
  <2>4. QED
    BY <1>1, <1>6, <2>1, <2>2, <2>3
<1>10. CASE CustomExecute
  <2>. DEFINE h == executing.msg
              e == executing.entity
  <2>1. /\ executing # Nothing /\ executing' = Nothing /\ customQueue' = customQueue
        /\ executed' = [executed EXCEPT ![e] = Append(@, h)]
    BY <1>10 DEF CustomExecute, queueVars, Execute
  <2>2. e \in Entities /\ h \in Messages
    BY <1>0, <2>1, QueuedFields
  <2>3. CASE e # f
    <3>1. executed'[f] = executed[f]
      BY <1>0, <2>1, <2>3
    <3>. HIDE DEF P, Q
    <3>2. \A j \in 1 .. 3 : Q[j] \subseteq P[j]
      <4>1. \A j \in 1 .. 3 : j \in {1, 2, 3}
        OBVIOUS
      <4>2. Q[2] = {}
        BY ONLY <1>3, <2>1, <1>0
      <4>3. QED
        BY ONLY <1>2, <1>3, <2>1, <3>1, <4>1, <4>2
    <3>3. QED
      BY <1>1, <1>6, <1>8, <2>1, <3>1, <3>2
  <2>4. CASE e = f
    <3>. HIDE DEF P, Q
    <3>1. P[2] = {h}
      BY <1>2, <2>1, <2>4
    <3>. HIDE DEF h
    <3>2. executed'[f] = Append(executed[f], h)
      BY <1>0, <2>1, <2>4
    <3>3. Elements(executed'[f]) = Elements(executed[f]) \union {h}
      BY ONLY <1>0, <2>2, <3>2, ElementsOfAppend
    <3>4. Q[1] = P[1] \union {h} /\ Q[2] = {} /\ Q[3] = P[3]
      BY ONLY <1>0, <1>2, <1>3, <2>1, <3>3
    <3>5. \A n \in P[1] : n < h
      BY ONLY <1>1, <3>1 DEF Sorted
    <3>6. \A j \in 1 .. 6 : j # 1 => Q[j] \subseteq P[j]
      BY ONLY <1>4, <1>7, <3>4
    <3>7. \A j \in 1 .. 6 : j <= 1 => \A n \in P[j] : n < h
      <4>1. \A j \in 1 .. 6 : j <= 1 => j = 1
        OBVIOUS
      <4>2. QED
        BY ONLY <3>5, <4>1
    <3>8. \A j \in 1 .. 6 : 1 < j => \A n \in Q[j] : h < n
      <4>1. \A j \in {3, 4, 5, 6} : \A n \in Q[j] : h < n
        BY ONLY <1>1, <1>4, <3>1, <3>4 DEF Sorted
      <4>2. \A j \in 1 .. 6 : 1 < j => j = 2 \/ j \in {3, 4, 5, 6}
        OBVIOUS
      <4>3. QED
        BY ONLY <3>4, <4>1, <4>2
    <3>9. Sorted(Q)
      <4>1. 1 \in 1 .. 6 /\ Q[1] \subseteq P[1] \union {h}
        BY <3>4
      <4>2. QED
        BY ONLY <1>1, <3>6, <3>7, <3>8, <4>1, Moves
    <3>10. Bounded(Q, sent[f])
      <4>1. h <= sent[f]
        BY ONLY <1>1, <3>1
      <4>2. QED
        BY ONLY <1>1, <3>4, <3>6, <4>1 DEF Bounded
    <3>11. Increasing(executed'[f])
      <4>1. \A n \in Elements(executed[f]) : n < h
        BY <1>2, <3>5
      <4>2. QED
        BY ONLY <1>0, <1>1, <2>2, <3>2, <4>1, IncreasingAppend
    <3>12. QED
      BY <1>1, <1>6, <2>1, <3>9, <3>10, <3>11
  <2>5. QED
    BY <2>3, <2>4
<1>11. QED
  BY <1>9, <1>10 DEF CustomStep

LEMMA LineStep == BrokerTypeOK /\ PlaceInv /\ LineInv /\ [BrokerNext]_vars => LineInv'
<1>. SUFFICES ASSUME BrokerTypeOK, PlaceInv, LineInv, [BrokerNext]_vars,
                     NEW f \in Entities, Scheduler[f] # "default", ~overtaken'[f]
              PROVE  InLine(f)'
  BY DEF LineInv
<1>1. /\ sent[f] \in Nat /\ sent'[f] \in Nat /\ sent[f] <= sent'[f] /\ ~overtaken[f]
      /\ InLine(f) /\ InQueue(customQueue, f)
  <2>1. sent[f] \in Nat /\ sent'[f] \in Nat /\ sent[f] <= sent'[f] /\ ~overtaken[f]
    BY HistoryGrows
  <2>2. QED
    BY <2>1 DEF LineInv, InLine
<1>2. ASSUME NEW e \in Entities, Keep(e) \/ DispatchNow(e) \/ KeepForCustom(e)
      PROVE  InLine(f)'
  BY <1>1, <1>2, LineArrival
<1>3. CASE RunDeliver
  BY <1>1, <1>3, LineDeliver
<1>4. CASE Erase
  BY <1>1, <1>4, LineErase
<1>5. CASE Flush
  BY <1>1, <1>5, LineFlush
<1>6. CASE CustomStep
  BY <1>1, <1>6, LineCustom
<1>7. ASSUME executed'[f] = executed[f], UNCHANGED <<executing, customQueue, broker>>,
             running' = running \/ running'.at # "flush"
      PROVE  InLine(f)'
  <2>1. Flushing(f)' => Flushing(f) /\ running'.kept = running.kept
    BY ONLY <1>7 DEF Flushing
  <2>2. QED
    BY <1>1, <1>7, <2>1, LineUnchanged
<1>8. CASE RunInvoke
  <2>. DEFINE head == Head(queue)
  <2>1. /\ queue # <<>> /\ head.action = "invoke" /\ ExecuteIfExists(head.entity, head.msg)
        /\ UNCHANGED <<executing, customQueue, broker, running>>
    BY <1>8 DEF RunInvoke, Runs, brokerVars
  <2>2. Scheduler[head.entity] = "default"
    <3>1. head \in Elements(queue)
      BY <2>1, ElementsOfTail DEF BrokerTypeOK
    <3>2. QED
      BY <2>1, <3>1 DEF PlaceInv, QueuePlace
  <2>3. head.entity # f
    BY <2>2
  <2>4. executed'[f] = executed[f]
    BY <2>1, <2>3 DEF ExecuteIfExists, Execute, BrokerTypeOK
  <2>5. QED
    BY <1>7, <2>1, <2>4
<1>9. CASE RunDangling \/ Check \/ FlushNull \/ Unbind \/ Collide \/ UNCHANGED vars
  <2>1. UNCHANGED <<executed, executing, customQueue, broker>>
    BY <1>9 DEF RunDangling, Runs, Check, FlushNull, Unbind, Collide, Unlocked, vars,
                brokerVars, queueVars
  <2>2. running' = running \/ running'.at # "flush"
    <3>1. running \in Actions
      BY DEF BrokerTypeOK
    <3>2. CASE Check
      BY <3>1, <3>2, NoMqTypes, ActionFields DEF Check
    <3>3. CASE Unbind
      BY <3>3, NoMqTypes DEF Unbind
    <3>4. CASE ~Check /\ ~Unbind
      BY <1>9, <3>4 DEF RunDangling, FlushNull, Collide, vars
    <3>5. QED
      BY <3>2, <3>3, <3>4
  <2>3. QED
    BY <1>7, <2>1, <2>2
<1>10. ASSUME NEW e \in Entities, Bind(e) \/ Unsubscribe(e) PROVE InLine(f)'
  <2>1. UNCHANGED <<executed, executing, customQueue, broker>>
    BY <1>10 DEF Bind, Unsubscribe, queueVars
  <2>2. running' = running \/ running'.at # "flush"
    BY <1>10 DEF Bind, Unsubscribe
  <2>3. QED
    BY <1>7, <2>1, <2>2
<1>11. QED
  BY <1>2, <1>3, <1>4, <1>5, <1>6, <1>8, <1>9, <1>10 DEF BrokerNext, DefaultStep

LEMMA LineInit == BrokerInit => LineInv
<1>. SUFFICES ASSUME BrokerInit, NEW e \in Entities PROVE InLine(e)
  BY DEF LineInv
<1>1. /\ executed[e] = <<>> /\ customQueue = <<>> /\ executing = Nothing
      /\ broker[e].default = <<>> /\ broker[e].custom = <<>> /\ ~Flushing(e)
  BY DEF BrokerInit, NoMq, Idle, Flushing
<1>2. QueuedFor(<<>>, e) = {} /\ InQueue(<<>>, e)
  BY DEF QueuedFor, InQueue
<1>3. \A k \in 1 .. 6 : Line(e)[k] = {}
  <2>1. \A k \in 1 .. 6 : k \in {1, 2, 3, 4, 5, 6}
    OBVIOUS
  <2>2. QED
    BY <1>1, <1>2, <2>1, Stations, IncreasingNothing
<1>4. QED
  BY <1>1, <1>2, <1>3, IncreasingNothing DEF InLine, Sorted

\* An action for e with a message newer than all joins the queue.
LEMMA LabelAppend ==
    ASSUME NEW S, NEW q \in Seq(S), NEW x \in S, NEW e, NEW mq, NEW kept, NEW done,
           NEW n \in Nat, NEW label \in [DOMAIN q -> 0 .. n],
           Labelled(q, e, mq, kept, done, label),
           x.entity = e, x.action \in {"deliver", "invoke"},
           x.action = "deliver" => x.mq = mq, x.action = "invoke" => x.msg = n + 1,
           \A d \in done : d <= n /\ d \in Nat
    PROVE  \E l \in [DOMAIN Append(q, x) -> 0 .. n + 1] :
             Labelled(Append(q, x), e, mq,
                      IF x.action = "deliver" THEN kept \union {n + 1} ELSE kept, done, l)
<1>. DEFINE t == Append(q, x)
            last == Len(q) + 1
            l == [i \in DOMAIN t |-> IF i = last THEN n + 1 ELSE label[i]]
            now == IF x.action = "deliver" THEN kept \union {n + 1} ELSE kept
<1>1. /\ DOMAIN t = DOMAIN q \union {last} /\ t[last] = x /\ last \notin DOMAIN q
      /\ \A i \in DOMAIN q : t[i] = q[i] /\ i < last /\ i \in Nat
      /\ last \in Nat
  BY Appended
<1>. HIDE DEF t, last
<1>2. /\ l \in [DOMAIN t -> 0 .. n + 1] /\ l[last] = n + 1
      /\ \A i \in DOMAIN q : l[i] = label[i] /\ l[i] \in Nat /\ l[i] < n + 1
  BY <1>1
<1>. HIDE DEF l
<1>3. /\ \A i \in DOMAIN q : Mine(t, e, mq, i) <=> Mine(q, e, mq, i)
      /\ Mine(t, e, mq, last)
  BY <1>1 DEF Mine
<1>4. ASSUME NEW i \in DOMAIN t, NEW j \in DOMAIN t, Mine(t, e, mq, i), Mine(t, e, mq, j), i < j
      PROVE  l[i] < l[j]
  <2>1. i \in DOMAIN q
    BY ONLY <1>1, <1>4
  <2>2. CASE j \in DOMAIN q
    BY ONLY <1>2, <1>3, <1>4, <2>1, <2>2, Labelled(q, e, mq, kept, done, label) DEF Labelled
  <2>3. CASE j = last
    BY ONLY <1>2, <2>1, <2>3
  <2>4. QED
    BY <1>1, <2>2, <2>3
<1>5. ASSUME NEW i \in DOMAIN t, Mine(t, e, mq, i)
      PROVE  /\ t[i].action = "invoke" => l[i] = t[i].msg
             /\ t[i].action = "deliver" => l[i] \in now
             /\ \A d \in done : d < l[i]
  <2>1. CASE i \in DOMAIN q
    BY ONLY <1>1, <1>2, <1>3, <1>5, <2>1, Labelled(q, e, mq, kept, done, label) DEF Labelled
  <2>2. CASE i = last
    BY <1>1, <1>2, <2>2
  <2>3. QED
    BY <1>1, <2>1, <2>2
<1>6. ASSUME NEW k \in now
      PROVE  \E i \in DOMAIN t : Mine(t, e, mq, i) /\ t[i].action = "deliver" /\ l[i] = k
  <2>1. CASE k \in kept
    <3>1. PICK i \in DOMAIN q : Mine(q, e, mq, i) /\ q[i].action = "deliver" /\ label[i] = k
      BY <2>1 DEF Labelled
    <3>2. QED
      BY ONLY <1>1, <1>2, <1>3, <3>1
  <2>2. CASE x.action = "deliver" /\ k = n + 1
    BY ONLY <1>1, <1>2, <1>3, <2>2
  <2>3. QED
    BY <2>1, <2>2
<1>. HIDE DEF now
<1>7. Labelled(t, e, mq, now, done, l)
  BY ONLY <1>4, <1>5, <1>6 DEF Labelled
<1>8. QED
  BY <1>2, <1>7 DEF t, now

\* An action for another entity changes nothing.
LEMMA LabelOther ==
    ASSUME NEW S, NEW q \in Seq(S), NEW x \in S, NEW e, NEW mq, NEW kept, NEW done,
           NEW n \in Nat, NEW label \in [DOMAIN q -> 0 .. n],
           Labelled(q, e, mq, kept, done, label), x.entity # e
    PROVE  \E l \in [DOMAIN Append(q, x) -> 0 .. n] :
             Labelled(Append(q, x), e, mq, kept, done, l)
<1>. DEFINE t == Append(q, x)
            last == Len(q) + 1
            l == [i \in DOMAIN t |-> IF i = last THEN 0 ELSE label[i]]
<1>1. /\ DOMAIN t = DOMAIN q \union {last} /\ t[last] = x /\ last \notin DOMAIN q
      /\ \A i \in DOMAIN q : t[i] = q[i] /\ i < last /\ i \in Nat
      /\ last \in Nat
  BY Appended
<1>. HIDE DEF t, last
<1>2. /\ l \in [DOMAIN t -> 0 .. n]
      /\ \A i \in DOMAIN q : l[i] = label[i]
  BY <1>1
<1>. HIDE DEF l
<1>3. \A i \in DOMAIN t : Mine(t, e, mq, i) <=> (i \in DOMAIN q /\ Mine(q, e, mq, i))
  BY <1>1 DEF Mine
<1>4. Labelled(t, e, mq, kept, done, l)
  BY ONLY <1>1, <1>2, <1>3, Labelled(q, e, mq, kept, done, label) DEF Labelled
<1>5. QED
  BY <1>2, <1>4 DEF t

\* The first action is taken.  If it is for e, its message is the first of all
\* that wait for e.
LEMMA LabelTail ==
    ASSUME NEW S, NEW q \in Seq(S), q # <<>>, NEW e, NEW mq, NEW kept, NEW done,
           NEW n \in Nat, NEW label \in [DOMAIN q -> 0 .. n],
           Labelled(q, e, mq, kept, done, label),
           Head(q).action \in {"deliver", "invoke"}
    PROVE  \E l \in [DOMAIN Tail(q) -> 0 .. n] :
             Labelled(Tail(q), e, mq,
                      IF Mine(q, e, mq, 1) /\ Head(q).action = "deliver"
                      THEN kept \ {label[1]} ELSE kept,
                      IF Mine(q, e, mq, 1) THEN done \union {label[1]} ELSE done, l)
<1>. DEFINE t == Tail(q)
            h == Head(q)
            l == [i \in DOMAIN t |-> label[i + 1]]
            now == IF Mine(q, e, mq, 1) /\ h.action = "deliver"
                   THEN kept \ {label[1]} ELSE kept
            did == IF Mine(q, e, mq, 1) THEN done \union {label[1]} ELSE done
<1>1. /\ 1 \in DOMAIN q /\ h = q[1]
      /\ \A i \in DOMAIN t : i \in Nat \ {0} /\ i + 1 \in DOMAIN q /\ t[i] = q[i + 1]
      /\ \A i \in DOMAIN q : i # 1 =>
           i \in Nat /\ i > 1 /\ i - 1 \in DOMAIN t /\ t[i - 1] = q[i]
  BY Taken
<1>2. h.action \in {"deliver", "invoke"}
  OBVIOUS
<1>3. IF Mine(q, e, mq, 1)
      THEN /\ now = IF h.action = "deliver" THEN kept \ {label[1]} ELSE kept
           /\ did \subseteq done \union {label[1]}
      ELSE now = kept /\ did = done
  OBVIOUS
<1>. HIDE DEF t, h, now, did
<1>4. l \in [DOMAIN t -> 0 .. n] /\ \A i \in DOMAIN t : l[i] = label[i + 1]
  BY <1>1
<1>. HIDE DEF l
<1>5. \A i \in DOMAIN t : Mine(t, e, mq, i) <=> Mine(q, e, mq, i + 1)
  BY <1>1 DEF Mine
<1>6. \A i \in DOMAIN t : Mine(q, e, mq, 1) /\ Mine(t, e, mq, i) => label[1] < l[i]
  BY ONLY <1>1, <1>4, <1>5, Labelled(q, e, mq, kept, done, label) DEF Labelled
<1>7. ASSUME NEW i \in DOMAIN t, NEW j \in DOMAIN t, Mine(t, e, mq, i), Mine(t, e, mq, j), i < j
      PROVE  l[i] < l[j]
  BY ONLY <1>1, <1>4, <1>5, <1>7, Labelled(q, e, mq, kept, done, label) DEF Labelled
<1>8. ASSUME NEW i \in DOMAIN t, Mine(t, e, mq, i)
      PROVE  /\ t[i].action = "invoke" => l[i] = t[i].msg
             /\ t[i].action = "deliver" => l[i] \in now
             /\ \A d \in did : d < l[i]
  <2>1. /\ i + 1 \in DOMAIN q /\ Mine(q, e, mq, i + 1) /\ l[i] = label[i + 1]
        /\ t[i] = q[i + 1]
    BY <1>1, <1>4, <1>5, <1>8
  <2>2. /\ t[i].action = "invoke" => l[i] = t[i].msg
        /\ t[i].action = "deliver" => l[i] \in kept
        /\ \A d \in done : d < l[i]
    BY ONLY <2>1, Labelled(q, e, mq, kept, done, label) DEF Labelled
  <2>3. Mine(q, e, mq, 1) => label[1] < l[i] /\ label[1] \in 0 .. n /\ l[i] \in 0 .. n
    BY <1>1, <1>4, <1>6, <1>8
  <2>4. Mine(q, e, mq, 1) => l[i] # label[1]
    BY ONLY <2>3, n \in Nat
  <2>5. QED
    BY ONLY <1>3, <2>2, <2>3, <2>4
<1>9. ASSUME NEW k \in now
      PROVE  \E i \in DOMAIN t : Mine(t, e, mq, i) /\ t[i].action = "deliver" /\ l[i] = k
  <2>1. k \in kept /\ (Mine(q, e, mq, 1) /\ h.action = "deliver" => k # label[1])
    BY ONLY <1>3, <1>9
  <2>2. PICK i \in DOMAIN q : Mine(q, e, mq, i) /\ q[i].action = "deliver" /\ label[i] = k
    BY ONLY <2>1, Labelled(q, e, mq, kept, done, label) DEF Labelled
  <2>3. i # 1
    BY ONLY <1>1, <2>1, <2>2
  <2>4. i - 1 \in DOMAIN t /\ t[i - 1] = q[i] /\ (i - 1) + 1 = i
    BY ONLY <1>1, <2>3
  <2>5. QED
    BY ONLY <1>4, <1>5, <2>2, <2>4
<1>10. Labelled(t, e, mq, now, did, l)
  BY ONLY <1>7, <1>8, <1>9 DEF Labelled
<1>11. QED
  BY <1>4, <1>10 DEF t, h, now, did

\* An Mq with a number that no queued action has keeps nothing yet.
LEMMA LabelFresh ==
    ASSUME NEW q, NEW e, NEW mq, NEW kept, NEW done, NEW label,
           Labelled(q, e, mq, kept, done, label), NEW fresh,
           \A i \in DOMAIN q : q[i].entity = e /\ q[i].action = "deliver" => q[i].mq # fresh
    PROVE  Labelled(q, e, fresh, {}, done, label)
<1>1. \A i \in DOMAIN q : Mine(q, e, fresh, i) => Mine(q, e, mq, i) /\ q[i].action # "deliver"
  BY DEF Mine
<1>2. QED
  BY ONLY <1>1, Labelled(q, e, mq, kept, done, label) DEF Labelled

LEMMA OrderedParts ==
    ASSUME NEW e
    PROVE  Ordered(e)' <=>
             /\ Increasing(executed'[e]) /\ Increasing(broker'[e].default)
             /\ \A n \in Elements(executed'[e]) : n <= sent'[e]
             /\ \E label \in [DOMAIN queue' -> 0 .. sent'[e]] :
                  Labelled(queue', e, broker'[e].mq, Elements(broker'[e].default),
                           Elements(executed'[e]), label)
BY DEF Ordered, Increasing, Elements, Labelled, Mine

\* What an ordered entity is known by.
LEMMA OrderedFacts ==
    ASSUME BrokerTypeOK, NEW f \in Entities, Ordered(f)
    PROVE  /\ Increasing(executed[f]) /\ Increasing(broker[f].default)
           /\ executed[f] \in Seq(Messages) /\ broker[f].default \in Seq(Messages)
           /\ broker[f].mq \in Nat /\ sent[f] \in Nat
           /\ \A n \in Elements(executed[f]) : n <= sent[f] /\ n \in Nat
           /\ queue \in Seq(Deliveries \union Invokes)
<1>1. executed[f] \in Seq(Messages) /\ broker[f] \in Mqs
  BY DEF BrokerTypeOK
<1>2. \A n \in Elements(executed[f]) : n \in Nat
  BY <1>1 DEF Elements, Messages
<1>3. broker[f].default \in Seq(Messages) /\ broker[f].mq \in Nat
  BY ONLY <1>1 DEF Mqs
<1>4. QED
  BY <1>1, <1>2, <1>3 DEF Ordered, BrokerTypeOK

LEMMA OrderedQuiet ==
    ASSUME BrokerTypeOK, NEW f \in Entities, Ordered(f),
           sent'[f] \in Nat, sent[f] <= sent'[f], queue' = queue,
           broker'[f].default = broker[f].default, broker'[f].mq = broker[f].mq,
           executed'[f] = executed[f]
    PROVE  Ordered(f)'
<1>1. sent[f] \in Nat /\ \A n \in Elements(executed[f]) : n <= sent[f] /\ n \in Nat
  BY OrderedFacts
<1>2. PICK label \in [DOMAIN queue -> 0 .. sent[f]] :
        Labelled(queue, f, broker[f].mq, Elements(broker[f].default),
                 Elements(executed[f]), label)
  BY DEF Ordered
<1>3. label \in [DOMAIN queue' -> 0 .. sent'[f]]
  BY <1>1
<1>4. Increasing(executed'[f]) /\ Increasing(broker'[f].default)
  BY DEF Ordered
<1>5. \A n \in Elements(executed'[f]) : n <= sent'[f]
  BY <1>1
<1>6. Labelled(queue', f, broker'[f].mq, Elements(broker'[f].default),
               Elements(executed'[f]), label)
  BY <1>2
<1>7. QED
  BY ONLY <1>3, <1>4, <1>5, <1>6, OrderedParts

\* The queue gains an action for another entity.
LEMMA OrderedOther ==
    ASSUME BrokerTypeOK, NEW f \in Entities, Ordered(f),
           sent' [f] = sent[f], NEW x \in Deliveries \union Invokes, x.entity # f,
           queue' = Append(queue, x),
           broker'[f].default = broker[f].default, broker'[f].mq = broker[f].mq,
           executed'[f] = executed[f]
    PROVE  Ordered(f)'
<1>1. /\ queue \in Seq(Deliveries \union Invokes) /\ sent[f] \in Nat
      /\ Increasing(executed'[f]) /\ Increasing(broker'[f].default)
      /\ \A n \in Elements(executed'[f]) : n <= sent'[f]
  BY OrderedFacts
<1>. DEFINE mq   == broker[f].mq
            kept == Elements(broker[f].default)
            done == Elements(executed[f])
            n    == sent[f]
<1>2. PICK label \in [DOMAIN queue -> 0 .. n] : Labelled(queue, f, mq, kept, done, label)
  BY DEF Ordered
<1>3. /\ Elements(broker'[f].default) = kept /\ Elements(executed'[f]) = done
      /\ broker'[f].mq = mq /\ sent'[f] = n /\ n \in Nat
  BY <1>1
<1>. HIDE DEF mq, kept, done, n
<1>4. \E l \in [DOMAIN Append(queue, x) -> 0 .. n] :
        Labelled(Append(queue, x), f, mq, kept, done, l)
  BY ONLY <1>1, <1>2, <1>3, x.entity # f, x \in Deliveries \union Invokes, LabelOther
<1>5. \E l \in [DOMAIN queue' -> 0 .. sent'[f]] :
        Labelled(queue', f, broker'[f].mq, Elements(broker'[f].default),
                 Elements(executed'[f]), l)
  BY ONLY <1>3, <1>4, queue' = Append(queue, x)
<1>6. QED
  BY ONLY <1>1, <1>5, OrderedParts

\* A message for the entity joins the queue.
LEMMA OrderedArrival ==
    ASSUME BrokerTypeOK, QueuePlace, NEW e \in Entities, Ordered(e),
           Scheduler[e] = "default", Keep(e) \/ DispatchNow(e)
    PROVE  Ordered(e)'
<1>0. Arrives(e)
  BY DEF Keep, DispatchNow
<1>. DEFINE done == Elements(executed[e])
            n    == sent[e]
<1>1. /\ queue \in Seq(Deliveries \union Invokes) /\ n \in Nat /\ n + 1 \in Messages
      /\ sent'[e] = n + 1 /\ broker \in [Entities -> Mqs]
      /\ Increasing(executed[e]) /\ Increasing(broker[e].default)
      /\ broker[e].default \in Seq(Messages) /\ broker[e].mq \in Nat
      /\ \A d \in done : d <= n /\ d \in Nat
  <2>1. broker \in [Entities -> Mqs]
    BY DEF BrokerTypeOK
  <2>2. QED
    BY <1>0, <2>1, ArrivesTypes, OrderedFacts
<1>2. PICK label \in [DOMAIN queue -> 0 .. n] :
        Labelled(queue, e, broker[e].mq, Elements(broker[e].default), done, label)
  BY DEF Ordered
<1>3. \A i \in DOMAIN queue : label[i] <= n
  BY <1>1, <1>2
<1>4. CASE DispatchNow(e)
  <2>. DEFINE x == Invoke(e, n + 1)
              mq == broker[e].mq
              kept == Elements(broker[e].default)
  <2>1. queue' = Append(queue, x) /\ UNCHANGED <<broker, executed>>
    BY <1>4 DEF DispatchNow, QueueInvocation, brokerVars
  <2>2. /\ x \in Deliveries \union Invokes /\ x.entity = e /\ x.action = "invoke"
        /\ x.msg = n + 1
    BY <1>1, QueuedFields
  <2>3. Labelled(queue, e, mq, kept, done, label)
    BY <1>2
  <2>4. /\ Increasing(executed'[e]) /\ Increasing(broker'[e].default)
        /\ \A d \in Elements(executed'[e]) : d <= sent'[e]
    BY <1>1, <2>1
  <2>5. /\ broker'[e].mq = mq /\ Elements(broker'[e].default) = kept
        /\ Elements(executed'[e]) = done
    BY <2>1
  <2>. HIDE DEF x, mq, kept, done, n
  <2>6. \E l \in [DOMAIN Append(queue, x) -> 0 .. n + 1] :
          Labelled(Append(queue, x), e, mq,
                   IF x.action = "deliver" THEN kept \union {n + 1} ELSE kept, done, l)
    BY ONLY <1>1, <1>2, <2>2, <2>3, LabelAppend
  <2>7. \E l \in [DOMAIN queue' -> 0 .. sent'[e]] :
          Labelled(queue', e, broker'[e].mq, Elements(broker'[e].default),
                   Elements(executed'[e]), l)
    BY ONLY <1>1, <2>1, <2>2, <2>5, <2>6
  <2>8. QED
    BY ONLY <2>4, <2>7, OrderedParts
<1>5. CASE Keep(e)
  <2>. DEFINE mq == IF broker[e].mq = 0 THEN n + 1 ELSE broker[e].mq
              x == Deliver(e, mq)
              kept == Elements(broker[e].default)
  <2>1. /\ broker' = [broker EXCEPT ![e].mq = mq, ![e].default = Append(@, n + 1)]
        /\ queue' = Append(queue, x) /\ UNCHANGED executed
    BY <1>5 DEF Keep
  <2>2. mq \in Nat
    BY <1>1
  <2>3. Labelled(queue, e, mq, kept, done, label)
    <3>1. CASE broker[e].mq # 0
      BY <1>2, <3>1
    <3>2. CASE broker[e].mq = 0
      <4>1. kept = {}
        BY <3>2, ElementsOfNothing DEF BrokerTypeOK, NoMq
      <4>2. \A i \in DOMAIN queue :
              queue[i].entity = e /\ queue[i].action = "deliver" => queue[i].mq # n + 1
        <5>1. \A i \in DOMAIN queue :
                queue[i].entity = e /\ queue[i].action = "deliver" => queue[i].mq \in 1 .. n
          BY DEF QueuePlace, Elements
        <5>2. QED
          BY ONLY <1>1, <5>1
      <4>3. Labelled(queue, e, n + 1, {}, done, label)
        <5>. HIDE DEF n, done
        <5>1. QED
          BY ONLY <1>2, <4>2, LabelFresh
      <4>4. QED
        BY <3>2, <4>1, <4>3
    <3>3. QED
      BY <3>1, <3>2
  <2>. HIDE DEF mq
  <2>4. x \in Deliveries \union Invokes /\ x.entity = e /\ x.action = "deliver" /\ x.mq = mq
    BY <2>2, QueuedFields
  <2>5. broker'[e] = [mq |-> mq, default |-> Append(broker[e].default, n + 1),
                      custom |-> broker[e].custom]
    BY <1>1, <2>1, <2>2, KeepBroker
  <2>6. broker'[e].mq = mq /\ broker'[e].default = Append(broker[e].default, n + 1)
    BY ONLY <2>5
  <2>. HIDE DEF x, done, n
  <2>7. Elements(broker'[e].default) = kept \union {n + 1}
    BY ONLY <1>1, <2>6, ElementsOfAppend
  <2>8. Increasing(broker'[e].default)
    <3>1. \A k \in kept : k < n + 1
      <4>1. \A k \in kept : \E i \in DOMAIN queue : label[i] = k
        BY <2>3 DEF Labelled
      <4>. HIDE DEF kept
      <4>2. QED
        BY ONLY <1>1, <1>2, <4>1
    <3>2. QED
      BY ONLY <1>1, <2>6, <3>1, IncreasingAppend
  <2>9. Elements(executed'[e]) = done /\ Increasing(executed'[e])
        /\ \A d \in Elements(executed'[e]) : d <= sent'[e]
    BY <1>1, <2>1 DEF done
  <2>. HIDE DEF kept
  <2>10. \E l \in [DOMAIN Append(queue, x) -> 0 .. n + 1] :
           Labelled(Append(queue, x), e, mq,
                    IF x.action = "deliver" THEN kept \union {n + 1} ELSE kept, done, l)
    BY ONLY <1>1, <1>2, <2>3, <2>4, LabelAppend
  <2>11. \E l \in [DOMAIN queue' -> 0 .. sent'[e]] :
           Labelled(queue', e, broker'[e].mq, Elements(broker'[e].default),
                    Elements(executed'[e]), l)
    BY ONLY <1>1, <2>1, <2>4, <2>6, <2>7, <2>9, <2>10
  <2>12. QED
    BY ONLY <2>8, <2>9, <2>11, OrderedParts
<1>6. QED
  BY <1>4, <1>5

\* The default scheduler takes the first action of the queue.
LEMMA OrderedTaken ==
    ASSUME BrokerTypeOK, NEW f \in Entities, Ordered(f), sent' = sent,
           queue # <<>>, queue' = Tail(queue), broker'[f].mq = broker[f].mq,
           IF Mine(queue, f, broker[f].mq, 1)
           THEN IF Head(queue).action = "deliver"
                THEN /\ broker[f].default # <<>> =>
                          broker'[f].default = Tail(broker[f].default)
                     /\ \/ executed'[f] = executed[f]
                        \/ executed'[f] = Append(executed[f], Head(broker[f].default))
                ELSE /\ broker'[f].default = broker[f].default
                     /\ \/ executed'[f] = executed[f]
                        \/ executed'[f] = Append(executed[f], Head(queue).msg)
           ELSE broker'[f].default = broker[f].default /\ executed'[f] = executed[f]
    PROVE  Ordered(f)'
<1>. DEFINE mq    == broker[f].mq
            first == broker[f].default
            kept  == Elements(first)
            done  == Elements(executed[f])
            n     == sent[f]
            h     == Head(queue)
<1>1. /\ queue \in Seq(Deliveries \union Invokes) /\ n \in Nat
      /\ Increasing(executed[f]) /\ Increasing(first)
      /\ executed[f] \in Seq(Messages) /\ first \in Seq(Messages)
      /\ \A d \in done : d <= n /\ d \in Nat
      /\ sent'[f] = n /\ broker'[f].mq = mq
  BY OrderedFacts
<1>2. PICK label \in [DOMAIN queue -> 0 .. n] : Labelled(queue, f, mq, kept, done, label)
  BY DEF Ordered
<1>3. /\ h \in Deliveries \union Invokes /\ h.action \in {"deliver", "invoke"}
      /\ 1 \in DOMAIN queue /\ h = queue[1]
      /\ h.action = "invoke" => h.msg \in Messages
  <2>1. h \in Deliveries \union Invokes
    BY <1>1, TailTypes
  <2>2. 1 \in DOMAIN queue /\ h = queue[1]
    BY <1>1, Taken
  <2>3. QED
    BY <2>1, <2>2, QueuedFields
<1>4. ASSUME NEW now, NEW did,
             IF Mine(queue, f, mq, 1)
             THEN /\ now = IF h.action = "deliver" THEN kept \ {label[1]} ELSE kept
                  /\ did \subseteq done \union {label[1]}
             ELSE now = kept /\ did = done,
             now = Elements(broker'[f].default), did = Elements(executed'[f]),
             Increasing(broker'[f].default), Increasing(executed'[f])
      PROVE  Ordered(f)'
  <2>1. \E l \in [DOMAIN Tail(queue) -> 0 .. n] : Labelled(Tail(queue), f, mq, now, did, l)
    <3>1. Head(queue).action \in {"deliver", "invoke"} /\ queue # <<>>
      BY <1>3
    <3>. DEFINE S == Deliveries \union Invokes
                left == IF Mine(queue, f, mq, 1) /\ h.action = "deliver"
                        THEN kept \ {label[1]} ELSE kept
                most == IF Mine(queue, f, mq, 1) THEN done \union {label[1]} ELSE done
    <3>2. now = left /\ did \subseteq most
      BY <1>4
    <3>. HIDE DEF mq, first, kept, done, n
    <3>3. queue \in Seq(S) /\ n \in Nat
      BY <1>1
    <3>. HIDE DEF S
    <3>4. PICK l \in [DOMAIN Tail(queue) -> 0 .. n] :
            Labelled(Tail(queue), f, mq, left, most, l)
      BY ONLY <1>2, <3>1, <3>3, LabelTail
    <3>. HIDE DEF left, most
    <3>5. Labelled(Tail(queue), f, mq, now, did, l)
      BY ONLY <3>2, <3>4 DEF Labelled
    <3>6. QED
      BY <3>5
  <2>2. \A d \in did : d <= n
    <3>1. label[1] <= n
      BY <1>1, <1>2, <1>3
    <3>. HIDE DEF mq, first, kept, done, n, h
    <3>2. QED
      BY ONLY <1>1, <1>4, <3>1
  <2>3. queue' = Tail(queue)
    OBVIOUS
  <2>. HIDE DEF mq, n
  <2>4. \E l \in [DOMAIN queue' -> 0 .. sent'[f]] :
          Labelled(queue', f, broker'[f].mq, Elements(broker'[f].default),
                   Elements(executed'[f]), l)
    BY ONLY <1>1, <1>4, <2>1, <2>3
  <2>5. \A d \in Elements(executed'[f]) : d <= sent'[f]
    BY ONLY <1>1, <1>4, <2>2
  <2>6. QED
    BY ONLY <1>4, <2>4, <2>5, OrderedParts
<1>5. ASSUME Mine(queue, f, mq, 1), NEW m \in Messages, m = label[1],
             executed'[f] = executed[f] \/ executed'[f] = Append(executed[f], m)
      PROVE  /\ Increasing(executed'[f])
             /\ Elements(executed'[f]) \subseteq done \union {m}
  <2>1. \A d \in done : d < m
    BY <1>2, <1>3, <1>5 DEF Labelled
  <2>2. Increasing(Append(executed[f], m))
    BY <1>1, <2>1, IncreasingAppend
  <2>3. Elements(Append(executed[f], m)) = done \union {m}
    BY ONLY <1>1, m \in Messages, ElementsOfAppend
  <2>4. QED
    BY <1>1, <1>5, <2>2, <2>3
<1>6. CASE ~Mine(queue, f, mq, 1)
  <2>1. broker'[f].default = first /\ executed'[f] = executed[f]
    BY <1>6
  <2>2. QED
    BY <1>1, <1>4, <1>6, <2>1
<1>7. CASE Mine(queue, f, mq, 1) /\ h.action = "invoke"
  <2>1. /\ broker'[f].default = first
        /\ executed'[f] = executed[f] \/ executed'[f] = Append(executed[f], h.msg)
    BY <1>7
  <2>2. label[1] = h.msg /\ h.msg \in Messages
    BY <1>2, <1>3, <1>7 DEF Labelled
  <2>3. /\ Increasing(executed'[f])
        /\ Elements(executed'[f]) \subseteq done \union {label[1]}
    BY <1>5, <1>7, <2>1, <2>2
  <2>4. h.action # "deliver"
    BY <1>7
  <2>. HIDE DEF h, done
  <2>5. QED
    BY <1>1, <1>4, <1>7, <2>1, <2>3, <2>4
<1>8. CASE Mine(queue, f, mq, 1) /\ h.action = "deliver"
  <2>1. /\ first # <<>> => broker'[f].default = Tail(first)
        /\ \/ executed'[f] = executed[f]
           \/ executed'[f] = Append(executed[f], Head(first))
    BY <1>8
  <2>2. label[1] \in kept
    BY <1>2, <1>3, <1>8 DEF Labelled
  <2>3. first # <<>>
    BY <2>2, ElementsOfNothing
  <2>4. \A k \in kept : k = label[1] \/ label[1] < k
    <3>1. SUFFICES ASSUME NEW k \in kept PROVE k = label[1] \/ label[1] < k
      OBVIOUS
    <3>2. PICK i \in DOMAIN queue : Mine(queue, f, mq, i) /\ label[i] = k
      BY <1>2 DEF Labelled
    <3>3. i = 1 \/ 1 < i
      BY <1>1
    <3>. HIDE DEF mq, kept, done, n, h
    <3>4. QED
      BY ONLY <1>2, <1>3, <1>8, <3>2, <3>3 DEF Labelled
  <2>5. /\ Increasing(Tail(first)) /\ Head(first) \in kept
        /\ \A k \in Elements(Tail(first)) : Head(first) < k
        /\ kept = {Head(first)} \union Elements(Tail(first))
        /\ Head(first) \in Messages /\ Tail(first) \in Seq(Messages)
    BY <1>1, <2>3, IncreasingTail, ElementsOfTail, TailTypes
  <2>6. \A k \in Elements(Tail(first)) : k \in Nat
    BY <2>5 DEF Elements, Messages
  <2>. DEFINE m == Head(first)
              tail == Elements(Tail(first))
  <2>7. m = label[1]
    <3>1. m \in Nat /\ label[1] \in Nat
      BY <1>1, <1>2, <1>3, <2>5 DEF Messages
    <3>. HIDE DEF kept, m, tail
    <3>2. /\ m \in kept /\ kept = {m} \union tail /\ \A k \in tail : m < k /\ k \in Nat
      BY <2>5, <2>6 DEF m, tail
    <3>3. QED
      BY ONLY <2>2, <2>4, <3>1, <3>2
  <2>8. tail = kept \ {label[1]}
    <3>1. /\ m \in Nat /\ kept = {m} \union tail /\ \A k \in tail : m < k /\ k \in Nat
      BY <2>5, <2>6 DEF Messages
    <3>. HIDE DEF kept, m, tail
    <3>2. m \notin tail
      BY ONLY <3>1
    <3>3. QED
      BY ONLY <2>7, <3>1, <3>2
  <2>9. /\ Increasing(executed'[f])
        /\ Elements(executed'[f]) \subseteq done \union {label[1]}
    <3>. HIDE DEF first, mq, done
    <3>1. m \in Messages
      BY <2>5
    <3>. HIDE DEF m
    <3>2. QED
      BY <1>5, <1>8, <2>1, <2>7, <3>1 DEF m
  <2>10. broker'[f].default = Tail(first)
    BY <2>1, <2>3
  <2>. DEFINE did == Elements(executed'[f])
  <2>11. tail = Elements(broker'[f].default) /\ Increasing(broker'[f].default)
    BY <2>5, <2>10
  <2>12. did \subseteq done \union {label[1]} /\ did = Elements(executed'[f])
    BY <2>9
  <2>. HIDE DEF h, done, kept, tail, first, mq, did
  <2>13. QED
    BY <1>4, <1>8, <2>8, <2>9, <2>11, <2>12
<1>9. QED
  BY <1>3, <1>6, <1>7, <1>8

LEMMA OrderedErase ==
    ASSUME BrokerTypeOK, QueuePlace, NEW f \in Entities, Ordered(f), sent' = sent,
           queue' = queue, broker'[f] = NoMq, executed' = executed
    PROVE  Ordered(f)'
<1>. DEFINE mq   == broker[f].mq
            kept == Elements(broker[f].default)
            done == Elements(executed[f])
<1>1. PICK label \in [DOMAIN queue -> 0 .. sent[f]] :
        Labelled(queue, f, mq, kept, done, label)
  BY DEF Ordered
<1>2. \A i \in DOMAIN queue :
        queue[i].entity = f /\ queue[i].action = "deliver" => queue[i].mq # 0
  <2>1. \A i \in DOMAIN queue :
          queue[i].entity = f /\ queue[i].action = "deliver" => queue[i].mq \in 1 .. sent[f]
    BY DEF QueuePlace, Elements
  <2>2. sent[f] \in Nat
    BY DEF BrokerTypeOK
  <2>3. QED
    BY ONLY <2>1, <2>2
<1>3. Labelled(queue, f, 0, {}, done, label)
  <2>. HIDE DEF mq, kept, done
  <2>1. QED
    BY ONLY <1>1, <1>2, LabelFresh
<1>4. NoMq.mq = 0 /\ Elements(NoMq.default) = {} /\ Increasing(NoMq.default)
  BY IncreasingNothing DEF NoMq
<1>5. /\ Increasing(executed'[f]) /\ Increasing(broker'[f].default)
      /\ \A d \in Elements(executed'[f]) : d <= sent'[f]
  BY <1>4 DEF Ordered
<1>6. label \in [DOMAIN queue' -> 0 .. sent'[f]]
  OBVIOUS
<1>7. Labelled(queue', f, broker'[f].mq, Elements(broker'[f].default),
               Elements(executed'[f]), label)
  BY <1>3, <1>4
<1>8. QED
  BY ONLY <1>5, <1>6, <1>7, OrderedParts

\* An invocation for another entity changes nothing.
LEMMA OrderedInvocation ==
    ASSUME BrokerTypeOK, NEW e \in Entities, NEW m \in Messages, QueueInvocation(e, m),
           NEW f \in Entities, f # e, Ordered(f), sent'[f] = sent[f], broker'[f] = broker[f]
    PROVE  Ordered(f)'
<1>1. CASE Scheduler[e] = "default"
  <2>. DEFINE x == Invoke(e, m)
  <2>1. queue' = Append(queue, x) /\ executed' = executed
    BY <1>1 DEF QueueInvocation
  <2>2. x \in Deliveries \union Invokes /\ x.entity # f
    BY QueuedFields
  <2>. HIDE DEF x
  <2>3. QED
    BY <2>1, <2>2, OrderedOther
<1>2. CASE Scheduler[e] # "default"
  <2>1. Handed(e, m) /\ queue' = queue
    BY <1>2, QueuedIsHanded, QueueGains
  <2>2. executed'[f] = executed[f]
    BY <2>1, HandedToAnother
  <2>3. sent'[f] \in Nat /\ sent[f] <= sent'[f]
    BY DEF BrokerTypeOK
  <2>4. QED
    BY <2>1, <2>2, <2>3, OrderedQuiet
<1>3. QED
  BY <1>1, <1>2

LEMMA OrderedDefault ==
    ASSUME BrokerTypeOK, RunInvoke \/ RunDeliver, NEW f \in Entities,
           Scheduler[f] = "default", Ordered(f)
    PROVE  Ordered(f)'
<1>. DEFINE head  == Head(queue)
            e     == head.entity
            first == broker[e].default
<1>1. /\ queue # <<>> /\ queue' = Tail(queue) /\ sent' = sent
      /\ queue \in Seq(Deliveries \union Invokes)
      /\ broker \in [Entities -> Mqs] /\ executed \in [Entities -> Seq(Messages)]
  BY DEF RunInvoke, RunDeliver, Runs, BrokerTypeOK
<1>2. head \in Deliveries \union Invokes /\ e \in Entities /\ head = queue[1]
  <2>1. head \in Deliveries \union Invokes /\ head = queue[1]
    BY <1>1, Taken
  <2>2. QED
    BY <2>1, QueuedFields
<1>3. Mine(queue, f, broker[f].mq, 1)
        <=> e = f /\ (head.action = "deliver" => head.mq = broker[f].mq)
  BY <1>2 DEF Mine
<1>4. CASE RunInvoke
  <2>1. /\ head.action = "invoke" /\ ExecuteIfExists(e, head.msg) /\ broker' = broker
    BY <1>4 DEF RunInvoke, Runs, brokerVars
  <2>2. /\ e # f => executed'[f] = executed[f]
        /\ \/ executed'[f] = executed[f]
           \/ executed'[f] = Append(executed[f], head.msg)
    <3>1. executed' = executed \/ executed' = [executed EXCEPT ![e] = Append(@, head.msg)]
      BY <2>1 DEF ExecuteIfExists, Execute
    <3>. HIDE DEF e, head
    <3>2. QED
      BY ONLY <1>1, <1>2, <3>1, f \in Entities
  <2>3. head.action # "deliver"
    BY <2>1
  <2>. HIDE DEF e
  <2>4. QED
    BY <1>1, <1>3, <2>1, <2>2, <2>3, OrderedTaken
<1>5. CASE RunDeliver
  <2>1. /\ head.action = "deliver" /\ head.mq = broker[e].mq
        /\ IF first # <<>> THEN broker' = [broker EXCEPT ![e].default = Tail(@)]
                           ELSE UNCHANGED broker
        /\ \/ executed' = executed
           \/ executed' = [executed EXCEPT ![e] = Append(@, Head(first))]
    BY <1>5 DEF RunDeliver, Runs, ExecuteIfExists, Execute
  <2>. HIDE DEF e, head, first
  <2>2. /\ e # f => executed'[f] = executed[f]
        /\ \/ executed'[f] = executed[f]
           \/ e = f /\ executed'[f] = Append(executed[f], Head(first))
    BY ONLY <1>1, <1>2, <2>1, f \in Entities
  <2>3. /\ broker'[f].mq = broker[f].mq
        /\ e # f => broker'[f] = broker[f]
        /\ e = f /\ first # <<>> => broker'[f].default = Tail(broker[f].default)
    <3>1. CASE first = <<>>
      BY <2>1, <3>1
    <3>2. CASE first # <<>>
      <4>1. broker' = [broker EXCEPT ![e].default = Tail(@)]
        BY <2>1, <3>2
      <4>2. CASE e # f
        BY ONLY <1>1, <4>1, <4>2, f \in Entities
      <4>3. CASE e = f
        BY ONLY <1>1, <4>1, <4>3, f \in Entities DEF Mqs
      <4>4. QED
        BY <4>2, <4>3
    <3>3. QED
      BY <3>1, <3>2
  <2>4. CASE e = f
    <3>1. first = broker[f].default
      BY <2>4 DEF first
    <3>2. Mine(queue, f, broker[f].mq, 1)
      BY <1>3, <2>1, <2>4
    <3>3. Head(queue).action = "deliver"
      BY <2>1 DEF head
    <3>4. QED
      BY <1>1, <2>2, <2>3, <2>4, <3>1, <3>2, <3>3, OrderedTaken
  <2>5. CASE e # f
    <3>1. ~Mine(queue, f, broker[f].mq, 1)
      BY <1>3, <2>5
    <3>2. QED
      BY <1>1, <2>2, <2>3, <2>5, <3>1, OrderedTaken
  <2>6. QED
    BY <2>4, <2>5
<1>6. QED
  BY <1>4, <1>5

LEMMA DefaultInvStep == BrokerTypeOK /\ PlaceInv /\ DefaultInv /\ [BrokerNext]_vars => DefaultInv'
<1>. SUFFICES ASSUME BrokerTypeOK, PlaceInv, DefaultInv, [BrokerNext]_vars,
                     NEW f \in Entities, Scheduler[f] = "default"
              PROVE  Ordered(f)'
  BY DEF DefaultInv
<1>1. /\ Ordered(f) /\ sent[f] \in Nat /\ sent'[f] \in Nat /\ sent[f] <= sent'[f]
      /\ broker \in [Entities -> Mqs] /\ QueuePlace
      /\ ~Flushing(f) /\ (executing # Nothing => executing.entity # f)
  BY HistoryGrows DEF DefaultInv, BrokerTypeOK, PlaceInv, MqPlace, CustomPlace
<1>2. ASSUME queue' = queue, broker'[f] = broker[f], executed'[f] = executed[f]
      PROVE  Ordered(f)'
  BY <1>1, <1>2, OrderedQuiet
<1>3. ASSUME NEW e \in Entities, Keep(e) \/ DispatchNow(e) \/ KeepForCustom(e)
      PROVE  Ordered(f)'
  <2>1. Arrives(e)
    BY <1>3 DEF Keep, DispatchNow, KeepForCustom
  <2>2. CASE e = f
    <3>1. ~KeepForCustom(e)
      BY <2>2 DEF KeepForCustom, Passes
    <3>2. QED
      BY <1>1, <1>3, <2>2, <3>1, OrderedArrival
  <2>3. CASE e # f
    <3>1. sent'[f] = sent[f] /\ sent[e] + 1 \in Messages /\ sent[e] \in Nat
      BY <2>1, <2>3, ArrivesTypes
    <3>2. broker'[f] = broker[f]
      BY <1>1, <1>3, <2>3 DEF Keep, DispatchNow, KeepForCustom, brokerVars
    <3>3. CASE Keep(e)
      <4>. DEFINE mq == IF broker[e].mq = 0 THEN sent[e] + 1 ELSE broker[e].mq
                  x  == Deliver(e, mq)
      <4>1. queue' = Append(queue, x) /\ executed' = executed
        BY <3>3 DEF Keep
      <4>2. mq \in Nat
        BY <1>1, <3>1 DEF Mqs
      <4>. HIDE DEF mq
      <4>3. x \in Deliveries \union Invokes /\ x.entity # f
        BY <2>3, <4>2, QueuedFields
      <4>. HIDE DEF x
      <4>4. QED
        BY <1>1, <3>1, <3>2, <4>1, <4>3, OrderedOther
    <3>4. CASE DispatchNow(e)
      <4>. DEFINE m == sent[e] + 1
      <4>1. QueueInvocation(e, m) /\ m \in Messages
        BY <3>1, <3>4 DEF DispatchNow
      <4>. HIDE DEF m
      <4>2. QED
        BY <1>1, <2>3, <3>1, <3>2, <4>1, OrderedInvocation
    <3>5. CASE KeepForCustom(e)
      <4>1. queue' = queue /\ executed' = executed
        BY <3>5 DEF KeepForCustom, queueVars
      <4>2. QED
        BY <1>2, <3>2, <4>1
    <3>6. QED
      BY <1>3, <3>3, <3>4, <3>5
  <2>4. QED
    BY <2>2, <2>3
<1>4. CASE RunInvoke \/ RunDeliver
  BY <1>1, <1>4, OrderedDefault
<1>5. CASE Erase
  <2>1. /\ broker' = [broker EXCEPT ![running.entity] = NoMq]
        /\ UNCHANGED <<queue, executed, sent>>
    BY <1>5 DEF Erase, Unlocked, queueVars
  <2>2. CASE running.entity = f
    <3>1. broker'[f] = NoMq
      BY <1>1, <2>1, <2>2
    <3>2. QED
      BY <1>1, <2>1, <3>1, OrderedErase
  <2>3. CASE running.entity # f
    <3>1. broker'[f] = broker[f]
      BY <1>1, <2>1, <2>3
    <3>2. QED
      BY <1>2, <2>1, <3>1
  <2>4. QED
    BY <2>2, <2>3
<1>6. CASE Flush
  <2>1. /\ running.entity \in Entities /\ running.kept \in Seq(Messages)
        /\ running.kept # <<>> /\ running.at = "flush"
        /\ QueueInvocation(running.entity, Head(running.kept))
        /\ UNCHANGED <<broker, sent>>
    BY <1>6, ActionFields DEF Flush, Unlocked, BrokerTypeOK
  <2>2. running.entity # f
    BY <1>1, <2>1 DEF Flushing
  <2>3. Head(running.kept) \in Messages
    BY <2>1, TailTypes
  <2>4. QED
    BY <1>1, <2>1, <2>2, <2>3, OrderedInvocation
<1>7. CASE CustomStep
  <2>1. UNCHANGED <<queue, broker>>
    BY <1>7 DEF CustomStep, CustomTest, CustomExecute, brokerVars, queueVars
  <2>2. executed'[f] = executed[f]
    <3>1. CASE CustomTest
      BY <3>1 DEF CustomTest
    <3>2. CASE CustomExecute
      BY <1>1, <3>2 DEF CustomExecute, Execute, BrokerTypeOK
    <3>3. QED
      BY <1>7, <3>1, <3>2 DEF CustomStep
  <2>3. QED
    BY <1>2, <2>1, <2>2
<1>8. CASE RunDangling \/ Check \/ FlushNull \/ Unbind \/ Collide \/ UNCHANGED vars
  <2>1. UNCHANGED <<executed, queue, broker>>
    BY <1>8 DEF RunDangling, Check, FlushNull, Unbind, Collide, Unlocked, vars,
                brokerVars, queueVars
  <2>2. QED
    BY <1>2, <2>1
<1>9. ASSUME NEW e \in Entities, Bind(e) \/ Unsubscribe(e) PROVE Ordered(f)'
  <2>1. UNCHANGED <<executed, queue, broker>>
    BY <1>9 DEF Bind, Unsubscribe, queueVars
  <2>2. QED
    BY <1>2, <2>1
<1>10. QED
  BY <1>3, <1>4, <1>5, <1>6, <1>7, <1>8, <1>9 DEF BrokerNext, DefaultStep

LEMMA DefaultInvInit == BrokerInit => DefaultInv
<1>. SUFFICES ASSUME BrokerInit, NEW e \in Entities PROVE Ordered(e)
  BY DEF DefaultInv
<1>1. /\ executed[e] = <<>> /\ broker[e].default = <<>> /\ queue = <<>> /\ sent[e] = 0
  BY DEF BrokerInit, NoMq
<1>. DEFINE label == [i \in DOMAIN queue |-> 0]
<1>2. label \in [DOMAIN queue -> 0 .. sent[e]]
  BY <1>1
<1>3. DOMAIN queue = {}
  BY <1>1
<1>. HIDE DEF label
<1>4. Labelled(queue, e, broker[e].mq, {}, Elements(executed[e]), label)
  BY ONLY <1>3 DEF Labelled
<1>5. QED
  BY <1>1, <1>2, <1>4, IncreasingNothing DEF Ordered

LEMMA InOrder == BrokerTypeOK /\ LineInv /\ DefaultInv => ExecutedInOrder
BY DEF LineInv, InLine, DefaultInv, Ordered, ExecutedInOrder

-----------------------------------------------------------------------------
\* A step of the specification is a step of the broker, or leaves it alone.
LEMMA FrameworkSteps == [FrameworkNext]_frameworkVars => [BrokerNext]_vars
BY DEF FrameworkNext, frameworkVars, OnlyBroker, OnlyConnection

(***************************************************************************)
(* The broker, the queues and the histories have their types, an Mq that   *)
(* does not exist holds no message, and a subscribed entity has its id:    *)
(* the end of a binding takes the subscription before the id.              *)
(***************************************************************************)
THEOREM BrokerTypeCorrect == FrameworkSpec => [](BrokerTypeOK /\ BoundInv)
<1>1. FrameworkInit => BrokerTypeOK /\ BoundInv
  BY BrokerInitTypes DEF FrameworkInit
<1>2. BrokerTypeOK /\ BoundInv /\ [FrameworkNext]_frameworkVars => (BrokerTypeOK /\ BoundInv)'
  BY FrameworkSteps, BrokerTypeStep, BoundStep
<1>3. QED
  BY <1>1, <1>2, PTL DEF FrameworkSpec

(***************************************************************************)
(* A message that arrives for an entity while it is subscribed is executed *)
(* or waits: with the broker, in the queue of its scheduler, as the        *)
(* invocation that the custom scheduler executes, or among those that the  *)
(* queued action is about to invoke.                                       *)
(***************************************************************************)
THEOREM NothingIsLost == FrameworkSpec => []NothingLost
<1>1. FrameworkInit => HeldInv
  BY HeldInit DEF FrameworkInit
<1>2. BrokerTypeOK /\ BoundInv /\ HeldInv /\ [FrameworkNext]_frameworkVars => HeldInv'
  BY FrameworkSteps, HeldStep
<1>3. BrokerTypeOK /\ HeldInv => NothingLost
  BY HeldIsNotLost
<1>4. QED
  BY <1>1, <1>2, <1>3, BrokerTypeCorrect, PTL DEF FrameworkSpec

(***************************************************************************)
(* Each entity executes its messages in the order they arrived and none    *)
(* twice, on whatever scheduler, as long as none arrived while those kept  *)
(* before it were being invoked and it was not unbound with messages kept. *)
(***************************************************************************)
THEOREM OrderIsKept == FrameworkSpec => []ExecutedInOrder
<1>. DEFINE Inv == PlaceInv /\ LineInv /\ DefaultInv
<1>1. FrameworkInit => Inv
  BY PlaceInit, LineInit, DefaultInvInit DEF FrameworkInit
<1>2. BrokerTypeOK /\ Inv /\ [FrameworkNext]_frameworkVars => Inv'
  BY FrameworkSteps, PlaceStep, LineStep, DefaultInvStep
<1>3. BrokerTypeOK /\ Inv => ExecutedInOrder
  BY InOrder
<1>4. QED
  BY <1>1, <1>2, <1>3, BrokerTypeCorrect, PTL DEF FrameworkSpec
=============================================================================
