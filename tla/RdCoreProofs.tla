----------------------------- MODULE RdCoreProofs -----------------------------
(***************************************************************************)
(* Theorems about the lifetimes, properties and collections of             *)
(* rd_core_cpp, for every number of scopes, threads, listeners and changes.*)
(***************************************************************************)
EXTENDS RdCore, ViewableCollectionsProofs, FiniteSetTheorems

-----------------------------------------------------------------------------
(***************************************************************************)
(* Stacks                                                                  *)
(***************************************************************************)

\* The top of a stack is exchanged.
LEMMA Exchanged ==
    ASSUME NEW S, NEW s \in Seq(S), s # <<>>, NEW f \in S
    PROVE  LET t == Append(Front(s), f) IN
           /\ t \in Seq(S) /\ Len(t) = Len(s) /\ t # <<>>
           /\ DOMAIN t = 1 .. Len(s)
           /\ \A i \in 1 .. Len(s) - 1 : t[i] = s[i]
           /\ t[Len(s)] = f
<1>1. /\ Front(s) \in Seq(S)
      /\ Len(s) \in Nat \ {0} /\ Len(Front(s)) = Len(s) - 1
      /\ \A i \in 1 .. Len(s) - 1 : Front(s)[i] = s[i]
  BY Popped
<1>2. QED
  BY <1>1, Pushed

-----------------------------------------------------------------------------
(***************************************************************************)
(* A property and its signals                                              *)
(***************************************************************************)
SignalFrames ==
    [call : {"fire"}, signal : Signals, queue : Queues, at : Nat]
        \union [call : {"handler"}, of : Listeners]
        \union [call : {"set"}, new : Settings]

SignalTypes ==
    /\ current \in Settings \union {Unset}
    /\ listeners \in [Signals -> [Queues -> SUBSET [id : Nat, of : Listeners]]]
    /\ advise_id \in [Signals -> Nat \ {0}]
    /\ advised \subseteq Listeners /\ over \subseteq advised
    /\ stack \in Seq(SignalFrames)
    /\ corrupt \in BOOLEAN /\ sets \in 0 .. MaxSets
    /\ heard \in [Listeners -> Settings \union {Unset}]
    /\ viewed \in [Listeners -> Settings \union {Unset}]
    /\ current = Unset => stack = <<>>

\* The elements of a map have numbers of their own, from 1 on.
Numbered ==
    \A s \in Signals, q \in Queues : \A event \in listeners[s][q] :
        /\ 0 < event.id /\ event.id < advise_id[s] /\ event.of \in advised
        /\ \A other \in listeners[s][q] : other.id = event.id => other = event

\* Who has not ended its subscription is in one of the two maps.
Subscribed ==
    \A x \in advised \ over : \E q \in Queues : \E event \in listeners["change"][q] :
        event.of = x

\* A firing of before_change has its set below it.
FiredBySet ==
    \A i \in DOMAIN stack :
        stack[i].call = "fire" /\ stack[i].signal = "before_change" =>
            i - 1 \in DOMAIN stack /\ stack[i - 1].call = "set"

\* The firing f of change has yet to reach the element of the queue q.
Owes(f, q, event) ==
    /\ f.call = "fire" /\ f.signal = "change"
    /\ \/ f.queue = q /\ event.id > f.at
       \/ f.queue = "priority" /\ q = "listeners"

UpToDate(x) == heard[x] = current /\ (x \in Views => viewed[x] = current)

\* x has heard the value, will hear it from a firing, or there is to be one.
Served(x) ==
    \/ UpToDate(x)
    \/ \E i \in DOMAIN stack : stack[i].call = "set"
    \/ \E i \in DOMAIN stack : \E q \in Queues : \E event \in listeners["change"][q] :
          event.of = x /\ Owes(stack[i], q, event)

\* Under each firing of change: a priority listener has heard the value, or
\* will from that firing or one inside of it, before any ordinary listener.
PriorityServed ==
    \A i \in DOMAIN stack : stack[i].call = "fire" /\ stack[i].signal = "change" =>
        \A event \in listeners["change"]["priority"] :
            \/ event.of \in over \/ heard[event.of] = current
            \/ \E j \in DOMAIN stack :
                  i <= j /\ Owes(stack[j], "priority", event)

SignalsInv ==
    /\ SignalTypes /\ Numbered /\ Subscribed
    /\ ~corrupt => /\ FiredBySet /\ PriorityServed
                   /\ current # Unset => \A x \in advised \ over : Served(x)

LEMMA SignalsInitInv == SignalsInit => SignalsInv
<1>. SUFFICES ASSUME SignalsInit PROVE SignalsInv
  OBVIOUS
<1>1. SignalTypes
  <2>1. /\ listeners \in [Signals -> [Queues -> SUBSET [id : Nat, of : Listeners]]]
        /\ advise_id \in [Signals -> Nat \ {0}]
    BY DEF SignalsInit
  <2>2. sets \in 0 .. MaxSets /\ stack \in Seq(SignalFrames) /\ stack = <<>>
    BY PropertySignalsAssumption DEF SignalsInit
  <2>3. QED
    BY <2>1, <2>2 DEF SignalsInit, SignalTypes
<1>2. Numbered /\ Subscribed
  BY DEF SignalsInit, Numbered, Subscribed
<1>3. FiredBySet /\ PriorityServed
  BY DEF SignalsInit, FiredBySet, PriorityServed
<1>4. QED
  BY <1>1, <1>2, <1>3 DEF SignalsInv, SignalsInit

\* The frames that calls put on the stack.
LEMMA FramesAre ==
    /\ \A s \in Signals : /\ Fire(s) \in SignalFrames /\ Fire(s).call = "fire"
                          /\ Fire(s).signal = s /\ Fire(s).queue = "priority"
                          /\ Fire(s).at = 0
    /\ \A x \in Listeners : Handler(x) \in SignalFrames /\ Handler(x).call = "handler"
    /\ \A v \in Settings : Setting(v) \in SignalFrames /\ Setting(v).call = "set"
BY DEF Fire, Handler, Setting, SignalFrames, Queues

\* The fields of a frame.
LEMMA FrameFields ==
    ASSUME NEW f \in SignalFrames
    PROVE  /\ f.call \in {"fire", "handler", "set"}
           /\ f.call = "fire" => f.signal \in Signals /\ f.queue \in Queues /\ f.at \in Nat
           /\ f.call = "set" => f.new \in Settings
BY DEF SignalFrames

\* The frame at the top.
LEMMA TopIs ==
    ASSUME SignalTypes, TopCall.call # "none"
    PROVE  /\ stack # <<>> /\ TopCall = stack[Len(stack)] /\ TopCall \in SignalFrames
           /\ Len(stack) \in Nat \ {0} /\ DOMAIN stack = 1 .. Len(stack)
<1>1. stack # <<>>
  BY DEF TopCall
<1>2. QED
  BY <1>1, Popped DEF SignalTypes, TopCall

\* The element that a firing reaches, and what it owes afterwards.
LEMMA ReachedIs ==
    ASSUME SignalTypes, Numbered, NEW event, Reaches(event)
    PROVE  /\ ~corrupt /\ current # Unset
           /\ stack # <<>> /\ Len(stack) \in Nat \ {0} /\ DOMAIN stack = 1 .. Len(stack)
           /\ TopCall = stack[Len(stack)] /\ TopCall \in SignalFrames /\ TopCall.call = "fire"
           /\ TopCall.signal \in Signals /\ event.of \in Listeners /\ event.of \in advised
           /\ At(TopCall, event) \in SignalFrames /\ At(TopCall, event).call = "fire"
           /\ At(TopCall, event).signal = TopCall.signal
           /\ \A q \in Queues : \A e \in listeners["change"][q] :
                 Owes(TopCall, q, e) => e = event \/ Owes(At(TopCall, event), q, e)
<1>. DEFINE f == TopCall
            g == At(f, event)
<1>1. f.call = "fire" /\ ~corrupt
  BY DEF Reaches, Calling
<1>2. /\ stack # <<>> /\ f = stack[Len(stack)] /\ f \in SignalFrames
      /\ Len(stack) \in Nat \ {0} /\ DOMAIN stack = 1 .. Len(stack)
  BY <1>1, TopIs
<1>3. f.signal \in Signals /\ f.queue \in Queues /\ f.at \in Nat
  BY <1>1, <1>2, FrameFields
<1>4. /\ event \in listeners[f.signal][f.queue]
      /\ \A o \in listeners[f.signal][f.queue] : o.id > f.at => event.id <= o.id
  BY DEF Reaches, Ahead
<1>5. listeners[f.signal][f.queue] \in SUBSET [id : Nat, of : Listeners]
  BY <1>3 DEF SignalTypes
<1>6. event.id \in Nat /\ event.of \in Listeners /\ event.of \in advised
  BY <1>3, <1>4, <1>5 DEF Numbered
<1>7. g = [call |-> "fire", signal |-> f.signal, queue |-> f.queue, at |-> event.id]
  BY <1>1, <1>2 DEF At, SignalFrames
<1>8. g \in SignalFrames /\ g.call = "fire" /\ g.signal = f.signal /\ g.queue = f.queue
      /\ g.at = event.id
  BY <1>3, <1>6, <1>7 DEF SignalFrames
<1>. HIDE DEF f, g
<1>9. ASSUME NEW q \in Queues, NEW e \in listeners["change"][q], Owes(f, q, e)
      PROVE  e = event \/ Owes(g, q, e)
  <2>1. CASE f.queue = "priority" /\ q = "listeners"
    BY <1>8, <1>9, <2>1 DEF Owes
  <2>2. CASE f.queue = q /\ e.id > f.at
    <3>1. f.signal = "change" /\ e \in listeners[f.signal][f.queue]
      BY <1>9, <2>2 DEF Owes
    <3>2. event.id <= e.id /\ e.id \in Nat
      BY <1>4, <1>5, <2>2, <3>1
    <3>3. e.id = event.id => e = event
      BY <1>3, <1>4, <3>1 DEF Numbered
    <3>4. e.id > event.id \/ e.id = event.id
      BY <1>6, <3>2
    <3>5. QED
      BY <1>8, <2>2, <3>1, <3>3, <3>4 DEF Owes
  <2>3. QED
    BY <1>9, <2>1, <2>2 DEF Owes
<1>10. /\ stack # <<>> => current # Unset
  BY DEF SignalTypes
<1>11. QED
  BY <1>1, <1>2, <1>3, <1>6, <1>8, <1>9, <1>10 DEF f, g

\* A firing goes on to event; of the listeners only the one of event is
\* touched.
LEMMA Advances ==
    ASSUME SignalsInv, NEW event, Reaches(event), NEW n, n = Len(stack),
           UNCHANGED <<current, listeners, advise_id, advised, over, corrupt, sets>>,
           heard' \in [Listeners -> Settings \union {Unset}],
           viewed' \in [Listeners -> Settings \union {Unset}],
           stack' \in Seq(SignalFrames),
           \/ DOMAIN stack' = 1 .. n
           \/ DOMAIN stack' = 1 .. n + 1 /\ stack'[n + 1].call = "handler",
           \A i \in 1 .. n - 1 : stack'[i] = stack[i],
           stack'[n] = At(TopCall, event),
           \A x \in Listeners : x # event.of =>
              heard'[x] = heard[x] /\ viewed'[x] = viewed[x],
           \/ event.of \in over
           \/ TopCall.signal = "before_change" /\ heard' = heard
           \/ TopCall.signal = "change" /\ UpToDate(event.of)'
    PROVE  SignalsInv'
<1>. DEFINE f == TopCall
            g == At(f, event)
<1>1. SignalTypes /\ Numbered /\ Subscribed /\ FiredBySet /\ PriorityServed
      /\ \A x \in advised \ over : Served(x)
  BY ReachedIs DEF SignalsInv
<1>2. /\ ~corrupt /\ current # Unset
      /\ n \in Nat \ {0} /\ DOMAIN stack = 1 .. n
      /\ f = stack[n] /\ f \in SignalFrames /\ f.call = "fire"
      /\ f.signal \in Signals /\ event.of \in Listeners /\ event.of \in advised
      /\ g \in SignalFrames /\ g.call = "fire" /\ g.signal = f.signal
      /\ \A q \in Queues : \A e \in listeners["change"][q] :
                 Owes(f, q, e) => e = event \/ Owes(g, q, e)
  BY <1>1, ReachedIs
<1>. HIDE DEF f, g
<1>3. /\ n \in DOMAIN stack'
      /\ \A i \in DOMAIN stack' : i \in 1 .. n - 1 \/ i = n \/ i = n + 1
      /\ \A i \in DOMAIN stack : (i \in 1 .. n - 1 \/ i = n) /\ i \in DOMAIN stack'
      /\ \A i \in 1 .. n - 1 : i \in DOMAIN stack /\ stack'[i] = stack[i]
      /\ n + 1 \in DOMAIN stack' => stack'[n + 1].call = "handler"
      /\ stack'[n] = g /\ n \in DOMAIN stack
      /\ n - 1 \in DOMAIN stack => n - 1 \in 1 .. n - 1
  BY <1>2 DEF f, g
<1>4. ASSUME NEW q \in Queues, NEW e \in listeners["change"][q],
             NEW j \in DOMAIN stack, Owes(stack[j], q, e)
      PROVE  \/ j \in DOMAIN stack' /\ Owes(stack'[j], q, e)
             \/ e.of = event.of /\ f.signal = "change"
  <2>1. CASE j \in 1 .. n - 1
    BY <1>3, <1>4, <2>1
  <2>2. CASE j = n
    BY <1>2, <1>3, <1>4, <2>2 DEF Owes
  <2>3. QED
    BY <1>3, <2>1, <2>2
<1>5. stack' # <<>>
  BY <1>3
<1>6. SignalTypes' /\ Numbered' /\ Subscribed'
  BY <1>1, <1>2 DEF SignalTypes, Numbered, Subscribed
<1>7. FiredBySet'
  <2>. SUFFICES ASSUME NEW i \in DOMAIN stack', stack'[i].call = "fire",
                       stack'[i].signal = "before_change"
                PROVE  i - 1 \in DOMAIN stack' /\ stack'[i - 1].call = "set"
    BY DEF FiredBySet
  <2>1. i # n + 1
    BY <1>3
  <2>2. i \in DOMAIN stack /\ stack[i].call = "fire" /\ stack[i].signal = "before_change"
    BY <1>2, <1>3, <2>1
  <2>3. i - 1 \in DOMAIN stack /\ stack[i - 1].call = "set"
    BY <1>1, <2>2 DEF FiredBySet
  <2>4. i - 1 # n
    BY <1>2, <2>3
  <2>5. QED
    BY <1>3, <2>3, <2>4
<1>8. ASSUME NEW x \in advised \ over, heard[x] = current
      PROVE  heard'[x] = current
  BY <1>1, <1>2, <1>8 DEF SignalTypes, UpToDate, f
<1>9. PriorityServed'
  <2>. SUFFICES ASSUME NEW i \in DOMAIN stack', stack'[i].call = "fire",
                       stack'[i].signal = "change",
                       NEW e \in listeners["change"]["priority"], e.of \notin over
                PROVE  \/ heard'[e.of] = current
                       \/ \E j \in DOMAIN stack' :
                             i <= j /\ Owes(stack'[j], "priority", e)
    BY DEF PriorityServed
  <2>1. i # n + 1
    BY <1>3
  <2>2. i \in DOMAIN stack /\ stack[i].call = "fire" /\ stack[i].signal = "change"
    BY <1>2, <1>3, <2>1
  <2>3. e.of \in advised \ over /\ "priority" \in Queues
    BY <1>1 DEF Numbered, Signals, Queues
  <2>4. CASE heard[e.of] = current
    BY <1>8, <2>3, <2>4
  <2>5. CASE \E j \in DOMAIN stack : i <= j /\ Owes(stack[j], "priority", e)
    <3>1. PICK j \in DOMAIN stack : i <= j /\ Owes(stack[j], "priority", e)
      BY <2>5
    <3>2. CASE j \in DOMAIN stack' /\ Owes(stack'[j], "priority", e)
      BY <3>1, <3>2
    <3>3. CASE e.of = event.of /\ f.signal = "change"
      BY <2>3, <3>3 DEF UpToDate, f
    <3>4. QED
      BY <1>4, <2>3, <3>1, <3>2, <3>3
  <2>6. QED
    BY <1>1, <2>2, <2>4, <2>5 DEF PriorityServed
<1>10. ASSUME NEW x \in advised \ over PROVE Served(x)'
  <2>1. CASE UpToDate(x)
    <3>1. CASE x # event.of
      BY <1>1, <2>1, <3>1 DEF Served, UpToDate, SignalTypes
    <3>2. CASE x = event.of /\ f.signal = "before_change"
      <4>1. n - 1 \in DOMAIN stack /\ stack[n - 1].call = "set"
        BY <1>1, <1>2, <1>3, <3>2 DEF FiredBySet
      <4>2. QED
        BY <1>3, <4>1 DEF Served
    <3>3. CASE x = event.of /\ f.signal = "change"
      BY <1>10, <3>3 DEF Served, f
    <3>4. QED
      BY <1>2, <3>1, <3>2, <3>3 DEF Signals
  <2>2. CASE \E i \in DOMAIN stack : stack[i].call = "set"
    <3>1. PICK i \in DOMAIN stack : stack[i].call = "set"
      BY <2>2
    <3>2. i # n
      BY <1>2, <3>1
    <3>3. QED
      BY <1>3, <3>1, <3>2 DEF Served
  <2>3. CASE \E i \in DOMAIN stack : \E q \in Queues : \E e \in listeners["change"][q] :
                e.of = x /\ Owes(stack[i], q, e)
    <3>0. PICK i \in DOMAIN stack, q \in Queues :
              \E e \in listeners["change"][q] : e.of = x /\ Owes(stack[i], q, e)
      BY <2>3
    <3>1. PICK e \in listeners["change"][q] : e.of = x /\ Owes(stack[i], q, e)
      BY <3>0
    <3>2. CASE i \in DOMAIN stack' /\ Owes(stack'[i], q, e)
      BY <3>1, <3>2 DEF Served
    <3>3. CASE x = event.of /\ f.signal = "change"
      BY <1>10, <3>3 DEF Served, f
    <3>4. QED
      BY <1>4, <3>1, <3>2, <3>3
  <2>4. QED
    BY <1>1, <1>10, <2>1, <2>2, <2>3 DEF Served
<1>11. QED
  BY <1>6, <1>7, <1>9, <1>10 DEF SignalsInv

LEMMA FiringGoesOn ==
    ASSUME SignalsInv, SkipDead \/ EndViewed \/ Notify
    PROVE  SignalsInv'
<1>. DEFINE n == Len(stack)
<1>1. SignalTypes /\ Numbered
  BY DEF SignalsInv
<1>2. PICK event \in Events : /\ Reaches(event)
        /\ \/ /\ event.of \in over
              /\ stack' = Append(Front(stack), At(TopCall, event))
              /\ UNCHANGED <<current, listeners, advise_id, advised, over, corrupt,
                             sets, heard, viewed>>
           \/ /\ TopCall.signal = "before_change"
              /\ viewed' = [viewed EXCEPT ![event.of] = Unset]
              /\ stack' = Append(Front(stack), At(TopCall, event))
              /\ UNCHANGED <<current, listeners, advise_id, advised, over, corrupt,
                             sets, heard>>
           \/ /\ TopCall.signal = "change"
              /\ Hears(event.of)
              /\ stack' = Front(stack) \o <<At(TopCall, event), Handler(event.of)>>
              /\ UNCHANGED <<current, listeners, advise_id, advised, over, corrupt,
                             sets>>
  BY DEF SkipDead, EndViewed, Notify
<1>3. /\ n \in Nat \ {0} /\ stack # <<>> /\ stack \in Seq(SignalFrames)
      /\ event.of \in Listeners /\ At(TopCall, event) \in SignalFrames
  BY <1>1, <1>2, ReachedIs DEF SignalTypes
<1>4. /\ heard \in [Listeners -> Settings \union {Unset}]
      /\ viewed \in [Listeners -> Settings \union {Unset}]
      /\ current \in Settings \union {Unset}
  BY <1>1 DEF SignalTypes
<1>. HIDE DEF n
<1>5. ASSUME NEW g, g \in SignalFrames
      PROVE  LET t == Append(Front(stack), g) IN
             /\ t \in Seq(SignalFrames) /\ DOMAIN t = 1 .. n /\ Len(t) = n
             /\ (\A i \in 1 .. n - 1 : t[i] = stack[i]) /\ t[n] = g
  BY <1>3, <1>5, Exchanged DEF n
<1>6. CASE stack' = Append(Front(stack), At(TopCall, event))
  <2>1. /\ stack' \in Seq(SignalFrames) /\ DOMAIN stack' = 1 .. n
        /\ (\A i \in 1 .. n - 1 : stack'[i] = stack[i]) /\ stack'[n] = At(TopCall, event)
    BY <1>3, <1>5, <1>6
  <2>2. CASE event.of \in over /\ heard' = heard /\ viewed' = viewed
    BY <1>2, <1>4, <2>1, <2>2, Advances DEF n
  <2>3. CASE /\ TopCall.signal = "before_change" /\ heard' = heard
             /\ viewed' = [viewed EXCEPT ![event.of] = Unset]
    <3>1. /\ viewed' \in [Listeners -> Settings \union {Unset}]
          /\ \A x \in Listeners : x # event.of => viewed'[x] = viewed[x]
      BY <1>3, <1>4, <2>3
    <3>2. UNCHANGED <<current, listeners, advise_id, advised, over, corrupt, sets>>
      BY <1>2
    <3>3. QED
      BY <1>2, <1>4, <2>1, <2>3, <3>1, <3>2, Advances DEF n
  <2>4. CASE TopCall.signal = "change" /\ Hears(event.of)
    <3>1. /\ heard' \in [Listeners -> Settings \union {Unset}]
          /\ viewed' \in [Listeners -> Settings \union {Unset}]
          /\ \A x \in Listeners : x # event.of =>
                heard'[x] = heard[x] /\ viewed'[x] = viewed[x]
          /\ heard'[event.of] = current /\ (event.of \in Views => viewed'[event.of] = current)
      BY <1>3, <1>4, <2>4 DEF Hears
    <3>2. UNCHANGED <<current, listeners, advise_id, advised, over, corrupt, sets>>
      BY <1>2
    <3>3. UpToDate(event.of)'
      BY <3>1, <3>2 DEF UpToDate
    <3>4. Reaches(event) /\ n = Len(stack)
      BY <1>2 DEF n
    <3>5. QED
      BY ONLY SignalsInv, <2>1, <2>4, <3>1, <3>2, <3>3, <3>4, Advances
  <2>5. QED
    BY <1>2, <2>2, <2>3, <2>4
<1>7. CASE /\ stack' = Front(stack) \o <<At(TopCall, event), Handler(event.of)>>
           /\ TopCall.signal = "change" /\ Hears(event.of)
           /\ UNCHANGED <<current, listeners, advise_id, advised, over, corrupt, sets>>
  <2>. DEFINE g == At(TopCall, event)
              h == Handler(event.of)
              t == Append(Front(stack), g)
  <2>1. /\ t \in Seq(SignalFrames) /\ DOMAIN t = 1 .. n /\ Len(t) = n
        /\ (\A i \in 1 .. n - 1 : t[i] = stack[i]) /\ t[n] = g
    BY <1>3, <1>5
  <2>2. h \in SignalFrames /\ h.call = "handler"
    BY <1>3, FramesAre
  <2>3. Front(stack) \in Seq(SignalFrames)
    BY <1>3, Popped
  <2>4. stack' = Append(t, h)
    BY <1>3, <1>7, <2>2, <2>3, PushedTwice
  <2>. HIDE DEF g, h, t
  <2>5. /\ stack' \in Seq(SignalFrames) /\ DOMAIN stack' = 1 .. n + 1
        /\ (\A i \in 1 .. n : stack'[i] = t[i]) /\ stack'[n + 1] = h
    BY <2>1, <2>2, <2>4, Pushed
  <2>6. /\ stack'[n] = At(TopCall, event)
        /\ \A i \in 1 .. n - 1 : stack'[i] = stack[i]
    BY <1>3, <2>1, <2>5 DEF g
  <2>7. /\ heard' \in [Listeners -> Settings \union {Unset}]
        /\ viewed' \in [Listeners -> Settings \union {Unset}]
        /\ \A x \in Listeners : x # event.of =>
              heard'[x] = heard[x] /\ viewed'[x] = viewed[x]
        /\ heard'[event.of] = current /\ (event.of \in Views => viewed'[event.of] = current)
    BY <1>3, <1>4, <1>7 DEF Hears
  <2>8. UpToDate(event.of)'
    BY <1>7, <2>7 DEF UpToDate
  <2>9. DOMAIN stack' = 1 .. n + 1 /\ stack'[n + 1].call = "handler"
    BY <2>2, <2>5
  <2>10. stack' \in Seq(SignalFrames)
    BY <2>5
  <2>11. QED
    BY <1>2, <1>7, <2>6, <2>7, <2>8, <2>9, <2>10, Advances DEF n
<1>8. QED
  BY <1>2, <1>6, <1>7

\* What stays served when the stack grows and nothing else changes, and when
\* a frame goes that owes nothing.
LEMMA HandlerIsOver ==
    ASSUME SignalsInv, HandlerReturns
    PROVE  SignalsInv'
<1>. DEFINE n == Len(stack)
<1>1. /\ SignalTypes /\ Numbered /\ Subscribed /\ FiredBySet /\ PriorityServed
      /\ current # Unset => \A x \in advised \ over : Served(x)
  BY DEF SignalsInv, HandlerReturns, Calling
<1>2. /\ stack # <<>> /\ n \in Nat \ {0} /\ DOMAIN stack = 1 .. n
      /\ stack[n].call = "handler"
  BY <1>1, TopIs DEF HandlerReturns, Calling
<1>3. stack \in Seq(SignalFrames)
  BY <1>1 DEF SignalTypes
<1>. HIDE DEF n
<1>4. /\ stack' \in Seq(SignalFrames) /\ DOMAIN stack' = 1 .. n - 1
      /\ \A i \in 1 .. n - 1 : stack'[i] = stack[i]
  BY <1>2, <1>3, Popped DEF HandlerReturns, n
<1>5. /\ \A i \in DOMAIN stack' : i \in DOMAIN stack /\ stack'[i] = stack[i]
      /\ \A i \in DOMAIN stack : i # n => i \in DOMAIN stack'
      /\ \A i \in DOMAIN stack' : i - 1 \in DOMAIN stack => i - 1 \in DOMAIN stack'
  BY <1>2, <1>4
<1>6. UNCHANGED <<current, listeners, advise_id, advised, over, corrupt, sets, heard, viewed>>
  BY DEF HandlerReturns
<1>7. SignalTypes' /\ Numbered' /\ Subscribed'
  BY <1>1, <1>2, <1>4, <1>6 DEF SignalTypes, Numbered, Subscribed
<1>8. FiredBySet'
  BY <1>1, <1>5 DEF FiredBySet
<1>9. PriorityServed'
  BY <1>1, <1>2, <1>5, <1>6 DEF PriorityServed, Owes
<1>10. ASSUME NEW x \in advised \ over, Served(x) PROVE Served(x)'
  BY <1>2, <1>5, <1>6, <1>10 DEF Served, Owes, UpToDate
<1>11. QED
  BY <1>1, <1>6, <1>7, <1>8, <1>9, <1>10 DEF SignalsInv

\* A firing of change that is on top of the stack reaches everyone.
LEMMA FiresAnew ==
    ASSUME SignalTypes, Numbered, Subscribed, FiredBySet, ~corrupt, NEW m \in Nat \ {0},
           stack' \in Seq(SignalFrames), DOMAIN stack' = 1 .. m,
           stack'[m] = Fire("change"), 1 .. m - 1 \subseteq DOMAIN stack,
           \A i \in 1 .. m - 1 : stack'[i] = stack[i],
           current' \in Settings, sets' \in 0 .. MaxSets,
           UNCHANGED <<listeners, advise_id, advised, over, corrupt, heard, viewed>>
    PROVE  SignalsInv'
<1>1. /\ stack'[m].call = "fire" /\ stack'[m].signal = "change"
      /\ stack'[m].queue = "priority" /\ stack'[m].at = 0
  BY FramesAre DEF Signals
<1>2. m \in DOMAIN stack' /\ \A i \in DOMAIN stack' : i <= m /\ (i = m \/ i \in 1 .. m - 1)
  OBVIOUS
<1>3. SignalTypes' /\ Numbered' /\ Subscribed'
  BY PropertySignalsAssumption DEF SignalTypes, Numbered, Subscribed
<1>4. ASSUME NEW q \in Queues, NEW e \in listeners["change"][q]
      PROVE  Owes(stack'[m], q, e)
  <2>1. e.id > 0
    <3>1. listeners["change"][q] \in SUBSET [id : Nat, of : Listeners] /\ 0 < e.id
      BY DEF Numbered, SignalTypes, Signals
    <3>2. QED
      BY <3>1
  <2>2. QED
    BY <1>1, <2>1 DEF Owes, Queues
<1>5. FiredBySet'
  <2>. SUFFICES ASSUME NEW i \in DOMAIN stack', stack'[i].call = "fire",
                       stack'[i].signal = "before_change"
                PROVE  i - 1 \in DOMAIN stack' /\ stack'[i - 1].call = "set"
    BY DEF FiredBySet
  <2>1. i \in 1 .. m - 1 /\ i \in DOMAIN stack /\ stack[i] = stack'[i]
    BY <1>1, <1>2
  <2>2. i - 1 \in DOMAIN stack /\ stack[i - 1].call = "set"
    BY <2>1 DEF FiredBySet
  <2>3. i - 1 \in 1 .. m - 1
    BY <2>1, <2>2 DEF SignalTypes
  <2>4. QED
    BY <2>2, <2>3
<1>6. PriorityServed'
  BY <1>2, <1>4 DEF PriorityServed, Queues
<1>7. \A x \in (advised \ over)' : Served(x)'
  BY <1>2, <1>4 DEF Served, Subscribed
<1>8. QED
  BY <1>3, <1>5, <1>6, <1>7 DEF SignalsInv

LEMMA AssignKeepsInv ==
    ASSUME SignalsInv, Assign
    PROVE  SignalsInv'
<1>. DEFINE n == Len(stack)
<1>1. SignalTypes /\ Numbered /\ Subscribed /\ FiredBySet /\ ~corrupt
  BY DEF SignalsInv, Assign, Calling
<1>2. /\ stack # <<>> /\ n \in Nat \ {0} /\ DOMAIN stack = 1 .. n
      /\ TopCall \in SignalFrames /\ TopCall.call = "set"
  BY <1>1, TopIs DEF Assign, Calling
<1>3. stack \in Seq(SignalFrames) /\ Fire("change") \in SignalFrames /\ TopCall.new \in Settings
  BY <1>1, <1>2, FramesAre, FrameFields DEF SignalTypes, Signals
<1>. HIDE DEF n
<1>4. /\ stack' \in Seq(SignalFrames) /\ DOMAIN stack' = 1 .. n
      /\ \A i \in 1 .. n - 1 : stack'[i] = stack[i]
      /\ stack'[n] = Fire("change")
  <2>1. stack' = Append(Front(stack), Fire("change"))
    BY DEF Assign
  <2>2. stack # <<>> /\ n = Len(stack)
    BY <1>2 DEF n
  <2>3. QED
    BY ONLY <1>3, <2>1, <2>2, Exchanged
<1>5. /\ current' \in Settings /\ sets' \in 0 .. MaxSets /\ 1 .. n - 1 \subseteq DOMAIN stack
      /\ UNCHANGED <<listeners, advise_id, advised, over, corrupt, heard, viewed>>
  BY <1>1, <1>2, <1>3 DEF Assign, SignalTypes
<1>6. n \in Nat \ {0}
  BY <1>2
<1>7. QED
  BY ONLY <1>1, <1>4, <1>5, <1>6, FiresAnew

LEMMA SetKeepsInv ==
    ASSUME SignalsInv, NEW new \in Settings, Set(new)
    PROVE  SignalsInv'
<1>. DEFINE n == Len(stack)
<1>1. /\ SignalTypes /\ Numbered /\ Subscribed /\ FiredBySet /\ PriorityServed /\ ~corrupt
      /\ current # Unset => \A x \in advised \ over : Served(x)
  BY DEF SignalsInv, Set, UserRuns
<1>2. /\ stack \in Seq(SignalFrames) /\ n \in Nat /\ DOMAIN stack = 1 .. n
      /\ sets' \in 0 .. MaxSets
      /\ UNCHANGED <<listeners, advise_id, advised, over, corrupt, heard, viewed>>
  BY <1>1, PropertySignalsAssumption DEF SignalTypes, Set
<1>3. CASE current = Unset
  <2>1. /\ stack' = Append(stack, Fire("change")) /\ current' \in Settings
        /\ Fire("change") \in SignalFrames
    BY <1>3, FramesAre DEF Set, Signals
  <2>. HIDE DEF n
  <2>2. /\ stack' \in Seq(SignalFrames) /\ DOMAIN stack' = 1 .. n + 1
        /\ \A i \in 1 .. n + 1 - 1 : stack'[i] = stack[i]
        /\ stack'[n + 1] = Fire("change")
    BY <1>2, <2>1, Pushed DEF n
  <2>3. n + 1 \in Nat \ {0} /\ 1 .. n + 1 - 1 \subseteq DOMAIN stack
    BY <1>2
  <2>4. QED
    BY ONLY <1>1, <1>2, <2>1, <2>2, <2>3, FiresAnew
<1>4. CASE current # Unset
  <2>. DEFINE g == Setting(new)
              h == Fire("before_change")
              t == Append(stack, g)
  <2>1. stack' = stack \o <<g, h>> /\ current' = current
    BY <1>4 DEF Set
  <2>2. /\ g \in SignalFrames /\ g.call = "set"
        /\ h \in SignalFrames /\ h.call = "fire" /\ h.signal = "before_change"
    BY FramesAre DEF Signals
  <2>. HIDE DEF g, h, n
  <2>3. /\ t \in Seq(SignalFrames) /\ Len(t) = n + 1
        /\ (\A i \in 1 .. n : t[i] = stack[i]) /\ t[n + 1] = g
    BY <1>2, <2>2, Pushed DEF n
  <2>4. stack' = Append(t, h)
    BY <1>2, <2>1, <2>2, PushedTwice
  <2>. HIDE DEF t
  <2>5. /\ stack' \in Seq(SignalFrames) /\ DOMAIN stack' = 1 .. (n + 1) + 1
        /\ \A i \in 1 .. n + 1 : stack'[i] = t[i]
        /\ stack'[(n + 1) + 1] = h
    BY <2>2, <2>3, <2>4, Pushed
  <2>6. /\ n + 1 \in 1 .. n + 1 /\ (n + 1) + 1 = n + 2 /\ n + 2 - 1 = n + 1
        /\ \A i \in 1 .. n : i \in 1 .. n + 1
        /\ 1 .. n + 1 \subseteq 1 .. n + 2
        /\ \A i \in 1 .. n + 2 : i \in 1 .. n \/ i = n + 1 \/ i = n + 2
    BY <1>2
  <2>7. /\ DOMAIN stack' = 1 .. n + 2 /\ stack'[n + 2] = h /\ stack'[n + 1] = g
        /\ n + 1 \in DOMAIN stack'
        /\ \A i \in DOMAIN stack : i \in DOMAIN stack' /\ stack'[i] = stack[i]
    BY <1>2, <2>3, <2>5, <2>6
  <2>8. SignalTypes' /\ Numbered' /\ Subscribed'
    BY <1>1, <1>2, <1>4, <2>1, <2>5 DEF SignalTypes, Numbered, Subscribed
  <2>9. FiredBySet'
    <3>. SUFFICES ASSUME NEW i \in DOMAIN stack', stack'[i].call = "fire",
                         stack'[i].signal = "before_change"
                  PROVE  i - 1 \in DOMAIN stack' /\ stack'[i - 1].call = "set"
      BY DEF FiredBySet
    <3>1. CASE i \in 1 .. n
      BY <1>1, <1>2, <2>7, <3>1 DEF FiredBySet
    <3>2. CASE i = n + 2
      BY <2>2, <2>6, <2>7, <3>2
    <3>3. QED
      BY <2>2, <2>6, <2>7, <3>1, <3>2
  <2>10. PriorityServed'
    <3>. SUFFICES ASSUME NEW i \in DOMAIN stack', stack'[i].call = "fire",
                         stack'[i].signal = "change"
                  PROVE  i \in DOMAIN stack /\ stack'[i] = stack[i]
      BY <1>1, <1>2, <2>1, <2>7 DEF PriorityServed
    <3>1. i \in 1 .. n
      BY <2>2, <2>6, <2>7
    <3>2. QED
      BY <1>2, <2>7, <3>1
  <2>11. \A x \in (advised \ over)' : Served(x)'
    BY <2>2, <2>7 DEF Served
  <2>12. QED
    BY <2>8, <2>9, <2>10, <2>11 DEF SignalsInv
<1>5. QED
  BY <1>3, <1>4

LEMMA CleanupKeepsInv ==
    ASSUME SignalsInv, Cleanup
    PROVE  SignalsInv'
<1>. DEFINE n == Len(stack)
            f == TopCall
            g == [Fire(f.signal) EXCEPT !.queue = SecondQueue]
            old == listeners[f.signal][f.queue]
            dead == {event \in old : event.of \in over}
<1>1. /\ SignalTypes /\ Numbered /\ Subscribed /\ FiredBySet /\ PriorityServed
      /\ ~corrupt /\ f.call = "fire"
      /\ current # Unset => \A x \in advised \ over : Served(x)
  BY DEF SignalsInv, Cleanup, Calling
<1>2. /\ stack # <<>> /\ n \in Nat \ {0} /\ DOMAIN stack = 1 .. n
      /\ f = stack[n] /\ f \in SignalFrames /\ stack \in Seq(SignalFrames)
  BY <1>1, TopIs DEF SignalTypes
<1>3. /\ f.signal \in Signals /\ f.queue \in Queues /\ f.at \in Nat
  BY <1>1, <1>2, FrameFields
<1>4. /\ g = [call |-> "fire", signal |-> f.signal, queue |-> "listeners", at |-> 0]
  <2>1. Fire(f.signal) = [call |-> "fire", signal |-> f.signal, queue |-> "priority", at |-> 0]
    BY DEF Fire
  <2>2. QED
    BY ONLY <2>1 DEF SecondQueue
<1>5. /\ g \in SignalFrames /\ g.call = "fire" /\ g.signal = f.signal
      /\ g.queue = "listeners" /\ g.at = 0
  BY <1>3, <1>4 DEF SignalFrames, Queues
<1>6. /\ listeners' = [listeners EXCEPT ![f.signal][f.queue] = old \ dead]
      /\ corrupt' = Stranded(dead)
      /\ UNCHANGED <<current, advise_id, advised, over, sets, heard, viewed>>
      /\ \A event \in old : ~(event.id > f.at)
      /\ stack' = IF f.queue = "listeners" THEN Front(stack) ELSE Append(Front(stack), g)
  BY DEF Cleanup, Ahead, SecondQueue
<1>. HIDE DEF n, f, g
<1>7. /\ \A s \in Signals, q \in Queues :
            /\ listeners'[s][q] \subseteq listeners[s][q]
            /\ \A event \in listeners[s][q] : event.of \notin over => event \in listeners'[s][q]
      /\ listeners' \in [Signals -> [Queues -> SUBSET [id : Nat, of : Listeners]]]
  <2>1. listeners \in [Signals -> [Queues -> SUBSET [id : Nat, of : Listeners]]]
    BY <1>1 DEF SignalTypes
  <2>2. listeners' = [listeners EXCEPT ![f.signal] = [listeners[f.signal] EXCEPT ![f.queue] = old \ dead]]
    BY <1>6
  <2>3. [listeners[f.signal] EXCEPT ![f.queue] = old \ dead]
            \in [Queues -> SUBSET [id : Nat, of : Listeners]]
    BY <1>3, <2>1
  <2>4. QED
    BY <1>3, <2>1, <2>2, <2>3
<1>8. corrupt' \in BOOLEAN
  BY <1>6 DEF Stranded
<1>9. \/ /\ f.queue = "listeners" /\ DOMAIN stack' = 1 .. n - 1
         /\ stack' \in Seq(SignalFrames)
         /\ \A i \in 1 .. n - 1 : stack'[i] = stack[i]
      \/ /\ f.queue = "priority" /\ DOMAIN stack' = 1 .. n
         /\ stack' \in Seq(SignalFrames)
         /\ \A i \in 1 .. n - 1 : stack'[i] = stack[i]
         /\ stack'[n] = g
  <2>1. CASE f.queue = "listeners"
    <3>1. /\ Front(stack) \in Seq(SignalFrames) /\ DOMAIN Front(stack) = 1 .. n - 1
          /\ \A i \in 1 .. n - 1 : Front(stack)[i] = stack[i]
      BY <1>2, Popped DEF n
    <3>2. stack' = Front(stack)
      BY <1>6, <2>1
    <3>3. QED
      BY <2>1, <3>1, <3>2
  <2>2. CASE f.queue = "priority"
    <3>1. stack' = Append(Front(stack), g)
      BY <1>6, <2>2
    <3>2. /\ stack # <<>> /\ n = Len(stack) /\ stack \in Seq(SignalFrames)
          /\ g \in SignalFrames
      BY <1>2, <1>5 DEF n
    <3>3. /\ DOMAIN stack' = 1 .. n /\ stack' \in Seq(SignalFrames)
          /\ \A i \in 1 .. n - 1 : stack'[i] = stack[i]
          /\ stack'[n] = g
      BY ONLY <3>1, <3>2, Exchanged
    <3>4. QED
      BY <2>2, <3>3
  <2>3. QED
    BY <1>3, <2>1, <2>2 DEF Queues
<1>10. /\ \A i \in DOMAIN stack' : i \in DOMAIN stack
       /\ \A i \in DOMAIN stack' : i = n => f.queue = "priority" /\ stack'[i] = g
       /\ \A i \in DOMAIN stack' : i # n => stack'[i] = stack[i]
       /\ \A i \in DOMAIN stack : i # n => i \in DOMAIN stack' /\ stack'[i] = stack[i]
       /\ f.queue = "priority" => n \in DOMAIN stack' /\ stack'[n] = g
       /\ \A i \in DOMAIN stack' : i - 1 \in DOMAIN stack => i - 1 # n /\ i - 1 \in DOMAIN stack'
  <2>1. "listeners" # "priority"
    OBVIOUS
  <2>2. QED
    BY <1>2, <1>9, <2>1
<1>11. ASSUME NEW q \in Queues, NEW e \in listeners["change"][q], e.of \notin over,
              NEW j \in DOMAIN stack, Owes(stack[j], q, e)
       PROVE  /\ j \in DOMAIN stack' /\ Owes(stack'[j], q, e)
              /\ e \in listeners'["change"][q]
  <2>1. e \in listeners'["change"][q]
    BY <1>7, <1>11 DEF Signals
  <2>2. CASE j # n
    BY <1>10, <1>11, <2>1, <2>2
  <2>3. CASE j = n
    <3>1. Owes(f, q, e) /\ f.signal = "change"
      BY <1>2, <1>11, <2>3 DEF Owes
    <3>2. ~(f.queue = q /\ e.id > f.at)
      BY <1>6, <1>11, <3>1
    <3>3. f.queue = "priority" /\ q = "listeners"
      BY <3>1, <3>2 DEF Owes
    <3>4. e.id > 0
      <4>1. listeners["change"][q] \in SUBSET [id : Nat, of : Listeners] /\ 0 < e.id
        BY <1>1 DEF Numbered, SignalTypes, Signals
      <4>2. QED
        BY <4>1
    <3>5. Owes(g, q, e)
      BY <1>5, <3>1, <3>3, <3>4 DEF Owes
    <3>6. QED
      BY <1>10, <2>1, <2>3, <3>3, <3>5
  <2>4. QED
    BY <2>2, <2>3
<1>12. SignalTypes'
  BY <1>1, <1>2, <1>6, <1>7, <1>8, <1>9 DEF SignalTypes
<1>13. Numbered' /\ Subscribed'
  <2>1. Numbered'
    BY <1>1, <1>6, <1>7 DEF Numbered
  <2>2. Subscribed'
    BY <1>1, <1>6, <1>7 DEF Subscribed, Signals
  <2>3. QED
    BY <2>1, <2>2
<1>14. FiredBySet'
  <2>. SUFFICES ASSUME NEW i \in DOMAIN stack', stack'[i].call = "fire",
                       stack'[i].signal = "before_change"
                PROVE  i - 1 \in DOMAIN stack' /\ stack'[i - 1].call = "set"
    BY DEF FiredBySet
  <2>1. i \in DOMAIN stack /\ stack[i].call = "fire" /\ stack[i].signal = "before_change"
    BY <1>1, <1>2, <1>5, <1>10
  <2>2. i - 1 \in DOMAIN stack /\ stack[i - 1].call = "set"
    BY <1>1, <2>1 DEF FiredBySet
  <2>3. i - 1 # n /\ i - 1 \in DOMAIN stack'
    BY <1>10, <2>2
  <2>4. QED
    BY <1>10, <2>2, <2>3
<1>15. PriorityServed'
  <2>. SUFFICES ASSUME NEW i \in DOMAIN stack', stack'[i].call = "fire",
                       stack'[i].signal = "change",
                       NEW e \in listeners'["change"]["priority"], e.of \notin over
                PROVE  \/ heard[e.of] = current
                       \/ \E j \in DOMAIN stack' :
                             i <= j /\ Owes(stack'[j], "priority", e)
    BY <1>6 DEF PriorityServed
  <2>1. i \in DOMAIN stack /\ stack[i].call = "fire" /\ stack[i].signal = "change"
    BY <1>1, <1>2, <1>5, <1>10
  <2>2. e \in listeners["change"]["priority"] /\ "priority" \in Queues
    BY <1>7 DEF Signals, Queues
  <2>3. \/ heard[e.of] = current
        \/ \E j \in DOMAIN stack : i <= j /\ Owes(stack[j], "priority", e)
    BY <1>1, <2>1, <2>2 DEF PriorityServed
  <2>4. QED
    BY <1>11, <2>2, <2>3
<1>16. ASSUME NEW x \in advised \ over PROVE Served(x)'
  <2>1. Served(x)
    BY <1>1, <1>2 DEF SignalTypes
  <2>2. CASE UpToDate(x)
    BY <1>6, <2>2 DEF Served, UpToDate
  <2>3. CASE \E i \in DOMAIN stack : stack[i].call = "set"
    <3>1. PICK i \in DOMAIN stack : stack[i].call = "set"
      BY <2>3
    <3>2. i # n
      BY <1>1, <1>2, <3>1
    <3>3. QED
      BY <1>10, <3>1, <3>2 DEF Served
  <2>4. CASE \E i \in DOMAIN stack : \E q \in Queues : \E e \in listeners["change"][q] :
                e.of = x /\ Owes(stack[i], q, e)
    <3>1. PICK i \in DOMAIN stack, q \in Queues :
              \E e \in listeners["change"][q] : e.of = x /\ Owes(stack[i], q, e)
      BY <2>4
    <3>2. PICK e \in listeners["change"][q] : e.of = x /\ Owes(stack[i], q, e)
      BY <3>1
    <3>3. QED
      BY <1>11, <1>16, <3>2 DEF Served
  <2>5. QED
    BY <2>1, <2>2, <2>3, <2>4 DEF Served
<1>17. QED
  BY <1>6, <1>12, <1>13, <1>14, <1>15, <1>16 DEF SignalsInv

\* A new listener has the next number of each signal it subscribes to.
LEMMA ListenerAdded ==
    ASSUME SignalTypes, Numbered, NEW x \in Listeners, NEW q \in Queues,
           AddListener(x, q), advised' = advised \union {x}
    PROVE  /\ listeners' \in [Signals -> [Queues -> SUBSET [id : Nat, of : Listeners]]]
           /\ advise_id' \in [Signals -> Nat \ {0}]
           /\ \A s \in Signals, p \in Queues :
                 /\ listeners[s][p] \subseteq listeners'[s][p]
                 /\ \A event \in listeners'[s][p] :
                       event \in listeners[s][p] \/ event.of = x
           /\ \E event \in listeners'["change"][q] : event.of = x
           /\ Numbered'
<1>. DEFINE new(s) == [id |-> advise_id[s], of |-> x]
<1>1. /\ listeners \in [Signals -> [Queues -> SUBSET [id : Nat, of : Listeners]]]
      /\ advise_id \in [Signals -> Nat \ {0}]
  BY DEF SignalTypes
<1>2. \A s \in Signals : new(s) \in [id : Nat, of : Listeners] /\ new(s).of = x
                         /\ new(s).id = advise_id[s]
  BY <1>1
<1>3. /\ DOMAIN listeners' = Signals /\ DOMAIN advise_id' = Signals
      /\ listeners' = [s \in Signals |-> IF s \notin SignalsOf(x) THEN listeners[s]
            ELSE [listeners[s] EXCEPT ![q] = @ \union {new(s)}]]
      /\ advise_id' = [s \in Signals |-> IF s \in SignalsOf(x) THEN advise_id[s] + 1
                                         ELSE advise_id[s]]
  BY DEF AddListener
<1>. HIDE DEF new
<1>4. advise_id' \in [Signals -> Nat \ {0}] /\ \A s \in Signals : advise_id[s] <= advise_id'[s]
  BY <1>1, <1>3
<1>5. ASSUME NEW s \in Signals
      PROVE  /\ listeners'[s] \in [Queues -> SUBSET [id : Nat, of : Listeners]]
             /\ \A p \in Queues :
                   \/ listeners'[s][p] = listeners[s][p]
                   \/ /\ listeners'[s][p] = listeners[s][p] \union {new(s)}
                      /\ advise_id'[s] = advise_id[s] + 1
             /\ s = "change" => new(s) \in listeners'[s][q]
  <2>1. listeners[s] \in [Queues -> SUBSET [id : Nat, of : Listeners]]
    BY <1>1
  <2>2. CASE s \notin SignalsOf(x)
    <3>1. listeners'[s] = listeners[s] /\ s # "change"
      BY <1>3, <2>2 DEF SignalsOf, Signals
    <3>2. QED
      BY <2>1, <3>1
  <2>3. CASE s \in SignalsOf(x)
    <3>1. /\ listeners'[s] = [listeners[s] EXCEPT ![q] = listeners[s][q] \union {new(s)}]
          /\ advise_id'[s] = advise_id[s] + 1
      BY <1>3, <2>3
    <3>2. QED
      BY <1>2, <2>1, <3>1
  <2>4. QED
    BY <2>2, <2>3
<1>6. listeners' \in [Signals -> [Queues -> SUBSET [id : Nat, of : Listeners]]]
  BY <1>3, <1>5
<1>7. \A s \in Signals, p \in Queues :
         /\ listeners[s][p] \subseteq listeners'[s][p]
         /\ \A event \in listeners'[s][p] : event \in listeners[s][p] \/ event = new(s)
  BY <1>5
<1>8. new("change") \in listeners'["change"][q] /\ new("change").of = x
  BY <1>2, <1>5 DEF Signals
<1>9. Numbered'
  <2>. SUFFICES ASSUME NEW s \in Signals, NEW p \in Queues, NEW e \in listeners'[s][p]
                PROVE  /\ 0 < e.id /\ e.id < advise_id'[s] /\ e.of \in advised'
                       /\ \A o \in listeners'[s][p] : o.id = e.id => o = e
    BY DEF Numbered
  <2>1. \A o \in listeners[s][p] : /\ 0 < o.id /\ o.id < advise_id[s] /\ o.of \in advised
                                   /\ o.id \in Nat
    BY <1>1 DEF Numbered
  <2>2. \A o, r \in listeners[s][p] : o.id = r.id => o = r
    BY DEF Numbered
  <2>3. /\ advise_id[s] \in Nat \ {0}
        /\ new(s).id = advise_id[s] /\ new(s).of = x
    BY <1>1, <1>2
  <2>4. CASE listeners'[s][p] = listeners[s][p]
    <3>1. advise_id'[s] \in Nat /\ advise_id[s] <= advise_id'[s]
      BY <1>4
    <3>2. QED
      BY <2>1, <2>2, <2>3, <2>4, <3>1
  <2>5. CASE /\ listeners'[s][p] = listeners[s][p] \union {new(s)}
             /\ advise_id'[s] = advise_id[s] + 1
    BY <2>1, <2>2, <2>3, <2>5
  <2>6. QED
    BY <1>5, <2>4, <2>5
<1>10. QED
  BY <1>2, <1>4, <1>6, <1>7, <1>8, <1>9

LEMMA AdviseKeepsInv ==
    ASSUME SignalsInv, NEW x \in Listeners, NEW q \in Queues, Advise(x, q)
    PROVE  SignalsInv'
<1>. DEFINE n == Len(stack)
<1>1. /\ SignalTypes /\ Numbered /\ Subscribed /\ FiredBySet /\ PriorityServed /\ ~corrupt
      /\ current # Unset => \A y \in advised \ over : Served(y)
  BY DEF SignalsInv, Advise, UserRuns
<1>2. /\ x \notin advised /\ x \notin over /\ advised' = advised \union {x}
      /\ AddListener(x, q) /\ FirstCall(x)
      /\ UNCHANGED <<current, over, corrupt, sets>>
  BY DEF Advise
<1>3. /\ listeners' \in [Signals -> [Queues -> SUBSET [id : Nat, of : Listeners]]]
      /\ advise_id' \in [Signals -> Nat \ {0}]
      /\ \A s \in Signals, p \in Queues :
            /\ listeners[s][p] \subseteq listeners'[s][p]
            /\ \A event \in listeners'[s][p] :
                  event \in listeners[s][p] \/ event.of = x
      /\ \E event \in listeners'["change"][q] : event.of = x
      /\ Numbered'
  BY <1>1, <1>2, ListenerAdded
<1>4. stack \in Seq(SignalFrames) /\ n \in Nat /\ DOMAIN stack = 1 .. n
  BY <1>1 DEF SignalTypes
<1>5. /\ stack' \in Seq(SignalFrames) /\ (current = Unset => stack' = <<>>)
      /\ \A i \in DOMAIN stack : i \in DOMAIN stack' /\ stack'[i] = stack[i]
      /\ \A i \in DOMAIN stack' : i \in DOMAIN stack \/ stack'[i].call = "handler"
  <2>1. CASE current = Unset
    BY <1>1, <1>2, <1>4, <2>1 DEF FirstCall, SignalTypes
  <2>2. CASE current # Unset
    <3>1. stack' = Append(stack, Handler(x)) /\ Handler(x) \in SignalFrames
          /\ Handler(x).call = "handler"
      BY <1>2, <2>2, FramesAre DEF FirstCall
    <3>2. /\ stack' \in Seq(SignalFrames) /\ DOMAIN stack' = 1 .. n + 1
          /\ \A i \in 1 .. n : stack'[i] = stack[i]
          /\ stack'[n + 1] = Handler(x)
      BY <1>4, <3>1, Pushed
    <3>. HIDE DEF n
    <3>3. QED
      BY <1>4, <2>2, <3>1, <3>2
  <2>3. QED
    BY <2>1, <2>2
<1>6. /\ heard' \in [Listeners -> Settings \union {Unset}]
      /\ viewed' \in [Listeners -> Settings \union {Unset}]
      /\ \A y \in Listeners : y # x => heard'[y] = heard[y] /\ viewed'[y] = viewed[y]
      /\ current # Unset => heard'[x] = current /\ (x \in Views => viewed'[x] = current)
  BY <1>1, <1>2 DEF FirstCall, Hears, SignalTypes
<1>7. SignalTypes'
  BY <1>1, <1>2, <1>3, <1>5, <1>6 DEF SignalTypes
<1>8. Subscribed'
  BY <1>1, <1>2, <1>3 DEF Subscribed, Signals
<1>9. FiredBySet'
  BY <1>1, <1>5 DEF FiredBySet
<1>10. ASSUME NEW p \in Queues, NEW e \in listeners["change"][p],
              NEW i \in DOMAIN stack, Owes(stack[i], p, e)
       PROVE  /\ i \in DOMAIN stack' /\ Owes(stack'[i], p, e)
              /\ e \in listeners'["change"][p]
  BY <1>3, <1>5, <1>10 DEF Signals
<1>11. PriorityServed'
  <2>. SUFFICES ASSUME NEW i \in DOMAIN stack', stack'[i].call = "fire",
                       stack'[i].signal = "change",
                       NEW e \in listeners'["change"]["priority"], e.of \notin over
                PROVE  \/ heard'[e.of] = current
                       \/ \E j \in DOMAIN stack' :
                             i <= j /\ Owes(stack'[j], "priority", e)
    BY <1>2 DEF PriorityServed
  <2>1. i \in DOMAIN stack /\ stack[i].call = "fire" /\ stack[i].signal = "change"
    BY <1>5
  <2>2. current # Unset
    BY <1>1, <2>1 DEF SignalTypes
  <2>3. CASE e.of = x
    BY <1>6, <2>2, <2>3
  <2>4. CASE e \in listeners["change"]["priority"] /\ e.of # x
    <3>1. e.of \in Listeners /\ "priority" \in Queues
      BY <1>1, <2>4 DEF Numbered, Signals, Queues, SignalTypes
    <3>2. CASE heard[e.of] = current
      BY <1>6, <2>4, <3>1, <3>2
    <3>3. CASE \E j \in DOMAIN stack : i <= j /\ Owes(stack[j], "priority", e)
      BY <1>10, <2>4, <3>1, <3>3
    <3>4. QED
      BY <1>1, <2>1, <2>4, <3>2, <3>3 DEF PriorityServed
  <2>5. QED
    BY <1>3, <2>3, <2>4 DEF Signals, Queues
<1>12. ASSUME NEW y \in (advised \ over)', current # Unset PROVE Served(y)'
  <2>1. CASE y = x
    BY <1>2, <1>6, <1>12, <2>1 DEF Served, UpToDate
  <2>2. CASE y # x
    <3>1. y \in advised \ over /\ y \in Listeners /\ Served(y)
      BY <1>1, <1>2, <1>12, <2>2 DEF SignalTypes
    <3>2. CASE UpToDate(y)
      BY <1>2, <1>6, <2>2, <3>1, <3>2 DEF Served, UpToDate
    <3>3. CASE \E i \in DOMAIN stack : stack[i].call = "set"
      BY <1>5, <3>3 DEF Served
    <3>4. CASE \E i \in DOMAIN stack : \E p \in Queues : \E e \in listeners["change"][p] :
                  e.of = y /\ Owes(stack[i], p, e)
      <4>1. PICK i \in DOMAIN stack, p \in Queues :
                \E e \in listeners["change"][p] : e.of = y /\ Owes(stack[i], p, e)
        BY <3>4
      <4>2. PICK e \in listeners["change"][p] : e.of = y /\ Owes(stack[i], p, e)
        BY <4>1
      <4>3. QED
        BY <1>10, <4>2 DEF Served
    <3>5. QED
      BY <3>1, <3>2, <3>3, <3>4 DEF Served
  <2>3. QED
    BY <2>1, <2>2
<1>13. QED
  BY <1>2, <1>3, <1>7, <1>8, <1>9, <1>11, <1>12 DEF SignalsInv

LEMMA EndLifetimeKeepsInv ==
    ASSUME SignalsInv, NEW x \in Listeners, EndLifetime(x)
    PROVE  SignalsInv'
<1>1. /\ SignalTypes /\ Numbered /\ Subscribed /\ FiredBySet /\ PriorityServed /\ ~corrupt
      /\ current # Unset => \A y \in advised \ over : Served(y)
  BY DEF SignalsInv, EndLifetime, UserRuns
<1>2. /\ x \in advised /\ over' = over \union {x}
      /\ viewed' = [viewed EXCEPT ![x] = Unset]
      /\ UNCHANGED <<current, listeners, advise_id, advised, stack, corrupt, sets, heard>>
  BY DEF EndLifetime
<1>3. SignalTypes'
  BY <1>1, <1>2 DEF SignalTypes
<1>4. Numbered' /\ Subscribed' /\ FiredBySet'
  BY <1>1, <1>2 DEF Numbered, Subscribed, FiredBySet
<1>5. PriorityServed'
  BY <1>1, <1>2 DEF PriorityServed, Owes
<1>6. ASSUME NEW y \in (advised \ over)', current # Unset PROVE Served(y)'
  <2>1. y # x /\ y \in advised \ over /\ Served(y)
    BY <1>1, <1>2, <1>6
  <2>2. viewed'[y] = viewed[y]
    BY <1>1, <1>2, <2>1 DEF SignalTypes
  <2>3. QED
    BY <1>2, <2>1, <2>2 DEF Served, UpToDate, Owes
<1>7. QED
  BY <1>2, <1>3, <1>4, <1>5, <1>6 DEF SignalsInv

LEMMA SignalsStep ==
    ASSUME SignalsInv, [SignalsNext]_signalVars
    PROVE  SignalsInv'
<1>1. CASE UNCHANGED signalVars
  BY <1>1 DEF signalVars, SignalsInv, SignalTypes, Numbered, Subscribed, FiredBySet,
              PriorityServed, Served, UpToDate, Owes
<1>2. CASE LibraryStep
  BY <1>2, AssignKeepsInv, FiringGoesOn, HandlerIsOver, CleanupKeepsInv DEF LibraryStep
<1>3. CASE \E new \in Settings : Set(new)
  BY <1>3, SetKeepsInv
<1>4. CASE \E x \in Listeners : EndLifetime(x) \/ \E q \in Queues : Advise(x, q)
  BY <1>4, EndLifetimeKeepsInv, AdviseKeepsInv
<1>5. QED
  BY <1>1, <1>2, <1>3, <1>4 DEF SignalsNext

LEMMA SignalsInvHolds == CoreSpec => []SignalsInv
<1>1. CoreInit => SignalsInv
  BY SignalsInitInv DEF CoreInit
<1>2. SignalsInv /\ [CoreNext]_coreVars => SignalsInv'
  <2>1. [CoreNext]_coreVars => [SignalsNext]_signalVars
    BY DEF CoreNext, coreVars, OnlyLifetimes, OnlySignals, OnlyCollections, signalVars
  <2>2. QED
    BY <2>1, SignalsStep
<1>3. QED
  BY <1>1, <1>2, PTL DEF CoreSpec

(***************************************************************************)
(* Property::set, however the handlers of change use the property again:   *)
(* when the last call is over all have handled the last value, and every   *)
(* view keeps a lifetime for it.                                           *)
(***************************************************************************)
THEOREM EveryoneHearsLast == CoreSpec => []HearsLast
<1>1. SignalsInv => HearsLast
  <2>. SUFFICES ASSUME SignalsInv, stack = <<>>, ~corrupt, current # Unset,
                       NEW x \in advised \ over
                PROVE  heard[x] = current /\ (x \in Views => viewed[x] = current)
    BY DEF HearsLast
  <2>1. Served(x) /\ DOMAIN stack = {}
    BY DEF SignalsInv
  <2>2. QED
    BY <2>1 DEF Served, UpToDate
<1>2. QED
  BY <1>1, SignalsInvHolds, PTL

(***************************************************************************)
(* Signal::fire, which goes through the priority listeners first: none is  *)
(* behind when an ordinary listener is told of a value, whatever was set   *)
(* in between.                                                             *)
(***************************************************************************)
THEOREM PriorityListenersAreAhead == CoreSpec => PriorityHearsFirst
<1>. DEFINE HasHeard ==
       \A x \in advised : (Notify /\ heard'[x] = current /\ TopCall.queue = "listeners")
          => \A event \in listeners["change"]["priority"] :
                event.of \in over \/ heard[event.of] = current
<1>1. SignalsInv => HasHeard
  <2>. SUFFICES ASSUME SignalsInv, Notify, TopCall.queue = "listeners",
                       NEW e \in listeners["change"]["priority"], e.of \notin over
                PROVE  heard[e.of] = current
    OBVIOUS
  <2>1. PICK event \in Events : Reaches(event) /\ TopCall.signal = "change"
    BY DEF Notify
  <2>2. SignalTypes /\ Numbered
    BY DEF SignalsInv
  <2>3. /\ ~corrupt /\ TopCall.call = "fire"
        /\ Len(stack) \in Nat \ {0} /\ DOMAIN stack = 1 .. Len(stack)
        /\ TopCall = stack[Len(stack)]
    BY <2>1, <2>2, ReachedIs
  <2>4. Len(stack) \in DOMAIN stack /\ PriorityServed
    BY <2>3 DEF SignalsInv
  <2>5. \/ heard[e.of] = current
        \/ \E j \in DOMAIN stack : Len(stack) <= j /\ Owes(stack[j], "priority", e)
    BY <2>1, <2>3, <2>4 DEF PriorityServed
  <2>6. \A j \in DOMAIN stack : Len(stack) <= j => j = Len(stack)
    BY <2>3
  <2>7. ~Owes(TopCall, "priority", e)
    BY DEF Owes
  <2>8. QED
    BY <2>3, <2>5, <2>6, <2>7
<1>2. SignalsInv /\ [CoreNext]_coreVars => [HasHeard]_signalVars
  BY <1>1
<1>3. QED
  BY <1>2, SignalsInvHolds, PTL DEF CoreSpec, PriorityHearsFirst

-----------------------------------------------------------------------------
(***************************************************************************)
(* Lifetimes                                                               *)
(***************************************************************************)
LifeActions ==
    [id : Nat, do : {"close"}]
        \union [id : Nat, do : {"terminate"}, of : Scopes]
        \union [id : Nat, do : {"erase"}, of : Scopes, which : Nat]

LifeFrames ==
    [call : {"attach", "attached", "bracket", "terminate", "run"}, of : Scopes,
     rest : SUBSET LifeActions]

LifeTypes ==
    /\ status \in [Scopes -> {"new", "attaching", "made", "failed"}]
    /\ terminated \in [Scopes -> BOOLEAN]
    /\ actions \in [Scopes -> SUBSET LifeActions]
    /\ \A l \in Scopes : IsFiniteSet(actions[l])
    /\ nextId \in [Scopes -> Nat]
    /\ calls \in [Workers -> Seq(LifeFrames)]
    /\ attachedAs \in [Scopes -> [to : Scopes \union {"eternal"}, id : Nat]]
    /\ opened \in [Scopes -> Nat] /\ leaked \in [Scopes -> Nat]
    /\ closed \in [Scopes -> Seq(Nat)]

Distinct(S) == \A a, b \in S : a.id = b.id => a = b

\* The number k of p is that of an action which ends a nested lifetime, if it
\* is still there: to erase it closes nothing.
NestedAt(p, k) ==
    k < nextId[p] /\ \A a \in actions[p] : a.id = k => a.do = "terminate"

ErasesNested(S) == \A a \in S : a.do = "erase" => NestedAt(a.of, a.which)

ActionsInv ==
    \A l \in Scopes :
        /\ Distinct(actions[l]) /\ ErasesNested(actions[l])
        /\ \A a \in actions[l] : a.id < nextId[l]

\* What holds while a call is under way.
CallInv(f) ==
    /\ f.call \in {"terminate", "run"} => terminated[f.of]
    /\ f.call # "run" => f.rest = {}
    /\ f.call = "run" =>
          /\ actions[f.of] = {} /\ IsFiniteSet(f.rest)
          /\ Distinct(f.rest) /\ ErasesNested(f.rest)
          /\ \A a \in f.rest : \A k \in DOMAIN closed[f.of] : a.id < closed[f.of][k]
    /\ f.call \in {"attach", "attached"} =>
          status[f.of] # "new" /\ attachedAs[f.of].to \in Scopes
    /\ f.call = "attached" => NestedAt(attachedAs[f.of].to, attachedAs[f.of].id)

\* A call waits only while it runs actions.
CallsInv ==
    \A w \in Workers : \A i \in DOMAIN calls[w] :
        /\ CallInv(calls[w][i])
        /\ i # Len(calls[w]) => calls[w][i].call = "run"

\* The actions of a lifetime are run by one call.
RunsOnce ==
    \A v, w \in Workers : \A i \in DOMAIN calls[v], j \in DOMAIN calls[w] :
        (/\ calls[v][i].call = "run" /\ calls[w][j].call = "run"
         /\ calls[v][i].of = calls[w][j].of) => v = w /\ i = j

\* The actions that a lifetime keeps after its end are about to be taken.
TakenSoon ==
    \A l \in Scopes : terminated[l] /\ actions[l] # {} =>
        \E w \in Workers : \E i \in DOMAIN calls[w] :
            calls[w][i].call = "terminate" /\ calls[w][i].of = l

ClosedInv ==
    \A l \in Scopes :
        /\ closed[l] # <<>> => terminated[l] /\ actions[l] = {}
        /\ \A i, j \in DOMAIN closed[l] : i < j => closed[l][i] > closed[l][j]

\* The closings of l that are yet to be run.
Due(l) == {a \in LifeActions : /\ a.do = "close"
              /\ \/ a \in actions[l]
                 \/ \E w \in Workers : \E i \in DOMAIN calls[w] :
                       calls[w][i].of = l /\ a \in calls[w][i].rest}

Brackets(l) == {w \in Workers : \E i \in DOMAIN calls[w] : calls[w][i] = Frame("bracket", l)}

Counted ==
    \A l \in Scopes :
        /\ IsFiniteSet(Due(l))
        /\ opened[l] = Len(closed[l]) + leaked[l] + Cardinality(Brackets(l))
                          + Cardinality(Due(l))

LifeInv ==
    /\ LifeTypes /\ ActionsInv /\ CallsInv /\ RunsOnce /\ TakenSoon /\ ClosedInv
    /\ Counted

LEMMA LifeInitInv == LifetimesInit => LifeInv
<1>. SUFFICES ASSUME LifetimesInit PROVE LifeInv
  OBVIOUS
<1>1. LifeTypes
  <2>1. \A l \in Scopes : actions[l] = {} /\ IsFiniteSet({})
    BY FS_EmptySet DEF LifetimesInit
  <2>2. /\ status \in [Scopes -> {"new", "attaching", "made", "failed"}]
        /\ terminated \in [Scopes -> BOOLEAN] /\ nextId \in [Scopes -> Nat]
        /\ opened \in [Scopes -> Nat] /\ leaked \in [Scopes -> Nat]
    BY DEF LifetimesInit
  <2>3. /\ actions \in [Scopes -> SUBSET LifeActions]
        /\ calls \in [Workers -> Seq(LifeFrames)] /\ closed \in [Scopes -> Seq(Nat)]
        /\ attachedAs \in [Scopes -> [to : Scopes \union {"eternal"}, id : Nat]]
    BY DEF LifetimesInit, Unattached
  <2>4. \A l \in Scopes : IsFiniteSet(actions[l])
    BY <2>1
  <2>5. QED
    BY <2>2, <2>3, <2>4 DEF LifeTypes
<1>2. /\ \A l \in Scopes : actions[l] = {} /\ closed[l] = <<>> /\ opened[l] = 0 /\ leaked[l] = 0
      /\ \A w \in Workers : calls[w] = <<>>
  BY DEF LifetimesInit
<1>3. ActionsInv
  BY <1>2 DEF ActionsInv, Distinct, ErasesNested
<1>4. CallsInv /\ RunsOnce /\ TakenSoon
  BY <1>2 DEF CallsInv, RunsOnce, TakenSoon
<1>5. ClosedInv
  BY <1>2 DEF ClosedInv
<1>6. \A l \in Scopes : Due(l) = {} /\ Brackets(l) = {}
  BY <1>2 DEF Due, Brackets
<1>7. Counted
  <2>1. IsFiniteSet({}) /\ Cardinality({}) = 0
    BY FS_EmptySet
  <2>2. \A l \in Scopes : /\ Due(l) = {} /\ Brackets(l) = {} /\ Len(closed[l]) = 0
                          /\ opened[l] = 0 /\ leaked[l] = 0
    BY <1>2, <1>6
  <2>3. \A l \in Scopes : /\ IsFiniteSet(Due(l)) /\ Cardinality(Due(l)) = 0
                          /\ Cardinality(Brackets(l)) = 0
    BY ONLY <2>1, <2>2
  <2>4. \A l \in Scopes : opened[l] = Len(closed[l]) + leaked[l] + Cardinality(Brackets(l))
                                        + Cardinality(Due(l))
    BY ONLY <2>2, <2>3
  <2>5. QED
    BY ONLY <2>3, <2>4 DEF Counted
<1>8. QED
  BY <1>1, <1>3, <1>4, <1>5, <1>7 DEF LifeInv

\* The calls of w change: the frame at n goes, or there is none, and those at
\* the numbers N are new.
CallsChange(w, n, N) ==
    /\ calls' \in [Workers -> Seq(LifeFrames)]
    /\ \A v \in Workers : \A i \in DOMAIN calls'[v] :
          \/ v = w /\ i \in N
          \/ /\ i \in DOMAIN calls[v] /\ calls'[v][i] = calls[v][i]
             /\ v = w => i # n
             /\ i # Len(calls'[v]) => i # Len(calls[v])
    /\ \A v \in Workers : \A i \in DOMAIN calls[v] :
          \/ v = w /\ i = n
          \/ i \in DOMAIN calls'[v] /\ calls'[v][i] = calls[v][i] /\ (v = w => i \notin N)
    /\ N \subseteq DOMAIN calls'[w]

LEMMA CallPushed ==
    ASSUME LifeTypes, NEW w \in Workers, calls[w] = <<>>, NEW f \in LifeFrames,
           calls' = [calls EXCEPT ![w] = Append(@, f)]
    PROVE  /\ CallsChange(w, 0, {1}) /\ calls'[w][1] = f /\ Len(calls'[w]) = 1
           /\ DOMAIN calls[w] = {}
<1>1. calls \in [Workers -> Seq(LifeFrames)]
  BY DEF LifeTypes
<1>2. /\ calls'[w] = <<f>> /\ \A v \in Workers : v # w => calls'[v] = calls[v]
      /\ <<f>> \in Seq(LifeFrames)
  BY <1>1
<1>3. calls' \in [Workers -> Seq(LifeFrames)]
  BY <1>1, <1>2
<1>4. DOMAIN calls'[w] = {1} /\ calls'[w][1] = f /\ Len(calls'[w]) = 1 /\ DOMAIN calls[w] = {}
  BY <1>2
<1>5. QED
  BY <1>2, <1>3, <1>4 DEF CallsChange

LEMMA CallPopped ==
    ASSUME LifeTypes, NEW w \in Workers, calls[w] # <<>>,
           calls' = [calls EXCEPT ![w] = Front(@)]
    PROVE  CallsChange(w, Len(calls[w]), {})
<1>. DEFINE n == Len(calls[w])
<1>1. calls \in [Workers -> Seq(LifeFrames)]
  BY DEF LifeTypes
<1>2. /\ calls'[w] = Front(calls[w]) /\ \A v \in Workers : v # w => calls'[v] = calls[v]
      /\ calls[w] \in Seq(LifeFrames)
  BY <1>1
<1>3. /\ Front(calls[w]) \in Seq(LifeFrames) /\ n \in Nat \ {0}
      /\ Len(Front(calls[w])) = n - 1 /\ DOMAIN Front(calls[w]) = 1 .. n - 1
      /\ DOMAIN calls[w] = 1 .. n /\ \A i \in 1 .. n - 1 : Front(calls[w])[i] = calls[w][i]
  BY <1>2, Popped
<1>4. calls' \in [Workers -> Seq(LifeFrames)]
  BY <1>1, <1>2, <1>3
<1>5. /\ DOMAIN calls'[w] = 1 .. n - 1 /\ Len(calls'[w]) = n - 1
      /\ \A i \in 1 .. n - 1 : calls'[w][i] = calls[w][i]
  BY <1>2, <1>3
<1>6. /\ n \in Nat \ {0} /\ DOMAIN calls[w] = 1 .. n /\ n = Len(calls[w])
  BY <1>3
<1>. HIDE DEF n
<1>7. /\ \A i \in DOMAIN calls'[w] :
            i \in DOMAIN calls[w] /\ calls'[w][i] = calls[w][i] /\ i # n
      /\ \A i \in DOMAIN calls[w] :
            i = n \/ (i \in DOMAIN calls'[w] /\ calls'[w][i] = calls[w][i])
  <2>1. /\ \A i \in 1 .. n : i = n \/ i \in 1 .. n - 1
        /\ \A i \in 1 .. n - 1 : i \in 1 .. n /\ i # n
    BY <1>6
  <2>2. QED
    BY <1>5, <1>6, <2>1
<1>8. QED
  BY <1>2, <1>4, <1>6, <1>7 DEF CallsChange

LEMMA CallExchanged ==
    ASSUME LifeTypes, NEW w \in Workers, calls[w] # <<>>, NEW f \in LifeFrames,
           calls' = [calls EXCEPT ![w] = Append(Front(@), f)]
    PROVE  LET n == Len(calls[w]) IN
           CallsChange(w, n, {n}) /\ calls'[w][n] = f /\ Len(calls'[w]) = n
<1>. DEFINE n == Len(calls[w])
            t == Append(Front(calls[w]), f)
<1>1. calls \in [Workers -> Seq(LifeFrames)]
  BY DEF LifeTypes
<1>2. /\ calls'[w] = t /\ \A v \in Workers : v # w => calls'[v] = calls[v]
      /\ calls[w] \in Seq(LifeFrames)
  BY <1>1
<1>3. /\ t \in Seq(LifeFrames) /\ Len(t) = n /\ DOMAIN t = 1 .. n
      /\ (\A i \in 1 .. n - 1 : t[i] = calls[w][i]) /\ t[n] = f
  BY <1>2, Exchanged
<1>4. n \in Nat \ {0} /\ DOMAIN calls[w] = 1 .. n
  BY <1>2
<1>. HIDE DEF t
<1>5. calls' \in [Workers -> Seq(LifeFrames)]
  BY <1>1, <1>2, <1>3
<1>6. n = Len(calls[w])
  OBVIOUS
<1>. HIDE DEF n
<1>7. /\ \A i \in DOMAIN calls'[w] :
            i = n \/ (i \in DOMAIN calls[w] /\ calls'[w][i] = calls[w][i])
      /\ \A i \in DOMAIN calls[w] :
            i = n \/ (i \in DOMAIN calls'[w] /\ calls'[w][i] = calls[w][i])
      /\ n \in DOMAIN calls'[w] /\ calls'[w][n] = f /\ Len(calls'[w]) = n
  BY <1>2, <1>3, <1>4
<1>8. CallsChange(w, n, {n})
  BY <1>2, <1>5, <1>6, <1>7 DEF CallsChange
<1>9. QED
  BY <1>7, <1>8 DEF n

LEMMA CallNested ==
    ASSUME LifeTypes, NEW w \in Workers, calls[w] # <<>>,
           NEW f \in LifeFrames, NEW g \in LifeFrames,
           calls' = [calls EXCEPT ![w] = Append(Append(Front(@), f), g)]
    PROVE  LET n == Len(calls[w]) IN
           /\ CallsChange(w, n, {n, n + 1})
           /\ calls'[w][n] = f /\ calls'[w][n + 1] = g /\ Len(calls'[w]) = n + 1
<1>. DEFINE n == Len(calls[w])
            t == Append(Front(calls[w]), f)
            u == Append(t, g)
<1>1. calls \in [Workers -> Seq(LifeFrames)]
  BY DEF LifeTypes
<1>2. /\ calls'[w] = u
      /\ \A v \in Workers : v # w => calls'[v] = calls[v]
      /\ calls[w] \in Seq(LifeFrames)
  BY <1>1
<1>3. /\ t \in Seq(LifeFrames) /\ Len(t) = n /\ DOMAIN t = 1 .. n
      /\ (\A i \in 1 .. n - 1 : t[i] = calls[w][i]) /\ t[n] = f
  BY <1>2, Exchanged
<1>4. n \in Nat \ {0} /\ DOMAIN calls[w] = 1 .. n
  BY <1>2
<1>5. calls'[w] = u
  BY <1>2
<1>6. n = Len(calls[w])
  OBVIOUS
<1>. HIDE DEF n, t
<1>7. /\ u \in Seq(LifeFrames) /\ Len(u) = n + 1 /\ DOMAIN u = 1 .. n + 1
      /\ (\A i \in 1 .. n : u[i] = t[i]) /\ u[n + 1] = g
  BY <1>3, Pushed
<1>. HIDE DEF u
<1>8. /\ 1 .. n \subseteq 1 .. n + 1 /\ n \in 1 .. n
      /\ \A i \in 1 .. n + 1 : i = n + 1 \/ i = n \/ i \in 1 .. n - 1
      /\ \A i \in 1 .. n : i # n + 1 /\ (i = n \/ i \in 1 .. n - 1)
      /\ \A i \in 1 .. n - 1 : i \in 1 .. n /\ i # n
  BY <1>4
<1>9. calls' \in [Workers -> Seq(LifeFrames)]
  BY <1>1, <1>2, <1>5, <1>7
<1>10. /\ \A i \in DOMAIN calls'[w] :
             i \in {n, n + 1} \/ (i \in DOMAIN calls[w] /\ calls'[w][i] = calls[w][i])
       /\ \A i \in DOMAIN calls[w] :
             \/ i = n
             \/ i \in DOMAIN calls'[w] /\ calls'[w][i] = calls[w][i] /\ i \notin {n, n + 1}
       /\ {n, n + 1} \subseteq DOMAIN calls'[w]
       /\ calls'[w][n] = f /\ calls'[w][n + 1] = g /\ Len(calls'[w]) = n + 1
  <2>1. /\ \A i \in 1 .. n - 1 : calls'[w][i] = calls[w][i]
        /\ calls'[w][n] = f /\ calls'[w][n + 1] = g /\ Len(calls'[w]) = n + 1
        /\ DOMAIN calls'[w] = 1 .. n + 1
    BY <1>3, <1>5, <1>7, <1>8
  <2>2. n + 1 \in 1 .. n + 1
    BY <1>4
  <2>3. QED
    BY <1>4, <1>8, <2>1, <2>2
<1>11. CallsChange(w, n, {n, n + 1})
  BY <1>2, <1>6, <1>9, <1>10 DEF CallsChange
<1>12. QED
  BY <1>10, <1>11 DEF n

\* What every step leaves: an end is final, numbers grow, actions are added to
\* a lifetime that has not ended, with new numbers.
LifeGoesOn ==
    \A l \in Scopes :
        /\ terminated[l] => terminated'[l]
        /\ nextId[l] <= nextId'[l]
        /\ \A a \in actions'[l] :
              a \in actions[l] \/ (a.id = nextId[l] /\ ~terminated[l])
        /\ status[l] # "new" => status'[l] # "new"

LEMMA NestedStays ==
    ASSUME LifeTypes, LifeTypes', LifeGoesOn, NEW p \in Scopes, NEW k, k \in Nat,
           NestedAt(p, k)
    PROVE  NestedAt(p, k)'
<1>1. nextId[p] \in Nat /\ nextId'[p] \in Nat
  BY DEF LifeTypes
<1>2. k < nextId'[p]
  BY <1>1 DEF LifeGoesOn, NestedAt
<1>3. \A a \in actions'[p] : a.id = k => a.do = "terminate"
  BY <1>1 DEF LifeGoesOn, NestedAt
<1>4. QED
  BY <1>2, <1>3 DEF NestedAt

LEMMA ErasesStay ==
    ASSUME LifeTypes, LifeTypes', LifeGoesOn, NEW S, S \subseteq LifeActions, ErasesNested(S)
    PROVE  ErasesNested(S)'
<1>. SUFFICES ASSUME NEW a \in S, a.do = "erase" PROVE NestedAt(a.of, a.which)'
  BY DEF ErasesNested
<1>1. a.of \in Scopes /\ a.which \in Nat
  BY DEF LifeActions
<1>2. NestedAt(a.of, a.which)
  BY DEF ErasesNested
<1>3. QED
  BY <1>1, <1>2, NestedStays

LEMMA CallStays ==
    ASSUME LifeTypes, LifeTypes', LifeGoesOn, NEW f \in LifeFrames, CallInv(f),
           f.call = "run" => closed'[f.of] = closed[f.of],
           f.call \in {"attach", "attached"} =>
              \/ attachedAs'[f.of] = attachedAs[f.of]
              \/ /\ attachedAs'[f.of].to = attachedAs[f.of].to
                 /\ NestedAt(attachedAs[f.of].to, attachedAs[f.of].id)'
    PROVE  CallInv(f)'
<1>1. f.of \in Scopes /\ f.rest \subseteq LifeActions
  BY DEF LifeFrames
<1>2. f.call \in {"terminate", "run"} => terminated'[f.of]
  BY <1>1 DEF CallInv, LifeGoesOn
<1>3. f.call # "run" => f.rest = {}
  BY DEF CallInv
<1>4. ASSUME f.call = "run"
      PROVE  /\ actions'[f.of] = {} /\ IsFiniteSet(f.rest)
             /\ Distinct(f.rest) /\ ErasesNested(f.rest)'
             /\ \A a \in f.rest : \A k \in DOMAIN closed'[f.of] : a.id < closed'[f.of][k]
  <2>1. actions'[f.of] = {}
    BY <1>1, <1>4 DEF CallInv, LifeGoesOn
  <2>2. ErasesNested(f.rest)'
    BY <1>1, <1>4, ErasesStay DEF CallInv
  <2>3. QED
    BY <1>4, <2>1, <2>2 DEF CallInv
<1>5. f.call \in {"attach", "attached"} =>
          status'[f.of] # "new" /\ attachedAs'[f.of].to \in Scopes
  BY <1>1 DEF CallInv, LifeGoesOn
<1>6. ASSUME f.call = "attached"
      PROVE  NestedAt(attachedAs[f.of].to, attachedAs[f.of].id)'
  <2>1. CASE attachedAs'[f.of] = attachedAs[f.of]
    <3>1. attachedAs[f.of].to \in Scopes /\ attachedAs[f.of].id \in Nat
          /\ NestedAt(attachedAs[f.of].to, attachedAs[f.of].id)
      BY <1>1, <1>6 DEF CallInv, LifeTypes
    <3>2. NestedAt(attachedAs[f.of].to, attachedAs[f.of].id)'
      <4>. DEFINE p == attachedAs[f.of].to
                  k == attachedAs[f.of].id
      <4>1. p \in Scopes /\ k \in Nat /\ NestedAt(p, k) /\ p' = p /\ k' = k
        BY <2>1, <3>1
      <4>. HIDE DEF p, k
      <4>2. \A q \in Scopes : \A m \in Nat : NestedAt(q, m) =>
               m < nextId'[q] /\ \A a \in actions'[q] : a.id = m => a.do = "terminate"
        BY NestedStays DEF NestedAt
      <4>3. NestedAt(p, k)'
        BY <4>1, <4>2 DEF NestedAt
      <4>4. QED
        BY <4>3 DEF p, k
    <3>3. QED
      BY <3>2
  <2>2. CASE NestedAt(attachedAs[f.of].to, attachedAs[f.of].id)'
    BY <2>2
  <2>3. QED
    BY <1>6, <2>1, <2>2
<1>7. QED
  BY <1>2, <1>3, <1>4, <1>5, <1>6 DEF CallInv, Distinct

\* What is left of LifeInv when the calls of w change, given what is special
\* about the step: the new frames, and the one that goes.
LEMMA LifeStep ==
    ASSUME LifeInv, LifeTypes', LifeGoesOn, ClosedInv', NEW w \in Workers, NEW n, NEW N,
           CallsChange(w, n, N),
           \A v \in Workers : \A i \in DOMAIN calls[v] : ~(v = w /\ i = n) =>
              \A f \in LifeFrames : f = calls[v][i] =>
              /\ f.call = "run" => closed'[f.of] = closed[f.of]
              /\ f.call \in {"attach", "attached"} =>
                    \/ attachedAs'[f.of] = attachedAs[f.of]
                    \/ /\ attachedAs'[f.of].to = attachedAs[f.of].to
                       /\ NestedAt(attachedAs[f.of].to, attachedAs[f.of].id)',
           \A i \in N : \A f \in LifeFrames : f = calls'[w][i] =>
              /\ CallInv(f)'
              /\ i # Len(calls'[w]) => f.call = "run"
              /\ f.call = "run" =>
                   \/ i = n /\ n \in DOMAIN calls[w] /\ calls[w][n].call = "run"
                      /\ calls[w][n].of = f.of
                   \/ /\ \A v \in Workers : \A j \in DOMAIN calls[v] :
                            calls[v][j].call = "run" => calls[v][j].of # f.of
                      /\ \A j \in N : calls'[w][j].call = "run" => j = i,
           n \in DOMAIN calls[w] /\ calls[w][n].call = "terminate" =>
              actions'[calls[w][n].of] = {},
           \A l \in Scopes : terminated'[l] /\ ~terminated[l] =>
              \E i \in N : calls'[w][i].call = "terminate" /\ calls'[w][i].of = l
    PROVE  CallsInv' /\ RunsOnce' /\ TakenSoon'
<1>1. LifeTypes /\ CallsInv /\ RunsOnce /\ TakenSoon
  BY DEF LifeInv
<1>2. \A v \in Workers : \A i \in DOMAIN calls[v] : calls[v][i] \in LifeFrames
  <2>1. \A v \in Workers : calls[v] \in Seq(LifeFrames)
    BY <1>1 DEF LifeTypes
  <2>2. QED
    BY <2>1
<1>3. /\ \A v \in Workers : \A i \in DOMAIN calls'[v] :
          \/ v = w /\ i \in N
          \/ /\ i \in DOMAIN calls[v] /\ calls'[v][i] = calls[v][i]
             /\ v = w => i # n
             /\ i # Len(calls'[v]) => i # Len(calls[v])
      /\ \A v \in Workers : \A i \in DOMAIN calls[v] :
          \/ v = w /\ i = n
          \/ i \in DOMAIN calls'[v] /\ calls'[v][i] = calls[v][i] /\ (v = w => i \notin N)
      /\ N \subseteq DOMAIN calls'[w]
  BY DEF CallsChange
<1>4. \A v \in Workers : \A i \in DOMAIN calls'[v] : calls'[v][i] \in LifeFrames
  <2>1. \A v \in Workers : calls'[v] \in Seq(LifeFrames)
    BY DEF CallsChange
  <2>2. QED
    BY <2>1
<1>5. CallsInv'
  <2>. SUFFICES ASSUME NEW v \in Workers, NEW i \in DOMAIN calls'[v],
                       NEW f \in LifeFrames, f = calls'[v][i]
                PROVE  /\ CallInv(f)'
                       /\ i # Len(calls'[v]) => f.call = "run"
    BY <1>4 DEF CallsInv
  <2>1. CASE v = w /\ i \in N
    BY <2>1
  <2>2. CASE /\ i \in DOMAIN calls[v] /\ calls'[v][i] = calls[v][i]
             /\ ~(v = w /\ i = n)
             /\ i # Len(calls'[v]) => i # Len(calls[v])
    <3>1. /\ f = calls[v][i] /\ f \in LifeFrames /\ CallInv(f)
          /\ i # Len(calls[v]) => f.call = "run"
      BY <1>1, <1>2, <2>2 DEF CallsInv
    <3>2. /\ f.call = "run" => closed'[f.of] = closed[f.of]
          /\ f.call \in {"attach", "attached"} =>
                    \/ attachedAs'[f.of] = attachedAs[f.of]
                    \/ /\ attachedAs'[f.of].to = attachedAs[f.of].to
                       /\ NestedAt(attachedAs[f.of].to, attachedAs[f.of].id)'
      BY <2>2
    <3>3. ASSUME NEW g \in LifeFrames, CallInv(g),
                 g.call = "run" => closed'[g.of] = closed[g.of],
                 g.call \in {"attach", "attached"} =>
                    \/ attachedAs'[g.of] = attachedAs[g.of]
                    \/ /\ attachedAs'[g.of].to = attachedAs[g.of].to
                       /\ NestedAt(attachedAs[g.of].to, attachedAs[g.of].id)'
          PROVE  CallInv(g)'
      BY <1>1, <3>3, CallStays
    <3>4. QED
      BY <2>2, <3>1, <3>2, <3>3
  <2>3. QED
    BY <1>3, <2>1, <2>2
<1>6. ASSUME NEW i \in N, calls'[w][i].call = "run"
      PROVE  \/ i = n /\ n \in DOMAIN calls[w] /\ calls[w][n].call = "run"
                /\ calls[w][n].of = calls'[w][i].of
             \/ /\ \A v \in Workers : \A j \in DOMAIN calls[v] :
                      calls[v][j].call = "run" => calls[v][j].of # calls'[w][i].of
                /\ \A j \in N : calls'[w][j].call = "run" => j = i
  <2>1. calls'[w][i] \in LifeFrames
    BY <1>3, <1>4
  <2>2. QED
    BY <1>6, <2>1
<1>7. RunsOnce'
  <2>. SUFFICES ASSUME NEW u \in Workers, NEW v \in Workers,
                       NEW i \in DOMAIN calls'[u], NEW j \in DOMAIN calls'[v],
                       calls'[u][i].call = "run", calls'[v][j].call = "run",
                       calls'[u][i].of = calls'[v][j].of
                PROVE  u = v /\ i = j
    BY DEF RunsOnce
  <2>1. ASSUME NEW x \in Workers, NEW y \in Workers, NEW h \in DOMAIN calls[x],
               NEW k \in DOMAIN calls[y], calls[x][h].call = "run",
               calls[y][k].call = "run", calls[x][h].of = calls[y][k].of
        PROVE  x = y /\ h = k
    BY <1>1, <2>1 DEF RunsOnce
  <2>2. ASSUME NEW x \in Workers, NEW y \in Workers, NEW h \in DOMAIN calls'[x],
               NEW k \in DOMAIN calls'[y],
               calls'[x][h].call = "run", calls'[y][k].call = "run",
               calls'[x][h].of = calls'[y][k].of,
               x = w /\ h \in N, ~(y = w /\ k \in N)
        PROVE  FALSE
    <3>1. /\ k \in DOMAIN calls[y] /\ calls'[y][k] = calls[y][k]
          /\ y = w => k # n
      BY <1>3, <2>2
    <3>2. calls[y][k].call = "run" /\ calls[y][k].of = calls'[w][h].of /\ h \in N
          /\ calls'[w][h].call = "run"
      BY <2>2, <3>1
    <3>3. \/ /\ h = n /\ n \in DOMAIN calls[w] /\ calls[w][n].call = "run"
             /\ calls[w][n].of = calls'[w][h].of
          \/ calls[y][k].of # calls'[w][h].of
      BY <1>6, <3>1, <3>2
    <3>4. QED
      BY <2>1, <3>1, <3>2, <3>3
  <2>3. CASE u = w /\ i \in N /\ v = w /\ j \in N
    <3>1. /\ i = n \/ \A k \in N : calls'[w][k].call = "run" => k = i
          /\ j = n \/ \A k \in N : calls'[w][k].call = "run" => k = j
      BY <1>6, <2>3
    <3>2. QED
      BY <2>3, <3>1
  <2>4. CASE ~(u = w /\ i \in N) /\ ~(v = w /\ j \in N)
    BY <1>3, <2>1, <2>4
  <2>5. QED
    BY <2>2, <2>3, <2>4
<1>8. TakenSoon'
  <2>. SUFFICES ASSUME NEW l \in Scopes, terminated'[l], actions'[l] # {}
                PROVE  \E v \in Workers : \E i \in DOMAIN calls'[v] :
                          calls'[v][i].call = "terminate" /\ calls'[v][i].of = l
    BY DEF TakenSoon
  <2>1. CASE ~terminated[l]
    <3>1. PICK i \in N : calls'[w][i].call = "terminate" /\ calls'[w][i].of = l
      BY <2>1
    <3>2. QED
      BY <1>3, <3>1
  <2>2. CASE terminated[l]
    <3>1. actions[l] # {}
      BY <2>2 DEF LifeGoesOn
    <3>2. PICK v \in Workers : \E i \in DOMAIN calls[v] :
              calls[v][i].call = "terminate" /\ calls[v][i].of = l
      BY <1>1, <2>2, <3>1 DEF TakenSoon
    <3>3. PICK i \in DOMAIN calls[v] :
              calls[v][i].call = "terminate" /\ calls[v][i].of = l
      BY <3>2
    <3>4. ~(v = w /\ i = n)
      BY <3>3
    <3>5. i \in DOMAIN calls'[v] /\ calls'[v][i] = calls[v][i]
      BY <1>3, <3>4
    <3>6. QED
      BY <3>3, <3>5
  <2>3. QED
    BY <2>1, <2>2
<1>9. QED
  BY <1>5, <1>7, <1>8

\* Closings stay what they are while the calls of w change.
LEMMA ClosedStays ==
    ASSUME LifeInv, LifeGoesOn, closed' = closed
    PROVE  ClosedInv'
BY DEF LifeInv, LifeGoesOn, ClosedInv

\* No call of bracket begins or ends.
LEMMA BracketsStay ==
    ASSUME NEW w \in Workers, NEW n, NEW N, CallsChange(w, n, N),
           n \in DOMAIN calls[w] => calls[w][n].call # "bracket",
           \A i \in N : calls'[w][i].call # "bracket", NEW l
    PROVE  Brackets(l)' = Brackets(l)
<1>1. Frame("bracket", l).call = "bracket"
  BY DEF Frame
<1>2. \A v \in Workers : (\E i \in DOMAIN calls'[v] : calls'[v][i] = Frame("bracket", l))
                           <=> \E i \in DOMAIN calls[v] : calls[v][i] = Frame("bracket", l)
  BY <1>1 DEF CallsChange
<1>3. QED
  BY <1>2 DEF Brackets, Frame

\* What is due, when the calls of w change.
LEMMA DueIs ==
    ASSUME NEW w \in Workers, NEW n, NEW N, CallsChange(w, n, N), NEW l, NEW a \in LifeActions,
           a.do = "close"
    PROVE  LET InOthers == \E v \in Workers : \E i \in DOMAIN calls[v] :
                              ~(v = w /\ i = n) /\ calls[v][i].of = l /\ a \in calls[v][i].rest
           IN
           /\ a \in Due(l) <=>
                \/ a \in actions[l] \/ InOthers
                \/ n \in DOMAIN calls[w] /\ calls[w][n].of = l /\ a \in calls[w][n].rest
           /\ a \in Due(l)' <=>
                \/ a \in actions'[l] \/ InOthers
                \/ \E i \in N : calls'[w][i].of = l /\ a \in calls'[w][i].rest
<1>. DEFINE InOthers == \E v \in Workers : \E i \in DOMAIN calls[v] :
                          ~(v = w /\ i = n) /\ calls[v][i].of = l /\ a \in calls[v][i].rest
<1>1. a \in Due(l) <=> \/ a \in actions[l]
                       \/ \E v \in Workers : \E i \in DOMAIN calls[v] :
                             calls[v][i].of = l /\ a \in calls[v][i].rest
  BY DEF Due
<1>2. a \in Due(l)' <=> \/ a \in actions'[l]
                        \/ \E v \in Workers : \E i \in DOMAIN calls'[v] :
                              calls'[v][i].of = l /\ a \in calls'[v][i].rest
  BY DEF Due
<1>3. (\E v \in Workers : \E i \in DOMAIN calls'[v] :
          calls'[v][i].of = l /\ a \in calls'[v][i].rest)
         <=> InOthers \/ \E i \in N : calls'[w][i].of = l /\ a \in calls'[w][i].rest
  BY DEF CallsChange
<1>4. (\E v \in Workers : \E i \in DOMAIN calls[v] :
          calls[v][i].of = l /\ a \in calls[v][i].rest)
         <=> \/ InOthers
             \/ n \in DOMAIN calls[w] /\ calls[w][n].of = l /\ a \in calls[w][n].rest
  OBVIOUS
<1>5. QED
  BY <1>1, <1>2, <1>3, <1>4

LEMMA CountStays ==
    ASSUME Counted, \A l \in Scopes : Brackets(l)' = Brackets(l) /\ Due(l)' = Due(l),
           UNCHANGED <<opened, closed, leaked>>
    PROVE  Counted'
BY DEF Counted

LEMMA FrameIs ==
    ASSUME NEW c \in {"attach", "attached", "bracket", "terminate", "run"}, NEW l \in Scopes
    PROVE  /\ Frame(c, l) \in LifeFrames /\ Frame(c, l).call = c
           /\ Frame(c, l).of = l /\ Frame(c, l).rest = {}
BY DEF Frame, LifeFrames

\* A call that is under way.
LEMMA CallsAre ==
    ASSUME LifeTypes, CallsInv, NEW v \in Workers, NEW i \in DOMAIN calls[v]
    PROVE  /\ calls[v][i] \in LifeFrames /\ calls[v][i].of \in Scopes
           /\ CallInv(calls[v][i])
<1>1. calls[v] \in Seq(LifeFrames)
  BY DEF LifeTypes
<1>2. calls[v][i] \in LifeFrames
  BY <1>1
<1>3. QED
  BY <1>2 DEF CallsInv, LifeFrames

\* The innermost call of w.
LEMMA InnermostIs ==
    ASSUME LifeTypes, CallsInv, NEW w \in Workers, NEW c, Calls(w, c)
    PROVE  /\ calls[w] # <<>> /\ Len(calls[w]) \in DOMAIN calls[w]
           /\ Top(w) = calls[w][Len(calls[w])] /\ Top(w) \in LifeFrames
           /\ Top(w).call = c /\ Top(w).of \in Scopes /\ CallInv(Top(w))
           /\ Len(calls[w]) + 1 \notin DOMAIN calls[w]
<1>1. calls[w] # <<>> /\ Top(w).call = c /\ calls[w] \in Seq(LifeFrames)
  BY DEF Calls, Idle, LifeTypes
<1>2. /\ Len(calls[w]) \in Nat \ {0} /\ DOMAIN calls[w] = 1 .. Len(calls[w])
      /\ Last(calls[w]) = calls[w][Len(calls[w])] /\ Last(calls[w]) \in LifeFrames
  BY <1>1, Popped
<1>3. Len(calls[w]) \in DOMAIN calls[w] /\ Len(calls[w]) + 1 \notin DOMAIN calls[w]
  BY <1>2
<1>4. QED
  BY <1>1, <1>2, <1>3 DEF CallsInv, Top, LifeFrames

LEMMA ActionsStay ==
    ASSUME LifeTypes, LifeTypes', ActionsInv, LifeGoesOn,
           \A l \in Scopes : actions'[l] \subseteq actions[l]
    PROVE  ActionsInv'
<1>. SUFFICES ASSUME NEW l \in Scopes
              PROVE  /\ Distinct(actions'[l]) /\ ErasesNested(actions[l])'
                     /\ \A a \in actions'[l] : a.id < nextId'[l]
  BY DEF ActionsInv, Distinct
<1>1. /\ actions[l] \subseteq LifeActions /\ actions'[l] \subseteq LifeActions
      /\ nextId[l] \in Nat /\ nextId'[l] \in Nat /\ nextId[l] <= nextId'[l]
  BY DEF LifeTypes, LifeGoesOn
<1>2. /\ Distinct(actions[l]) /\ ErasesNested(actions[l])
      /\ \A a \in actions[l] : a.id < nextId[l]
  BY DEF ActionsInv
<1>3. ErasesNested(actions[l])'
  <2>1. ASSUME NEW S, S \subseteq LifeActions, ErasesNested(S) PROVE ErasesNested(S)'
    BY <2>1, ErasesStay
  <2>2. ASSUME NEW S, S = actions'[l] PROVE ErasesNested(S)'
    <3>1. S \subseteq LifeActions /\ ErasesNested(S)
      BY <1>1, <1>2, <2>2 DEF ErasesNested
    <3>2. QED
      BY <2>1, <3>1
  <2>3. QED
    BY <2>2 DEF ErasesNested
<1>4. \A a \in LifeActions : a.id \in Nat
  BY DEF LifeActions
<1>5. QED
  BY <1>1, <1>2, <1>3, <1>4 DEF Distinct

\* An action is added to a lifetime.
LEMMA ActionAdded ==
    ASSUME LifeTypes, ActionsInv, NEW l \in Scopes, NEW a \in LifeActions,
           AddAction(l, a), a.id = nextId[l]
    PROVE  /\ ~terminated[l] /\ a \notin actions[l]
           /\ actions' \in [Scopes -> SUBSET LifeActions]
           /\ nextId' \in [Scopes -> Nat]
           /\ actions'[l] = actions[l] \union {a} /\ nextId'[l] = nextId[l] + 1
           /\ \A k \in Scopes : k # l => actions'[k] = actions[k] /\ nextId'[k] = nextId[k]
           /\ \A k \in Scopes : /\ IsFiniteSet(actions'[k]) /\ Distinct(actions'[k])
                                /\ nextId[k] <= nextId'[k]
                                /\ \A b \in actions'[k] : b.id < nextId'[k]
                                /\ \A b \in actions'[k] : b \in actions[k] \/ (k = l /\ b = a)
<1>1. /\ actions \in [Scopes -> SUBSET LifeActions] /\ nextId \in [Scopes -> Nat]
      /\ \A k \in Scopes : IsFiniteSet(actions[k]) /\ nextId[k] \in Nat
  BY DEF LifeTypes
<1>2. /\ ~terminated[l]
      /\ actions' = [actions EXCEPT ![l] = @ \union {a}]
      /\ nextId' = [nextId EXCEPT ![l] = @ + 1]
  BY DEF AddAction
<1>3. /\ actions' \in [Scopes -> SUBSET LifeActions]
      /\ nextId' \in [Scopes -> Nat]
      /\ actions'[l] = actions[l] \union {a} /\ nextId'[l] = nextId[l] + 1
      /\ \A k \in Scopes : k # l => actions'[k] = actions[k] /\ nextId'[k] = nextId[k]
  BY <1>1, <1>2
<1>4. \A b \in LifeActions : b.id \in Nat
  BY DEF LifeActions
<1>5. /\ Distinct(actions[l]) /\ actions[l] \subseteq LifeActions
      /\ \A b \in actions[l] : b.id < nextId[l] /\ b.id \in Nat
  BY <1>1, <1>4 DEF ActionsInv
<1>6. a \notin actions[l] /\ nextId[l] \in Nat
  BY <1>1, <1>5
<1>7. /\ IsFiniteSet(actions'[l]) /\ Distinct(actions'[l])
      /\ \A b \in actions'[l] : b.id < nextId'[l]
  <2>1. IsFiniteSet(actions'[l])
    <3>1. IsFiniteSet(actions[l])
      BY <1>1
    <3>2. IsFiniteSet(actions[l] \union {a})
      BY ONLY <3>1, FS_AddElement
    <3>3. QED
      BY <1>3, <3>2
  <2>2. Distinct(actions'[l])
    BY <1>3, <1>5, <1>6 DEF Distinct
  <2>3. \A b \in actions'[l] : b.id < nextId'[l]
    BY <1>3, <1>5, <1>6
  <2>4. QED
    BY <2>1, <2>2, <2>3
<1>8. ASSUME NEW k \in Scopes, k # l
      PROVE  /\ IsFiniteSet(actions'[k]) /\ Distinct(actions'[k])
             /\ \A b \in actions'[k] : b.id < nextId'[k]
  BY <1>1, <1>3, <1>8 DEF ActionsInv
<1>9. QED
  BY <1>1, <1>2, <1>3, <1>6, <1>7, <1>8

LEMMA BracketsAreFinite ==
    ASSUME NEW l
    PROVE  /\ IsFiniteSet(Brackets(l)) /\ Cardinality(Brackets(l)) \in Nat
           /\ IsFiniteSet(Brackets(l)') /\ Cardinality(Brackets(l)') \in Nat
<1>1. Brackets(l) \subseteq Workers /\ Brackets(l)' \subseteq Workers
  BY DEF Brackets
<1>2. IsFiniteSet(Workers)
  BY LifetimesAssumption
<1>3. IsFiniteSet(Brackets(l)) /\ IsFiniteSet(Brackets(l)')
  BY <1>1, <1>2, FS_Subset
<1>4. QED
  BY <1>3, FS_CardinalityType

LEMMA BracketBegins ==
    ASSUME NEW w \in Workers, NEW l \in Scopes, CallsChange(w, 0, {1}),
           calls'[w][1] = Frame("bracket", l), DOMAIN calls[w] = {}
    PROVE  /\ Cardinality(Brackets(l)') = Cardinality(Brackets(l)) + 1
           /\ \A k \in Scopes : k # l => Brackets(k)' = Brackets(k)
<1>1. \A k \in Scopes : Frame("bracket", k) = Frame("bracket", l) => k = l
  BY DEF Frame
<1>2. Brackets(l)' = {v \in Workers : \E i \in DOMAIN calls'[v] : calls'[v][i] = Frame("bracket", l)}
  BY DEF Brackets, Frame
<1>3. Brackets(l)' = Brackets(l) \union {w} /\ w \notin Brackets(l)
  BY <1>2 DEF CallsChange, Brackets
<1>4. \A k \in Scopes : k # l => Brackets(k)' = Brackets(k)
  <2>. SUFFICES ASSUME NEW k \in Scopes, k # l PROVE Brackets(k)' = Brackets(k)
    OBVIOUS
  <2>1. Brackets(k)' = {v \in Workers : \E i \in DOMAIN calls'[v] : calls'[v][i] = Frame("bracket", k)}
    BY DEF Brackets, Frame
  <2>2. QED
    BY <1>1, <2>1 DEF CallsChange, Brackets
<1>5. IsFiniteSet(Brackets(l))
  BY BracketsAreFinite
<1>6. QED
  BY <1>3, <1>4, <1>5, FS_AddElement

LEMMA BracketIsOver ==
    ASSUME CallsInv, NEW w \in Workers, NEW l \in Scopes,
           CallsChange(w, Len(calls[w]), {}), Len(calls[w]) \in DOMAIN calls[w],
           calls[w][Len(calls[w])] = Frame("bracket", l)
    PROVE  /\ Cardinality(Brackets(l)) = Cardinality(Brackets(l)') + 1
           /\ \A k \in Scopes : k # l => Brackets(k)' = Brackets(k)
<1>1. /\ \A k \in Scopes : Frame("bracket", k) = Frame("bracket", l) => k = l
      /\ \A k \in Scopes : Frame("bracket", k).call # "run"
  BY DEF Frame
<1>2. Brackets(l)' = {v \in Workers : \E i \in DOMAIN calls'[v] : calls'[v][i] = Frame("bracket", l)}
  BY DEF Brackets, Frame
<1>3. \A i \in DOMAIN calls'[w] : calls'[w][i] # Frame("bracket", l)
  BY <1>1 DEF CallsChange, CallsInv
<1>4. Brackets(l) = Brackets(l)' \union {w} /\ w \notin Brackets(l)'
  BY <1>2, <1>3 DEF CallsChange, Brackets
<1>5. \A k \in Scopes : k # l => Brackets(k)' = Brackets(k)
  <2>. SUFFICES ASSUME NEW k \in Scopes, k # l PROVE Brackets(k)' = Brackets(k)
    OBVIOUS
  <2>1. Brackets(k)' = {v \in Workers : \E i \in DOMAIN calls'[v] : calls'[v][i] = Frame("bracket", k)}
    BY DEF Brackets, Frame
  <2>2. QED
    BY <1>1, <2>1 DEF CallsChange, Brackets
<1>6. IsFiniteSet(Brackets(l)')
  BY BracketsAreFinite
<1>7. QED
  BY <1>4, <1>5, <1>6, FS_AddElement

\* The actions of all lifetimes stay.
LEMMA GoesOnQuietly ==
    ASSUME LifeTypes, UNCHANGED <<actions, nextId>>,
           \A l \in Scopes : /\ terminated[l] => terminated'[l]
                             /\ status[l] # "new" => status'[l] # "new"
    PROVE  LifeGoesOn
BY DEF LifeTypes, LifeGoesOn

\* What is due stays when frames come and go that have nothing to run.
LEMMA DueStays ==
    ASSUME NEW w \in Workers, NEW n, NEW N, CallsChange(w, n, N), NEW l,
           \A a \in LifeActions : a.do = "close" => (a \in actions'[l] <=> a \in actions[l]),
           n \in DOMAIN calls[w] => calls[w][n].rest = {},
           \A i \in N : calls'[w][i].rest = {}
    PROVE  Due(l)' = Due(l)
<1>1. ASSUME NEW a \in LifeActions, a.do = "close" PROVE a \in Due(l)' <=> a \in Due(l)
  BY <1>1, DueIs
<1>2. QED
  BY <1>1 DEF Due

\* An action is added that ends, or detaches, a nested lifetime.
LEMMA ActionsGrow ==
    ASSUME LifeTypes, LifeTypes', ActionsInv, LifeGoesOn, NEW l \in Scopes, NEW a \in LifeActions,
           a.do = "erase" => NestedAt(a.of, a.which)',
           \A k \in Scopes : /\ Distinct(actions'[k])
                             /\ \A b \in actions'[k] : b.id < nextId'[k]
                             /\ \A b \in actions'[k] : b \in actions[k] \/ (k = l /\ b = a)
    PROVE  ActionsInv'
<1>1. ASSUME NEW k \in Scopes, NEW b \in actions'[k], b.do = "erase"
      PROVE  NestedAt(b.of, b.which)'
  <2>1. CASE b = a
    BY <1>1, <2>1
  <2>2. CASE b \in actions[k]
    <3>1. actions[k] \subseteq LifeActions
      BY DEF LifeTypes
    <3>2. b.of \in Scopes /\ b.which \in Nat
      BY <1>1, <2>2, <3>1 DEF LifeActions
    <3>3. NestedAt(b.of, b.which)
      BY <1>1, <2>2 DEF ActionsInv, ErasesNested
    <3>4. QED
      BY <3>2, <3>3, NestedStays
  <2>3. QED
    BY <1>1, <2>1, <2>2
<1>2. \A k \in Scopes : ErasesNested(actions[k])'
  BY <1>1 DEF ErasesNested
<1>3. QED
  BY <1>2 DEF ActionsInv, Distinct

\* A step of w that ends nothing and runs nothing.
LEMMA QuietStep ==
    ASSUME LifeInv, LifeTypes', LifeGoesOn, NEW w \in Workers, NEW n, NEW N,
           CallsChange(w, n, N), closed' = closed, terminated' = terminated,
           \A v \in Workers : \A i \in DOMAIN calls[v] : \A f \in LifeFrames :
              f = calls[v][i] /\ f.call \in {"attach", "attached"} =>
                 \/ attachedAs'[f.of] = attachedAs[f.of]
                 \/ /\ attachedAs'[f.of].to = attachedAs[f.of].to
                    /\ NestedAt(attachedAs[f.of].to, attachedAs[f.of].id)',
           \A i \in N : \A f \in LifeFrames : f = calls'[w][i] =>
              CallInv(f)' /\ f.call # "run" /\ i = Len(calls'[w]),
           n \in DOMAIN calls[w] => calls[w][n].call # "terminate"
    PROVE  CallsInv' /\ RunsOnce' /\ TakenSoon' /\ ClosedInv'
<1>1. ClosedInv'
  BY ClosedStays
<1>2. LifeTypes
  BY DEF LifeInv
<1>3. \A l \in Scopes : terminated'[l] = terminated[l]
  OBVIOUS
<1>4. \A v \in Workers : \A i \in DOMAIN calls[v] : ~(v = w /\ i = n) =>
              \A f \in LifeFrames : f = calls[v][i] =>
              /\ f.call = "run" => closed'[f.of] = closed[f.of]
              /\ f.call \in {"attach", "attached"} =>
                    \/ attachedAs'[f.of] = attachedAs[f.of]
                    \/ /\ attachedAs'[f.of].to = attachedAs[f.of].to
                       /\ NestedAt(attachedAs[f.of].to, attachedAs[f.of].id)'
  OBVIOUS
<1>5. \A i \in N : \A f \in LifeFrames : f = calls'[w][i] =>
              /\ CallInv(f)'
              /\ i # Len(calls'[w]) => f.call = "run"
              /\ f.call = "run" =>
                   \/ i = n /\ n \in DOMAIN calls[w] /\ calls[w][n].call = "run"
                      /\ calls[w][n].of = f.of
                   \/ /\ \A v \in Workers : \A j \in DOMAIN calls[v] :
                            calls[v][j].call = "run" => calls[v][j].of # f.of
                      /\ \A j \in N : calls'[w][j].call = "run" => j = i
  OBVIOUS
<1>6. CallsInv' /\ RunsOnce' /\ TakenSoon'
  BY <1>1, <1>3, <1>4, <1>5, LifeStep
<1>7. QED
  BY <1>1, <1>6

LEMMA MakeKeepsInv ==
    ASSUME LifeInv, NEW w \in Workers, NEW l \in Scopes, NEW p \in Scopes, Make(w, l, p)
    PROVE  LifeInv'
<1>1. /\ LifeTypes /\ ActionsInv /\ CallsInv /\ Counted
      /\ calls[w] = <<>> /\ status[l] = "new"
      /\ status' = [status EXCEPT ![l] = "attaching"]
      /\ attachedAs' = [attachedAs EXCEPT ![l] = [to |-> p, id |-> nextId[p]]]
      /\ calls' = [calls EXCEPT ![w] = Append(@, Frame("attach", l))]
      /\ UNCHANGED <<terminated, actions, nextId, opened, closed, leaked>>
  BY DEF LifeInv, Make, Idle
<1>2. /\ CallsChange(w, 0, {1}) /\ calls'[w][1] = Frame("attach", l) /\ Len(calls'[w]) = 1
      /\ DOMAIN calls[w] = {}
      /\ Frame("attach", l) \in LifeFrames /\ Frame("attach", l).call = "attach"
      /\ Frame("attach", l).of = l /\ Frame("attach", l).rest = {}
  <2>1. /\ Frame("attach", l) \in LifeFrames /\ Frame("attach", l).call = "attach"
        /\ Frame("attach", l).of = l /\ Frame("attach", l).rest = {}
    BY FrameIs
  <2>. DEFINE f == Frame("attach", l)
  <2>2. f \in LifeFrames /\ calls' = [calls EXCEPT ![w] = Append(@, f)]
    BY <1>1, <2>1
  <2>. HIDE DEF f
  <2>3. /\ CallsChange(w, 0, {1}) /\ calls'[w][1] = f /\ Len(calls'[w]) = 1
        /\ DOMAIN calls[w] = {}
    BY ONLY <1>1, <2>2, CallPushed
  <2>4. QED
    BY <2>1, <2>3 DEF f
<1>3. LifeTypes' /\ status'[l] = "attaching" /\ attachedAs'[l].to = p
      /\ \A k \in Scopes : k # l => status'[k] = status[k] /\ attachedAs'[k] = attachedAs[k]
  BY <1>1, <1>2 DEF LifeTypes, CallsChange
<1>4. LifeGoesOn
  BY <1>1, <1>3, GoesOnQuietly
<1>5. ActionsInv' /\ ClosedInv'
  BY <1>1, <1>3, <1>4, ActionsStay, ClosedStays
<1>6. ASSUME NEW v \in Workers, NEW i \in DOMAIN calls[v], NEW f \in LifeFrames,
             f = calls[v][i], f.call \in {"attach", "attached"}
      PROVE  attachedAs'[f.of] = attachedAs[f.of]
  <2>1. f.of \in Scopes /\ CallInv(f)
    BY <1>1, <1>6, CallsAre
  <2>2. QED
    BY <1>1, <1>3, <1>6, <2>1 DEF CallInv
<1>7. CallInv(Frame("attach", l))'
  BY <1>2, <1>3 DEF CallInv, Frame
<1>8. CallsInv' /\ RunsOnce' /\ TakenSoon'
  BY <1>1, <1>2, <1>3, <1>4, <1>5, <1>6, <1>7, QuietStep
<1>9. Counted'
  BY <1>1, <1>2, BracketsStay, DueStays, CountStays
<1>10. QED
  BY <1>3, <1>5, <1>8, <1>9 DEF LifeInv

LEMMA AttachKeepsInv ==
    ASSUME LifeInv, NEW w \in Workers, Attach(w)
    PROVE  LifeInv'
<1>. DEFINE n == Len(calls[w])
<1>1. /\ LifeTypes /\ ActionsInv /\ CallsInv /\ Counted
  BY DEF LifeInv
<1>2. /\ Calls(w, "attach") /\ calls[w] # <<>> /\ n \in DOMAIN calls[w]
      /\ Top(w) = calls[w][n] /\ Top(w).call = "attach" /\ Top(w).of \in Scopes
      /\ CallInv(Top(w))
  BY <1>1, InnermostIs DEF Attach
<1>3. PICK l \in Scopes : l = Top(w).of
  BY <1>2
<1>4. /\ status[l] # "new" /\ attachedAs[l].to \in Scopes /\ calls[w][n].rest = {}
      /\ calls[w][n].call = "attach"
  BY <1>2, <1>3 DEF CallInv
<1>5. PICK p \in Scopes : p = attachedAs[l].to
  BY <1>4
<1>6. nextId[p] \in Nat /\ Ending(nextId[p], l) \in LifeActions
  BY <1>1 DEF LifeTypes, LifeActions, Ending
<1>7. PICK a \in LifeActions : a = Ending(nextId[p], l)
  BY <1>6
<1>8. a.id = nextId[p] /\ a.do = "terminate"
  BY <1>7 DEF Ending
<1>9. /\ AddAction(p, a)
      /\ attachedAs' = [attachedAs EXCEPT ![l] = [to |-> p, id |-> nextId[p]]]
      /\ calls' = [calls EXCEPT ![w] = Append(Front(@), Frame("attached", l))]
      /\ UNCHANGED <<status, terminated, raced, opened, closed, leaked>>
  BY <1>3, <1>5, <1>7 DEF Attach, Becomes
<1>10. /\ ~terminated[p] /\ actions' \in [Scopes -> SUBSET LifeActions]
       /\ nextId' \in [Scopes -> Nat] /\ nextId'[p] = nextId[p] + 1
       /\ actions'[p] = actions[p] \union {a} /\ a \notin actions[p]
       /\ \A k \in Scopes : k # p => actions'[k] = actions[k] /\ nextId'[k] = nextId[k]
       /\ \A k \in Scopes : /\ IsFiniteSet(actions'[k]) /\ Distinct(actions'[k])
                            /\ nextId[k] <= nextId'[k]
                            /\ \A b \in actions'[k] : b.id < nextId'[k]
                            /\ \A b \in actions'[k] : b \in actions[k] \/ (k = p /\ b = a)
  BY ONLY <1>1, <1>6, <1>8, <1>9, ActionAdded
<1>11. /\ CallsChange(w, n, {n}) /\ calls'[w][n] = Frame("attached", l)
       /\ Len(calls'[w]) = n
       /\ Frame("attached", l).call = "attached"
       /\ Frame("attached", l).of = l /\ Frame("attached", l).rest = {}
  <2>. DEFINE f == Frame("attached", l)
  <2>1. f \in LifeFrames /\ f.call = "attached" /\ f.of = l /\ f.rest = {}
    BY <1>2, FrameIs
  <2>2. calls' = [calls EXCEPT ![w] = Append(Front(@), f)]
    BY <1>9
  <2>. HIDE DEF f
  <2>3. CallsChange(w, n, {n}) /\ calls'[w][n] = f /\ Len(calls'[w]) = n
    BY ONLY <1>1, <1>2, <2>1, <2>2, CallExchanged DEF n
  <2>4. QED
    BY <2>1, <2>3 DEF f
<1>. HIDE DEF n
<1>12. /\ attachedAs' \in [Scopes -> [to : Scopes \union {"eternal"}, id : Nat]]
       /\ attachedAs'[l].to = p /\ attachedAs'[l].id = nextId[p]
       /\ \A k \in Scopes : k # l => attachedAs'[k] = attachedAs[k]
  <2>1. attachedAs \in [Scopes -> [to : Scopes \union {"eternal"}, id : Nat]]
    BY <1>1 DEF LifeTypes
  <2>2. QED
    BY <1>6, <1>9, <2>1
<1>13. LifeTypes'
  BY <1>1, <1>9, <1>10, <1>11, <1>12 DEF LifeTypes, CallsChange
<1>14. LifeGoesOn
  BY <1>1, <1>9, <1>6, <1>8, <1>10 DEF LifeTypes, LifeGoesOn
<1>15. ActionsInv'
  <2>1. a.do = "erase" => NestedAt(a.of, a.which)'
    BY <1>8
  <2>2. \A k \in Scopes : /\ Distinct(actions'[k])
                          /\ \A b \in actions'[k] : b.id < nextId'[k]
                          /\ \A b \in actions'[k] : b \in actions[k] \/ (k = p /\ b = a)
    BY <1>10
  <2>3. QED
    BY ONLY <1>1, <1>13, <1>14, <2>1, <2>2, ActionsGrow
<1>16. NestedAt(attachedAs[l].to, attachedAs[l].id)'
  <2>1. \A b \in actions'[p] : b.id = nextId[p] => b = a
    <3>1. \A b \in actions[p] : b.id \in Nat /\ b.id < nextId[p]
      <4>1. actions[p] \subseteq LifeActions
        BY <1>1 DEF LifeTypes
      <4>2. \A b \in LifeActions : b.id \in Nat
        BY DEF LifeActions
      <4>3. QED
        BY <1>1, <4>1, <4>2 DEF ActionsInv
    <3>2. QED
      BY <1>6, <1>8, <1>10, <3>1
  <2>2. nextId[p] < nextId'[p]
    BY <1>6, <1>8, <1>10
  <2>3. attachedAs'[l].id < nextId'[attachedAs'[l].to]
    BY <1>12, <2>2
  <2>4. \A b \in actions'[attachedAs'[l].to] : b.id = attachedAs'[l].id => b.do = "terminate"
    BY <1>6, <1>8, <1>12, <2>1
  <2>5. QED
    BY <2>3, <2>4 DEF NestedAt
<1>17. ASSUME NEW v \in Workers, NEW i \in DOMAIN calls[v], NEW f \in LifeFrames,
              f = calls[v][i], f.call \in {"attach", "attached"}
       PROVE  \/ attachedAs'[f.of] = attachedAs[f.of]
              \/ /\ attachedAs'[f.of].to = attachedAs[f.of].to
                 /\ NestedAt(attachedAs[f.of].to, attachedAs[f.of].id)'
  <2>1. f.of \in Scopes
    BY DEF LifeFrames
  <2>2. attachedAs'[l].to = attachedAs[l].to
    BY <1>5, <1>12
  <2>3. CASE f.of = l
    BY <1>16, <2>2, <2>3
  <2>4. CASE f.of # l
    BY <1>12, <2>1, <2>4
  <2>5. QED
    BY <2>3, <2>4
<1>18. \A i \in {n} : \A f \in LifeFrames : f = calls'[w][i] =>
          CallInv(f)' /\ f.call # "run" /\ i = Len(calls'[w])
  <2>. SUFFICES ASSUME NEW f \in LifeFrames, f = calls'[w][n] PROVE CallInv(f)'
    BY <1>11
  <2>1. f.call = "attached" /\ f.of = l /\ f.rest = {}
    BY <1>11
  <2>2. status'[l] # "new" /\ attachedAs'[l].to \in Scopes
    BY <1>9, <1>4, <1>12
  <2>3. QED
    BY <1>16, <2>1, <2>2 DEF CallInv
<1>19. CallsInv' /\ RunsOnce' /\ TakenSoon' /\ ClosedInv'
  <2>1. n \in DOMAIN calls[w] => calls[w][n].call # "terminate"
    BY <1>4
  <2>2. closed' = closed /\ terminated' = terminated
    BY <1>9
  <2>3. QED
    BY ONLY LifeInv, <1>11, <1>13, <1>14, <1>17, <1>18, <2>1, <2>2, QuietStep
<1>20. Counted'
  <2>1. \A k \in Scopes : Brackets(k)' = Brackets(k)
    BY <1>4, <1>11, BracketsStay
  <2>2. \A k \in Scopes : \A b \in LifeActions : b.do = "close" =>
           (b \in actions'[k] <=> b \in actions[k])
    BY <1>4, <1>6, <1>8, <1>10
  <2>3. \A k \in Scopes : Due(k)' = Due(k)
    BY <1>4, <1>11, <2>2, DueStays
  <2>4. QED
    BY <1>1, <1>9, <2>1, <2>3, CountStays
<1>21. QED
  BY <1>13, <1>15, <1>19, <1>20 DEF LifeInv

LEMMA AttachedKeepsInv ==
    ASSUME LifeInv, NEW w \in Workers, Attached(w)
    PROVE  LifeInv'
<1>. DEFINE n == Len(calls[w])
<1>1. /\ LifeTypes /\ ActionsInv /\ CallsInv /\ Counted
  BY DEF LifeInv
<1>2. /\ calls[w] # <<>> /\ n \in DOMAIN calls[w] /\ Top(w) = calls[w][n]
      /\ Top(w).call = "attached" /\ Top(w).of \in Scopes /\ CallInv(Top(w))
  BY <1>1, InnermostIs DEF Attached
<1>3. PICK l \in Scopes : l = Top(w).of
  BY <1>2
<1>4. /\ status[l] # "new" /\ attachedAs[l].to \in Scopes /\ calls[w][n].rest = {}
      /\ calls[w][n].call = "attached" /\ NestedAt(attachedAs[l].to, attachedAs[l].id)
  BY <1>2, <1>3 DEF CallInv
<1>5. PICK p \in Scopes : p = attachedAs[l].to
  BY <1>4
<1>6. attachedAs[l].id \in Nat /\ nextId[l] \in Nat
  BY <1>1 DEF LifeTypes
<1>7. Detaching(nextId[l], attachedAs[l].to, attachedAs[l].id) \in LifeActions
  BY <1>4, <1>6 DEF LifeActions, Detaching
<1>8. PICK a \in LifeActions : a = Detaching(nextId[l], attachedAs[l].to, attachedAs[l].id)
  BY <1>7
<1>9. /\ a.id = nextId[l] /\ a.do = "erase" /\ a.of \in Scopes /\ a.which \in Nat
      /\ NestedAt(a.of, a.which)
  BY <1>4, <1>6, <1>8 DEF Detaching
<1>10. /\ AddAction(l, a)
       /\ status' = [status EXCEPT ![l] = "made"]
       /\ calls' = [calls EXCEPT ![w] = Front(@)]
       /\ UNCHANGED <<terminated, raced, attachedAs, opened, closed, leaked>>
  BY <1>3, <1>8 DEF Attached, Returns
<1>11. /\ ~terminated[l] /\ actions' \in [Scopes -> SUBSET LifeActions]
       /\ nextId' \in [Scopes -> Nat] /\ nextId'[l] = nextId[l] + 1
       /\ actions'[l] = actions[l] \union {a} /\ a \notin actions[l]
       /\ \A k \in Scopes : k # l => actions'[k] = actions[k] /\ nextId'[k] = nextId[k]
       /\ \A k \in Scopes : /\ IsFiniteSet(actions'[k]) /\ Distinct(actions'[k])
                            /\ nextId[k] <= nextId'[k]
                            /\ \A b \in actions'[k] : b.id < nextId'[k]
                            /\ \A b \in actions'[k] : b \in actions[k] \/ (k = l /\ b = a)
  BY ONLY <1>1, <1>9, <1>10, ActionAdded
<1>12. CallsChange(w, n, {})
  BY ONLY <1>1, <1>2, <1>10, CallPopped DEF n
<1>. HIDE DEF n
<1>13. LifeTypes'
  BY <1>1, <1>10, <1>11, <1>12 DEF LifeTypes, CallsChange
<1>14. LifeGoesOn
  BY <1>1, <1>9, <1>10, <1>11 DEF LifeTypes, LifeGoesOn
<1>15. ActionsInv'
  <2>1. a.do = "erase" => NestedAt(a.of, a.which)'
    BY <1>1, <1>9, <1>13, <1>14, NestedStays
  <2>2. \A k \in Scopes : /\ Distinct(actions'[k])
                          /\ \A b \in actions'[k] : b.id < nextId'[k]
                          /\ \A b \in actions'[k] : b \in actions[k] \/ (k = l /\ b = a)
    BY <1>11
  <2>3. QED
    BY ONLY <1>1, <1>13, <1>14, <2>1, <2>2, ActionsGrow
<1>16. CallsInv' /\ RunsOnce' /\ TakenSoon' /\ ClosedInv'
  <2>1. n \in DOMAIN calls[w] => calls[w][n].call # "terminate"
    BY <1>4
  <2>2. closed' = closed /\ terminated' = terminated /\ attachedAs' = attachedAs
    BY <1>10
  <2>3. QED
    BY ONLY LifeInv, <1>12, <1>13, <1>14, <2>1, <2>2, QuietStep
<1>17. Counted'
  <2>1. \A k \in Scopes : Brackets(k)' = Brackets(k)
    BY <1>4, <1>12, BracketsStay
  <2>2. \A k \in Scopes : \A b \in LifeActions : b.do = "close" =>
           (b \in actions'[k] <=> b \in actions[k])
    BY <1>9, <1>11
  <2>3. \A k \in Scopes : Due(k)' = Due(k)
    BY <1>4, <1>12, <2>2, DueStays
  <2>4. QED
    BY <1>1, <1>10, <2>1, <2>3, CountStays
<1>18. QED
  BY <1>13, <1>15, <1>16, <1>17 DEF LifeInv

LEMMA RefusedKeepsInv ==
    ASSUME LifeInv, NEW w \in Workers, Refused(w)
    PROVE  LifeInv'
<1>. DEFINE n == Len(calls[w])
<1>1. /\ LifeTypes /\ ActionsInv /\ CallsInv /\ Counted
  BY DEF LifeInv
<1>2. PICK c \in {"attach", "attached"} : Calls(w, c)
  BY DEF Refused
<1>3. /\ calls[w] # <<>> /\ n \in DOMAIN calls[w] /\ Top(w) = calls[w][n]
      /\ Top(w).call = c /\ Top(w).of \in Scopes /\ CallInv(Top(w))
  BY <1>1, <1>2, InnermostIs
<1>4. PICK l \in Scopes : l = Top(w).of
  BY <1>3
<1>5. /\ calls[w][n].rest = {} /\ calls[w][n].call \in {"attach", "attached"}
  BY <1>2, <1>3 DEF CallInv
<1>6. /\ status' = [status EXCEPT ![l] = "failed"]
      /\ calls' = [calls EXCEPT ![w] = Front(@)]
      /\ UNCHANGED <<terminated, actions, nextId, raced, attachedAs, opened, closed, leaked>>
  BY <1>4 DEF Refused, Returns
<1>7. CallsChange(w, n, {})
  BY ONLY <1>1, <1>3, <1>6, CallPopped DEF n
<1>. HIDE DEF n
<1>8. LifeTypes'
  BY <1>1, <1>6, <1>7 DEF LifeTypes, CallsChange
<1>9. LifeGoesOn
  BY <1>1, <1>6 DEF LifeTypes, LifeGoesOn
<1>10. ActionsInv'
  BY <1>1, <1>6, <1>8, <1>9, ActionsStay
<1>11. CallsInv' /\ RunsOnce' /\ TakenSoon' /\ ClosedInv'
  <2>1. n \in DOMAIN calls[w] => calls[w][n].call # "terminate"
    BY <1>5
  <2>2. closed' = closed /\ terminated' = terminated /\ attachedAs' = attachedAs
    BY <1>6
  <2>3. QED
    BY ONLY LifeInv, <1>7, <1>8, <1>9, <2>1, <2>2, QuietStep
<1>12. Counted'
  <2>1. \A k \in Scopes : Brackets(k)' = Brackets(k)
    BY <1>5, <1>7, BracketsStay
  <2>2. \A k \in Scopes : Due(k)' = Due(k)
    BY <1>5, <1>6, <1>7, DueStays
  <2>3. QED
    BY <1>1, <1>6, <2>1, <2>2, CountStays
<1>13. QED
  BY <1>8, <1>10, <1>11, <1>12 DEF LifeInv

LEMMA OpenKeepsInv ==
    ASSUME LifeInv, NEW w \in Workers, NEW l \in Scopes, Open(w, l)
    PROVE  LifeInv'
<1>1. /\ LifeTypes /\ ActionsInv /\ CallsInv /\ Counted
  BY DEF LifeInv
<1>2. /\ calls[w] = <<>>
      /\ opened' = [opened EXCEPT ![l] = @ + 1]
      /\ calls' = [calls EXCEPT ![w] = Append(@, Frame("bracket", l))]
      /\ UNCHANGED <<status, terminated, actions, nextId, raced, attachedAs, closed, leaked>>
  BY DEF Open, Idle
<1>3. PICK f \in LifeFrames : f = Frame("bracket", l)
  BY FrameIs
<1>4. f.call = "bracket" /\ f.of = l /\ f.rest = {}
  BY <1>3, FrameIs
<1>5. /\ CallsChange(w, 0, {1}) /\ calls'[w][1] = f /\ Len(calls'[w]) = 1
      /\ DOMAIN calls[w] = {}
  <2>1. calls' = [calls EXCEPT ![w] = Append(@, f)]
    BY <1>2, <1>3
  <2>2. QED
    BY ONLY <1>1, <1>2, <2>1, CallPushed
<1>6. opened \in [Scopes -> Nat] /\ opened' \in [Scopes -> Nat]
  BY <1>1, <1>2 DEF LifeTypes
<1>7. LifeTypes'
  BY <1>1, <1>2, <1>5, <1>6 DEF LifeTypes, CallsChange
<1>8. LifeGoesOn
  BY <1>1, <1>2, GoesOnQuietly
<1>9. ActionsInv'
  BY <1>1, <1>2, <1>7, <1>8, ActionsStay
<1>10. \A i \in {1} : \A g \in LifeFrames : g = calls'[w][i] =>
          CallInv(g)' /\ g.call # "run" /\ i = Len(calls'[w])
  BY <1>4, <1>5 DEF CallInv
<1>11. CallsInv' /\ RunsOnce' /\ TakenSoon' /\ ClosedInv'
  <2>1. 0 \in DOMAIN calls[w] => calls[w][0].call # "terminate"
    BY <1>5
  <2>2. closed' = closed /\ terminated' = terminated /\ attachedAs' = attachedAs
    BY <1>2
  <2>3. QED
    BY ONLY LifeInv, <1>5, <1>7, <1>8, <1>10, <2>1, <2>2, QuietStep
<1>12. Counted'
  <2>1. \A k \in Scopes : Due(k)' = Due(k)
    BY <1>2, <1>4, <1>5, DueStays
  <2>2. /\ Cardinality(Brackets(l)') = Cardinality(Brackets(l)) + 1
        /\ \A k \in Scopes : k # l => Brackets(k)' = Brackets(k)
    BY <1>3, <1>5, BracketBegins
  <2>3. opened'[l] = opened[l] + 1 /\ \A k \in Scopes : k # l => opened'[k] = opened[k]
    BY <1>2, <1>6
  <2>4. closed' = closed /\ leaked' = leaked
    BY <1>2
  <2>5. ASSUME NEW k \in Scopes
        PROVE  opened'[k] = Len(closed'[k]) + leaked'[k] + Cardinality(Brackets(k)')
                               + Cardinality(Due(k)')
    <3>1. /\ opened[k] = Len(closed[k]) + leaked[k] + Cardinality(Brackets(k))
                            + Cardinality(Due(k))
          /\ IsFiniteSet(Due(k)) /\ closed[k] \in Seq(Nat) /\ leaked[k] \in Nat
      BY <1>1 DEF Counted, LifeTypes
    <3>2. /\ Cardinality(Brackets(k)) \in Nat /\ Cardinality(Due(k)) \in Nat
          /\ Len(closed[k]) \in Nat
      BY <3>1, BracketsAreFinite, FS_CardinalityType
    <3>3. CASE k = l
      <4>1. Cardinality(Brackets(k)') = Cardinality(Brackets(k)) + 1
        BY <1>3, <1>5, <3>3, BracketBegins
      <4>2. /\ opened'[k] = opened[k] + 1 /\ Due(k)' = Due(k)
            /\ closed'[k] = closed[k] /\ leaked'[k] = leaked[k]
        BY <2>1, <2>3, <2>4, <3>3
      <4>3. Cardinality(Due(k)') = Cardinality(Due(k)) /\ Len(closed'[k]) = Len(closed[k])
        BY <4>2
      <4>4. QED
        BY ONLY <3>1, <3>2, <4>1, <4>2, <4>3
    <3>4. CASE k # l
      BY <2>1, <2>2, <2>3, <2>4, <3>1, <3>4
    <3>5. QED
      BY <3>3, <3>4
  <2>6. \A k \in Scopes : IsFiniteSet(Due(k)')
    BY <1>1, <2>1 DEF Counted
  <2>7. QED
    BY <2>5, <2>6 DEF Counted
<1>13. QED
  BY <1>7, <1>9, <1>11, <1>12 DEF LifeInv

\* A closing is registered.
LEMMA DueGrows ==
    ASSUME NEW w \in Workers, NEW n, NEW N, CallsChange(w, n, N), NEW l,
           NEW a \in LifeActions, a.do = "close", actions'[l] = actions[l] \union {a},
           n \in DOMAIN calls[w] => calls[w][n].rest = {},
           \A i \in N : calls'[w][i].rest = {}
    PROVE  Due(l)' = Due(l) \union {a}
<1>1. ASSUME NEW b \in LifeActions, b.do = "close"
      PROVE  b \in Due(l)' <=> b \in Due(l) \/ b = a
  BY <1>1, DueIs
<1>2. a \in LifeActions /\ a.do = "close"
  OBVIOUS
<1>3. QED
  BY <1>1, <1>2 DEF Due

LEMMA BracketKeepsInv ==
    ASSUME LifeInv, NEW w \in Workers, Bracket(w)
    PROVE  LifeInv'
<1>. DEFINE n == Len(calls[w])
<1>1. /\ LifeTypes /\ ActionsInv /\ CallsInv /\ Counted
  BY DEF LifeInv
<1>2. /\ calls[w] # <<>> /\ n \in DOMAIN calls[w] /\ Top(w) = calls[w][n]
      /\ Top(w).call = "bracket" /\ Top(w).of \in Scopes /\ CallInv(Top(w))
      /\ Top(w) \in LifeFrames
  BY <1>1, InnermostIs DEF Bracket
<1>3. PICK l \in Scopes : l = Top(w).of
  BY <1>2
<1>4. /\ calls[w][n].rest = {} /\ calls[w][n].call = "bracket"
      /\ calls[w][n] = Frame("bracket", l)
  BY <1>2, <1>3 DEF CallInv, Frame, LifeFrames
<1>5. nextId[l] \in Nat /\ Closing(nextId[l]) \in LifeActions
  BY <1>1 DEF LifeTypes, LifeActions, Closing
<1>6. PICK a \in LifeActions : a = Closing(nextId[l])
  BY <1>5
<1>7. a.id = nextId[l] /\ a.do = "close"
  BY <1>6 DEF Closing
<1>8. /\ AddAction(l, a)
      /\ calls' = [calls EXCEPT ![w] = Front(@)]
      /\ UNCHANGED <<status, terminated, raced, attachedAs, opened, closed, leaked>>
  BY <1>3, <1>6 DEF Bracket, Returns
<1>9. /\ ~terminated[l] /\ actions' \in [Scopes -> SUBSET LifeActions]
      /\ nextId' \in [Scopes -> Nat] /\ nextId'[l] = nextId[l] + 1
      /\ actions'[l] = actions[l] \union {a} /\ a \notin actions[l]
      /\ \A k \in Scopes : k # l => actions'[k] = actions[k] /\ nextId'[k] = nextId[k]
      /\ \A k \in Scopes : /\ IsFiniteSet(actions'[k]) /\ Distinct(actions'[k])
                           /\ nextId[k] <= nextId'[k]
                           /\ \A b \in actions'[k] : b.id < nextId'[k]
                           /\ \A b \in actions'[k] : b \in actions[k] \/ (k = l /\ b = a)
  BY ONLY <1>1, <1>7, <1>8, ActionAdded
<1>10. CallsChange(w, n, {})
  BY ONLY <1>1, <1>2, <1>8, CallPopped DEF n
<1>11. n = Len(calls[w])
  OBVIOUS
<1>. HIDE DEF n
<1>12. LifeTypes'
  BY <1>1, <1>8, <1>9, <1>10 DEF LifeTypes, CallsChange
<1>13. LifeGoesOn
  BY <1>1, <1>7, <1>8, <1>9 DEF LifeTypes, LifeGoesOn
<1>14. ActionsInv'
  <2>1. a.do = "erase" => NestedAt(a.of, a.which)'
    BY <1>7
  <2>2. \A k \in Scopes : /\ Distinct(actions'[k])
                          /\ \A b \in actions'[k] : b.id < nextId'[k]
                          /\ \A b \in actions'[k] : b \in actions[k] \/ (k = l /\ b = a)
    BY <1>9
  <2>3. QED
    BY ONLY <1>1, <1>12, <1>13, <2>1, <2>2, ActionsGrow
<1>15. CallsInv' /\ RunsOnce' /\ TakenSoon' /\ ClosedInv'
  <2>1. n \in DOMAIN calls[w] => calls[w][n].call # "terminate"
    BY <1>4
  <2>2. closed' = closed /\ terminated' = terminated /\ attachedAs' = attachedAs
    BY <1>8
  <2>3. QED
    BY ONLY LifeInv, <1>10, <1>12, <1>13, <2>1, <2>2, QuietStep
<1>16. ASSUME NEW k \in Scopes
       PROVE  /\ opened[k] = Len(closed[k]) + leaked[k] + Cardinality(Brackets(k))
                                + Cardinality(Due(k))
              /\ IsFiniteSet(Due(k)) /\ Cardinality(Due(k)) \in Nat
              /\ Len(closed[k]) \in Nat /\ leaked[k] \in Nat
              /\ Cardinality(Brackets(k)) \in Nat /\ Cardinality(Brackets(k)') \in Nat
              /\ opened'[k] = opened[k] /\ leaked'[k] = leaked[k] /\ closed'[k] = closed[k]
  <2>1. closed[k] \in Seq(Nat) /\ leaked[k] \in Nat /\ IsFiniteSet(Due(k))
    BY <1>1 DEF Counted, LifeTypes
  <2>2. /\ Cardinality(Brackets(k)) \in Nat /\ Cardinality(Brackets(k)') \in Nat
        /\ Cardinality(Due(k)) \in Nat
    BY <2>1, BracketsAreFinite, FS_CardinalityType
  <2>3. QED
    BY <1>1, <1>8, <2>1, <2>2 DEF Counted
<1>17. ASSUME NEW k \in Scopes, k # l
       PROVE  Brackets(k)' = Brackets(k) /\ Due(k)' = Due(k)
  <2>1. Brackets(k)' = Brackets(k)
    BY <1>1, <1>4, <1>10, <1>11, <1>2, <1>17, BracketIsOver
  <2>2. QED
    BY <1>4, <1>9, <1>10, <1>17, <2>1, DueStays
<1>18. ASSUME NEW k \in Scopes, k = l
       PROVE  /\ Cardinality(Brackets(k)) = Cardinality(Brackets(k)') + 1
              /\ IsFiniteSet(Due(k)') /\ Cardinality(Due(k)') = Cardinality(Due(k)) + 1
  <2>1. Cardinality(Brackets(k)) = Cardinality(Brackets(k)') + 1
    BY <1>1, <1>4, <1>10, <1>11, <1>2, <1>18, BracketIsOver
  <2>2. Due(k)' = Due(k) \union {a}
    BY <1>4, <1>7, <1>9, <1>10, <1>18, DueGrows
  <2>3. a \notin Due(k)
    <3>1. ASSUME NEW v \in Workers, NEW i \in DOMAIN calls[v], calls[v][i].of = l
          PROVE  calls[v][i].rest = {}
      <4>1. CallInv(calls[v][i])
        BY <1>1, CallsAre
      <4>2. QED
        BY <1>9, <3>1, <4>1 DEF CallInv
    <3>2. QED
      BY <1>9, <1>18, <3>1 DEF Due
  <2>4. QED
    BY <1>16, <2>1, <2>2, <2>3, FS_AddElement
<1>19. Counted'
  <2>. SUFFICES ASSUME NEW k \in Scopes
                PROVE  /\ IsFiniteSet(Due(k)')
                       /\ opened'[k] = Len(closed'[k]) + leaked'[k]
                             + Cardinality(Brackets(k)') + Cardinality(Due(k)')
    BY DEF Counted
  <2>1. CASE k = l
    <3>1. /\ Cardinality(Brackets(k)) = Cardinality(Brackets(k)') + 1
          /\ IsFiniteSet(Due(k)') /\ Cardinality(Due(k)') = Cardinality(Due(k)) + 1
      BY <1>18, <2>1
    <3>2. /\ opened[k] = Len(closed[k]) + leaked[k] + Cardinality(Brackets(k))
                            + Cardinality(Due(k))
          /\ Cardinality(Due(k)) \in Nat /\ Len(closed[k]) \in Nat /\ leaked[k] \in Nat
          /\ Cardinality(Brackets(k)') \in Nat
      BY <1>16
    <3>3. /\ opened'[k] = opened[k] /\ leaked'[k] = leaked[k]
          /\ Len(closed'[k]) = Len(closed[k])
      BY <1>16
    <3>. DEFINE b == Cardinality(Brackets(k))
                d == Cardinality(Due(k))
                fewer == Cardinality(Brackets(k)')
                more == Cardinality(Due(k)')
                c == Len(closed[k])
    <3>4. /\ b = fewer + 1 /\ more = d + 1 /\ opened[k] = c + leaked[k] + b + d
          /\ d \in Nat /\ c \in Nat /\ leaked[k] \in Nat /\ fewer \in Nat
      BY ONLY <3>1, <3>2
    <3>. HIDE DEF b, d, fewer, more, c
    <3>5. opened[k] = c + leaked[k] + fewer + more
      BY ONLY <3>4
    <3>6. QED
      BY <3>1, <3>3, <3>5 DEF fewer, more, c
  <2>2. CASE k # l
    BY <1>16, <1>17, <2>2
  <2>3. QED
    BY <2>1, <2>2
<1>20. QED
  BY <1>12, <1>14, <1>15, <1>19 DEF LifeInv

LEMMA BracketRefusedKeepsInv ==
    ASSUME LifeInv, NEW w \in Workers, BracketRefused(w)
    PROVE  LifeInv'
<1>. DEFINE n == Len(calls[w])
<1>1. /\ LifeTypes /\ ActionsInv /\ CallsInv /\ Counted
  BY DEF LifeInv
<1>2. /\ calls[w] # <<>> /\ n \in DOMAIN calls[w] /\ Top(w) = calls[w][n]
      /\ Top(w).call = "bracket" /\ Top(w).of \in Scopes /\ CallInv(Top(w))
      /\ Top(w) \in LifeFrames
  BY <1>1, InnermostIs DEF BracketRefused
<1>3. PICK l \in Scopes : l = Top(w).of
  BY <1>2
<1>4. /\ calls[w][n].rest = {} /\ calls[w][n].call = "bracket"
      /\ calls[w][n] = Frame("bracket", l)
  BY <1>2, <1>3 DEF CallInv, Frame, LifeFrames
<1>5. /\ leaked' = [leaked EXCEPT ![l] = @ + 1]
      /\ calls' = [calls EXCEPT ![w] = Front(@)]
      /\ UNCHANGED <<status, terminated, actions, nextId, raced, attachedAs, opened, closed>>
  BY <1>3 DEF BracketRefused, Returns
<1>6. leaked \in [Scopes -> Nat] /\ leaked' \in [Scopes -> Nat]
  BY <1>1, <1>5 DEF LifeTypes
<1>7. CallsChange(w, n, {})
  BY ONLY <1>1, <1>2, <1>5, CallPopped DEF n
<1>8. n = Len(calls[w])
  OBVIOUS
<1>. HIDE DEF n
<1>9. LifeTypes'
  BY <1>1, <1>5, <1>6, <1>7 DEF LifeTypes, CallsChange
<1>10. LifeGoesOn
  BY <1>1, <1>5, GoesOnQuietly
<1>11. ActionsInv'
  BY <1>1, <1>5, <1>9, <1>10, ActionsStay
<1>12. CallsInv' /\ RunsOnce' /\ TakenSoon' /\ ClosedInv'
  <2>1. n \in DOMAIN calls[w] => calls[w][n].call # "terminate"
    BY <1>4
  <2>2. closed' = closed /\ terminated' = terminated /\ attachedAs' = attachedAs
    BY <1>5
  <2>3. QED
    BY ONLY LifeInv, <1>7, <1>9, <1>10, <2>1, <2>2, QuietStep
<1>13. Counted'
  <2>. SUFFICES ASSUME NEW k \in Scopes
                PROVE  /\ IsFiniteSet(Due(k)')
                       /\ opened'[k] = Len(closed'[k]) + leaked'[k]
                             + Cardinality(Brackets(k)') + Cardinality(Due(k)')
    BY DEF Counted
  <2>1. /\ opened[k] = Len(closed[k]) + leaked[k] + Cardinality(Brackets(k))
                          + Cardinality(Due(k))
        /\ IsFiniteSet(Due(k)) /\ closed[k] \in Seq(Nat) /\ leaked[k] \in Nat
    BY <1>1 DEF Counted, LifeTypes
  <2>2. /\ Cardinality(Brackets(k)) \in Nat /\ Cardinality(Brackets(k)') \in Nat
        /\ Cardinality(Due(k)) \in Nat /\ Len(closed[k]) \in Nat
    BY <2>1, BracketsAreFinite, FS_CardinalityType
  <2>3. Due(k)' = Due(k)
    BY <1>4, <1>5, <1>7, DueStays
  <2>4. IsFiniteSet(Due(k)') /\ Cardinality(Due(k)') = Cardinality(Due(k))
    BY <2>1, <2>3
  <2>5. opened'[k] = opened[k] /\ Len(closed'[k]) = Len(closed[k])
    BY <1>5
  <2>6. CASE k = l
    <3>1. Cardinality(Brackets(k)) = Cardinality(Brackets(k)') + 1
      BY <1>1, <1>2, <1>4, <1>7, <1>8, <2>6, BracketIsOver
    <3>2. leaked'[k] = leaked[k] + 1
      BY <1>5, <1>6, <2>6
    <3>3. QED
      <4>. DEFINE b == Cardinality(Brackets(k))
                  d == Cardinality(Due(k))
                  fewer == Cardinality(Brackets(k)')
                  c == Len(closed[k])
      <4>1. /\ b = fewer + 1 /\ opened[k] = c + leaked[k] + b + d
            /\ leaked'[k] = leaked[k] + 1
            /\ d \in Nat /\ c \in Nat /\ leaked[k] \in Nat /\ fewer \in Nat
        BY ONLY <2>1, <2>2, <3>1, <3>2
      <4>. HIDE DEF b, d, fewer, c
      <4>2. opened[k] = c + leaked'[k] + fewer + d
        BY ONLY <4>1
      <4>3. QED
        BY <2>4, <2>5, <4>2 DEF fewer, c, d
  <2>7. CASE k # l
    <3>1. Brackets(k)' = Brackets(k)
      BY <1>1, <1>2, <1>4, <1>7, <1>8, <2>7, BracketIsOver
    <3>2. leaked'[k] = leaked[k] /\ Cardinality(Brackets(k)') = Cardinality(Brackets(k))
      BY <1>5, <1>6, <2>7, <3>1
    <3>3. QED
      BY ONLY <2>1, <2>2, <2>4, <2>5, <3>2
  <2>8. QED
    BY <2>6, <2>7
<1>14. QED
  BY <1>9, <1>11, <1>12, <1>13 DEF LifeInv

LEMMA ReturnKeepsInv ==
    ASSUME LifeInv, NEW w \in Workers, Return(w)
    PROVE  LifeInv'
<1>. DEFINE n == Len(calls[w])
<1>1. /\ LifeTypes /\ ActionsInv /\ CallsInv /\ Counted
  BY DEF LifeInv
<1>2. /\ calls[w] # <<>> /\ n \in DOMAIN calls[w] /\ Top(w) = calls[w][n]
      /\ Top(w).call = "run"
  BY <1>1, InnermostIs DEF Return
<1>3. /\ calls[w][n].rest = {} /\ calls[w][n].call = "run"
      /\ calls' = [calls EXCEPT ![w] = Front(@)]
      /\ UNCHANGED <<status, terminated, actions, nextId, raced, attachedAs, opened, closed, leaked>>
  BY <1>2 DEF Return, Returns
<1>4. CallsChange(w, n, {})
  BY ONLY <1>1, <1>2, <1>3, CallPopped DEF n
<1>. HIDE DEF n
<1>5. LifeTypes'
  BY <1>1, <1>3, <1>4 DEF LifeTypes, CallsChange
<1>6. LifeGoesOn
  BY <1>1, <1>3, GoesOnQuietly
<1>7. ActionsInv'
  BY <1>1, <1>3, <1>5, <1>6, ActionsStay
<1>8. CallsInv' /\ RunsOnce' /\ TakenSoon' /\ ClosedInv'
  <2>1. n \in DOMAIN calls[w] => calls[w][n].call # "terminate"
    BY <1>3
  <2>2. closed' = closed /\ terminated' = terminated /\ attachedAs' = attachedAs
    BY <1>3
  <2>3. QED
    BY ONLY LifeInv, <1>4, <1>5, <1>6, <2>1, <2>2, QuietStep
<1>9. Counted'
  <2>1. \A k \in Scopes : Brackets(k)' = Brackets(k)
    BY <1>3, <1>4, BracketsStay
  <2>2. \A k \in Scopes : Due(k)' = Due(k)
    BY <1>3, <1>4, DueStays
  <2>3. QED
    BY <1>1, <1>3, <2>1, <2>2, CountStays
<1>10. QED
  BY <1>5, <1>7, <1>8, <1>9 DEF LifeInv

LEMMA TerminateKeepsInv ==
    ASSUME LifeInv, NEW w \in Workers, NEW l \in Scopes, Terminate(w, l)
    PROVE  LifeInv'
<1>1. /\ LifeTypes /\ ActionsInv /\ CallsInv /\ Counted
  BY DEF LifeInv
<1>2. /\ calls[w] = <<>>
      /\ terminated' = [terminated EXCEPT ![l] = TRUE]
      /\ calls' = [calls EXCEPT ![w] = Append(@, Frame("terminate", l))]
      /\ UNCHANGED <<status, actions, nextId, raced, attachedAs, opened, closed, leaked>>
  BY DEF Terminate, Idle
<1>3. PICK f \in LifeFrames : f = Frame("terminate", l)
  BY FrameIs
<1>4. f.call = "terminate" /\ f.of = l /\ f.rest = {}
  BY <1>3, FrameIs
<1>5. /\ CallsChange(w, 0, {1}) /\ calls'[w][1] = f /\ Len(calls'[w]) = 1
      /\ DOMAIN calls[w] = {}
  <2>1. calls' = [calls EXCEPT ![w] = Append(@, f)]
    BY <1>2, <1>3
  <2>2. QED
    BY ONLY <1>1, <1>2, <2>1, CallPushed
<1>6. /\ terminated' \in [Scopes -> BOOLEAN] /\ terminated'[l]
      /\ \A k \in Scopes : terminated'[k] = terminated[k] \/ (k = l /\ terminated'[k])
  BY <1>1, <1>2 DEF LifeTypes
<1>7. LifeTypes'
  BY <1>1, <1>2, <1>5, <1>6 DEF LifeTypes, CallsChange
<1>8. LifeGoesOn
  BY <1>1, <1>2, <1>6, GoesOnQuietly
<1>9. ActionsInv'
  BY <1>1, <1>2, <1>7, <1>8, ActionsStay
<1>10. ClosedInv'
  BY <1>2, <1>8, ClosedStays
<1>11. CallsInv' /\ RunsOnce' /\ TakenSoon'
  <2>. DEFINE n == 0
              N == {1}
  <2>1. closed' = closed /\ attachedAs' = attachedAs
    BY <1>2
  <2>2. CallsChange(w, n, N)
    BY <1>5
  <2>3. \A v \in Workers : \A i \in DOMAIN calls[v] : ~(v = w /\ i = n) =>
              \A g \in LifeFrames : g = calls[v][i] =>
              /\ g.call = "run" => closed'[g.of] = closed[g.of]
              /\ g.call \in {"attach", "attached"} =>
                    \/ attachedAs'[g.of] = attachedAs[g.of]
                    \/ /\ attachedAs'[g.of].to = attachedAs[g.of].to
                       /\ NestedAt(attachedAs[g.of].to, attachedAs[g.of].id)'
    BY <2>1
  <2>4. \A i \in N : \A g \in LifeFrames : g = calls'[w][i] =>
              /\ CallInv(g)'
              /\ i # Len(calls'[w]) => g.call = "run"
              /\ g.call = "run" =>
                   \/ i = n /\ n \in DOMAIN calls[w] /\ calls[w][n].call = "run"
                      /\ calls[w][n].of = g.of
                   \/ /\ \A v \in Workers : \A j \in DOMAIN calls[v] :
                            calls[v][j].call = "run" => calls[v][j].of # g.of
                      /\ \A j \in N : calls'[w][j].call = "run" => j = i
    BY <1>4, <1>5, <1>6 DEF CallInv
  <2>5. n \in DOMAIN calls[w] /\ calls[w][n].call = "terminate" =>
              actions'[calls[w][n].of] = {}
    BY <1>5
  <2>6. \A k \in Scopes : terminated'[k] /\ ~terminated[k] =>
           \E i \in N : calls'[w][i].call = "terminate" /\ calls'[w][i].of = k
    BY <1>4, <1>5, <1>6
  <2>. HIDE DEF n, N
  <2>7. QED
    BY ONLY LifeInv, <1>7, <1>8, <1>10, <2>2, <2>3, <2>4, <2>5, <2>6, LifeStep
<1>12. Counted'
  <2>1. \A k \in Scopes : Brackets(k)' = Brackets(k)
    BY <1>4, <1>5, BracketsStay
  <2>2. \A k \in Scopes : Due(k)' = Due(k)
    BY <1>2, <1>4, <1>5, DueStays
  <2>3. QED
    BY <1>1, <1>2, <2>1, <2>2, CountStays
<1>13. QED
  BY <1>7, <1>9, <1>10, <1>11, <1>12 DEF LifeInv

LEMMA TakeKeepsInv ==
    ASSUME LifeInv, NEW w \in Workers, Take(w)
    PROVE  LifeInv'
<1>1. /\ LifeTypes /\ ActionsInv /\ CallsInv /\ Counted /\ ClosedInv
  BY DEF LifeInv
<1>2. PICK n : n = Len(calls[w])
  OBVIOUS
<1>3. /\ calls[w] # <<>> /\ n \in DOMAIN calls[w] /\ Top(w) = calls[w][n]
      /\ Top(w).call = "terminate" /\ Top(w).of \in Scopes /\ CallInv(Top(w))
  BY <1>1, <1>2, InnermostIs DEF Take
<1>4. PICK l \in Scopes : l = Top(w).of
  BY <1>3
<1>5. /\ calls[w][n].rest = {} /\ calls[w][n].call = "terminate" /\ calls[w][n].of = l
      /\ terminated[l]
  BY <1>3, <1>4 DEF CallInv
<1>6. [call |-> "run", of |-> l, rest |-> actions[l]] \in LifeFrames
  BY <1>1 DEF LifeTypes, LifeFrames
<1>7. PICK r \in LifeFrames : r = [call |-> "run", of |-> l, rest |-> actions[l]]
  BY <1>6
<1>8. r.call = "run" /\ r.of = l /\ r.rest = actions[l]
  BY <1>7
<1>9. /\ actions' = [actions EXCEPT ![l] = {}]
      /\ UNCHANGED <<status, terminated, nextId, raced, attachedAs, opened, closed, leaked>>
      /\ IF actions[l] = {} THEN Returns(w) ELSE Becomes(w, r)
  BY <1>4, <1>7 DEF Take
<1>10. PICK N : /\ CallsChange(w, n, N)
                /\ \A i \in N : i = n /\ calls'[w][i] = r /\ Len(calls'[w]) = n
                /\ actions[l] # {} <=> n \in N
  <2>1. CASE actions[l] = {}
    <3>1. calls' = [calls EXCEPT ![w] = Front(@)]
      BY <1>9, <2>1 DEF Returns
    <3>2. CallsChange(w, n, {})
      BY ONLY <1>1, <1>2, <1>3, <3>1, CallPopped
    <3>3. QED
      BY <2>1, <3>2
  <2>2. CASE actions[l] # {}
    <3>1. calls' = [calls EXCEPT ![w] = Append(Front(@), r)]
      BY <1>9, <2>2 DEF Becomes
    <3>2. CallsChange(w, n, {n}) /\ calls'[w][n] = r /\ Len(calls'[w]) = n
      BY ONLY <1>1, <1>2, <1>3, <3>1, CallExchanged
    <3>3. QED
      BY <2>2, <3>2
  <2>3. QED
    BY <2>1, <2>2
<1>11. /\ actions' \in [Scopes -> SUBSET LifeActions] /\ actions'[l] = {}
       /\ \A k \in Scopes : k # l => actions'[k] = actions[k]
       /\ \A k \in Scopes : actions'[k] \subseteq actions[k] /\ IsFiniteSet(actions'[k])
  <2>1. /\ actions \in [Scopes -> SUBSET LifeActions]
        /\ \A k \in Scopes : IsFiniteSet(actions[k])
    BY <1>1 DEF LifeTypes
  <2>2. /\ actions' \in [Scopes -> SUBSET LifeActions] /\ actions'[l] = {}
        /\ \A k \in Scopes : k # l => actions'[k] = actions[k]
    BY <1>9, <2>1
  <2>3. QED
    BY <2>1, <2>2, FS_EmptySet
<1>12. LifeTypes'
  BY <1>1, <1>9, <1>10, <1>11 DEF LifeTypes, CallsChange
<1>13. LifeGoesOn
  BY <1>1, <1>9, <1>11 DEF LifeTypes, LifeGoesOn
<1>14. ActionsInv'
  BY <1>1, <1>11, <1>12, <1>13, ActionsStay
<1>15. ClosedInv'
  BY <1>9, <1>13, ClosedStays
<1>16. ASSUME actions[l] # {} PROVE CallInv(r)'
  <2>1. closed[l] = <<>>
    BY <1>1, <1>16 DEF ClosedInv
  <2>2. IsFiniteSet(r.rest) /\ Distinct(r.rest) /\ ErasesNested(r.rest)
    BY <1>1, <1>8 DEF ActionsInv, LifeTypes
  <2>3. r.rest \subseteq LifeActions
    BY DEF LifeFrames
  <2>4. ErasesNested(r.rest)'
    BY <1>1, <1>12, <1>13, <2>2, <2>3, ErasesStay
  <2>5. \A a \in r.rest : \A k \in DOMAIN closed'[r.of] : a.id < closed'[r.of][k]
    BY <1>8, <1>9, <2>1
  <2>6. actions'[r.of] = {} /\ terminated'[r.of]
    BY <1>5, <1>8, <1>9, <1>11
  <2>7. QED
    BY <1>8, <2>2, <2>4, <2>5, <2>6 DEF CallInv, Distinct
<1>17. ASSUME actions[l] # {}, NEW v \in Workers, NEW j \in DOMAIN calls[v],
              calls[v][j].call = "run"
       PROVE  calls[v][j].of # l
  <2>1. CallInv(calls[v][j])
    BY <1>1, CallsAre
  <2>2. QED
    BY <1>17, <2>1 DEF CallInv
<1>18. CallsInv' /\ RunsOnce' /\ TakenSoon'
  <2>1. closed' = closed /\ attachedAs' = attachedAs /\ terminated' = terminated
    BY <1>9
  <2>2. \A v \in Workers : \A i \in DOMAIN calls[v] : ~(v = w /\ i = n) =>
              \A g \in LifeFrames : g = calls[v][i] =>
              /\ g.call = "run" => closed'[g.of] = closed[g.of]
              /\ g.call \in {"attach", "attached"} =>
                    \/ attachedAs'[g.of] = attachedAs[g.of]
                    \/ /\ attachedAs'[g.of].to = attachedAs[g.of].to
                       /\ NestedAt(attachedAs[g.of].to, attachedAs[g.of].id)'
    BY <2>1
  <2>3. \A i \in N : \A g \in LifeFrames : g = calls'[w][i] =>
              /\ CallInv(g)'
              /\ i # Len(calls'[w]) => g.call = "run"
              /\ g.call = "run" =>
                   \/ i = n /\ n \in DOMAIN calls[w] /\ calls[w][n].call = "run"
                      /\ calls[w][n].of = g.of
                   \/ /\ \A v \in Workers : \A j \in DOMAIN calls[v] :
                            calls[v][j].call = "run" => calls[v][j].of # g.of
                      /\ \A j \in N : calls'[w][j].call = "run" => j = i
    BY <1>8, <1>10, <1>16, <1>17
  <2>4. n \in DOMAIN calls[w] /\ calls[w][n].call = "terminate" =>
              actions'[calls[w][n].of] = {}
    BY <1>5, <1>11
  <2>5. \A k \in Scopes : terminated'[k] /\ ~terminated[k] =>
           \E i \in N : calls'[w][i].call = "terminate" /\ calls'[w][i].of = k
    BY <2>1
  <2>6. QED
    BY ONLY LifeInv, <1>10, <1>12, <1>13, <1>15, <2>2, <2>3, <2>4, <2>5, LifeStep
<1>19. Counted'
  <2>1. \A k \in Scopes : Brackets(k)' = Brackets(k)
    BY <1>5, <1>8, <1>10, BracketsStay
  <2>2. ASSUME NEW k \in Scopes PROVE Due(k)' = Due(k)
    <3>1. ASSUME NEW a \in LifeActions, a.do = "close"
          PROVE  a \in Due(k)' <=> a \in Due(k)
      <4>1. (\E i \in N : calls'[w][i].of = k /\ a \in calls'[w][i].rest)
               <=> k = l /\ a \in actions[l]
        BY <1>8, <1>10
      <4>2. a \in actions'[k] <=> k # l /\ a \in actions[k]
        BY <1>11
      <4>3. ~(n \in DOMAIN calls[w] /\ calls[w][n].of = k /\ a \in calls[w][n].rest)
        BY <1>5
      <4>4. QED
        BY ONLY <1>10, <3>1, <4>1, <4>2, <4>3, DueIs
    <3>2. QED
      BY <3>1 DEF Due
  <2>3. QED
    BY <1>1, <1>9, <2>1, <2>2, CountStays
<1>20. QED
  BY <1>12, <1>14, <1>15, <1>18, <1>19 DEF LifeInv

\* The call that runs actions, while next is run.
LEMMA RunnerIs ==
    ASSUME LifeTypes, CallsInv, NEW w \in Workers, NEW next, next \in ToRun(w)
    PROVE  LET f == Top(w)
               r == Rest(w, next)
           IN
           /\ calls[w] # <<>> /\ Len(calls[w]) \in DOMAIN calls[w]
           /\ f = calls[w][Len(calls[w])] /\ f \in LifeFrames /\ f.call = "run"
           /\ f.of \in Scopes /\ CallInv(f) /\ next \in f.rest /\ next \in LifeActions
           /\ r \in LifeFrames /\ r.call = "run" /\ r.of = f.of
           /\ r.rest = f.rest \ {next}
<1>1. Calls(w, "run") /\ next \in Top(w).rest
  BY DEF ToRun
<1>2. /\ calls[w] # <<>> /\ Len(calls[w]) \in DOMAIN calls[w]
      /\ Top(w) = calls[w][Len(calls[w])] /\ Top(w) \in LifeFrames
      /\ Top(w).call = "run" /\ Top(w).of \in Scopes /\ CallInv(Top(w))
  BY <1>1, InnermostIs
<1>3. ASSUME NEW f \in LifeFrames, NEW a \in f.rest
      PROVE  LET r == [f EXCEPT !.rest = @ \ {a}] IN
             /\ r \in LifeFrames /\ r.call = f.call /\ r.of = f.of /\ r.rest = f.rest \ {a}
             /\ a \in LifeActions
  BY <1>3 DEF LifeFrames
<1>4. LET r == Rest(w, next) IN
      /\ r \in LifeFrames /\ r.call = Top(w).call /\ r.of = Top(w).of
      /\ r.rest = Top(w).rest \ {next} /\ next \in LifeActions
  BY <1>1, <1>2, <1>3 DEF Rest
<1>5. QED
  BY <1>1, <1>2, <1>4

LEMMA RunCloseKeepsInv ==
    ASSUME LifeInv, NEW w \in Workers, RunClose(w)
    PROVE  LifeInv'
<1>1. /\ LifeTypes /\ ActionsInv /\ CallsInv /\ RunsOnce /\ Counted /\ ClosedInv
  BY DEF LifeInv
<1>2. PICK next \in ToRun(w) :
          /\ Running(w, next, "close")
          /\ closed' = [closed EXCEPT ![Top(w).of] = Append(@, next.id)]
          /\ Becomes(w, Rest(w, next))
          /\ UNCHANGED <<status, terminated, actions, nextId, raced, attachedAs, opened, leaked>>
  BY DEF RunClose
<1>3. PICK n : n = Len(calls[w])
  OBVIOUS
<1>4. /\ calls[w] # <<>> /\ n \in DOMAIN calls[w]
      /\ Top(w) = calls[w][n] /\ Top(w) \in LifeFrames /\ Top(w).call = "run"
      /\ Top(w).of \in Scopes /\ CallInv(Top(w)) /\ next \in Top(w).rest
      /\ next \in LifeActions
      /\ Rest(w, next) \in LifeFrames /\ Rest(w, next).call = "run"
      /\ Rest(w, next).of = Top(w).of /\ Rest(w, next).rest = Top(w).rest \ {next}
  BY <1>1, <1>3, RunnerIs
<1>5. PICK f \in LifeFrames : f = Top(w)
  BY <1>4
<1>6. PICK l \in Scopes : l = f.of
  BY <1>4, <1>5
<1>7. PICK r \in LifeFrames : r = Rest(w, next)
  BY <1>4
<1>8. /\ calls[w][n] = f /\ f.call = "run" /\ f.of = l /\ CallInv(f) /\ next \in f.rest
      /\ r.call = "run" /\ r.of = l /\ r.rest = f.rest \ {next}
      /\ next \in LifeActions /\ next.do = "close" /\ next.id \in Nat
      /\ \A a \in f.rest : a.id <= next.id
  <2>1. \A a \in LifeActions : a.id \in Nat
    BY DEF LifeActions
  <2>2. ToRun(w) = f.rest
    BY <1>2, <1>5 DEF ToRun
  <2>3. QED
    BY <1>2, <1>4, <1>5, <1>6, <1>7, <2>1, <2>2 DEF Running, Picks
<1>9. /\ closed' = [closed EXCEPT ![l] = Append(@, next.id)]
      /\ calls' = [calls EXCEPT ![w] = Append(Front(@), r)]
      /\ UNCHANGED <<status, terminated, actions, nextId, raced, attachedAs, opened, leaked>>
  BY <1>2, <1>5, <1>6, <1>7 DEF Becomes
<1>10. CallsChange(w, n, {n}) /\ calls'[w][n] = r /\ Len(calls'[w]) = n
  BY ONLY <1>1, <1>3, <1>4, <1>9, CallExchanged
<1>11. /\ closed' \in [Scopes -> Seq(Nat)] /\ closed'[l] = Append(closed[l], next.id)
       /\ closed[l] \in Seq(Nat) /\ Len(closed'[l]) = Len(closed[l]) + 1
       /\ DOMAIN closed'[l] = 1 .. Len(closed[l]) + 1 /\ DOMAIN closed[l] = 1 .. Len(closed[l])
       /\ Len(closed[l]) \in Nat
       /\ \A k \in DOMAIN closed[l] : closed'[l][k] = closed[l][k]
       /\ closed'[l][Len(closed[l]) + 1] = next.id
       /\ \A k \in Scopes : k # l => closed'[k] = closed[k]
  <2>1. closed \in [Scopes -> Seq(Nat)] /\ closed[l] \in Seq(Nat)
    BY <1>1 DEF LifeTypes
  <2>2. closed'[l] = Append(closed[l], next.id) /\ \A k \in Scopes : k # l => closed'[k] = closed[k]
    BY <1>9, <2>1
  <2>3. /\ Append(closed[l], next.id) \in Seq(Nat)
        /\ Len(Append(closed[l], next.id)) = Len(closed[l]) + 1 /\ Len(closed[l]) \in Nat
        /\ DOMAIN Append(closed[l], next.id) = 1 .. Len(closed[l]) + 1
        /\ DOMAIN closed[l] = 1 .. Len(closed[l])
        /\ \A k \in 1 .. Len(closed[l]) : Append(closed[l], next.id)[k] = closed[l][k]
        /\ Append(closed[l], next.id)[Len(closed[l]) + 1] = next.id
    BY <1>8, <2>1, Pushed
  <2>4. closed' \in [Scopes -> Seq(Nat)]
    BY <1>9, <2>1, <2>3
  <2>5. QED
    BY <2>1, <2>2, <2>3, <2>4
<1>12. LifeTypes'
  BY <1>1, <1>9, <1>10, <1>11 DEF LifeTypes, CallsChange
<1>13. LifeGoesOn
  BY <1>1, <1>9, GoesOnQuietly
<1>14. ActionsInv'
  BY <1>1, <1>9, <1>12, <1>13, ActionsStay
<1>15. /\ terminated[l] /\ actions[l] = {} /\ IsFiniteSet(f.rest) /\ Distinct(f.rest)
       /\ ErasesNested(f.rest)
       /\ \A a \in f.rest : \A k \in DOMAIN closed[l] : a.id < closed[l][k]
  BY <1>8 DEF CallInv
<1>16. f.rest \subseteq LifeActions /\ \A a \in LifeActions : a.id \in Nat
  BY DEF LifeFrames, LifeActions
<1>17. ClosedInv'
  <2>1. /\ closed'[l] # <<>> => terminated'[l] /\ actions'[l] = {}
        /\ \A k \in Scopes : k # l /\ closed'[k] # <<>> => terminated'[k] /\ actions'[k] = {}
    BY <1>1, <1>9, <1>11, <1>15 DEF ClosedInv
  <2>2. ASSUME NEW i \in DOMAIN closed'[l], NEW j \in DOMAIN closed'[l], i < j
        PROVE  closed'[l][i] > closed'[l][j]
    <3>1. i \in DOMAIN closed[l]
      BY <1>11, <2>2
    <3>2. CASE j \in DOMAIN closed[l]
      BY <1>1, <1>11, <2>2, <3>1, <3>2 DEF ClosedInv
    <3>3. CASE j = Len(closed[l]) + 1
      <4>1. next.id < closed[l][i]
        BY <1>8, <1>15, <3>1
      <4>2. closed[l][i] \in Nat
        BY <1>11, <3>1
      <4>3. closed'[l][i] = closed[l][i] /\ closed'[l][j] = next.id
        BY <1>11, <3>1, <3>3
      <4>4. QED
        BY <1>8, <4>1, <4>2, <4>3
    <3>4. j \in DOMAIN closed[l] \/ j = Len(closed[l]) + 1
      BY <1>11
    <3>5. QED
      BY <3>2, <3>3, <3>4
  <2>3. \A k \in Scopes : k # l =>
           \A i, j \in DOMAIN closed'[k] : i < j => closed'[k][i] > closed'[k][j]
    BY <1>1, <1>11 DEF ClosedInv
  <2>4. QED
    BY <2>1, <2>2, <2>3 DEF ClosedInv
<1>18. CallInv(r)'
  <2>1. IsFiniteSet(r.rest)
    BY <1>8, <1>15, FS_Subset
  <2>2. Distinct(r.rest) /\ ErasesNested(r.rest)
    BY <1>8, <1>15 DEF Distinct, ErasesNested
  <2>3. ErasesNested(r.rest)'
    BY <1>1, <1>8, <1>12, <1>13, <1>16, <2>2, ErasesStay
  <2>4. ASSUME NEW a \in r.rest, NEW k \in DOMAIN closed'[l] PROVE a.id < closed'[l][k]
    <3>1. a \in f.rest /\ a # next /\ a.id \in Nat
      BY <1>8, <1>16
    <3>2. a.id < next.id
      BY <1>8, <1>15, <3>1 DEF Distinct
    <3>3. k \in DOMAIN closed[l] \/ k = Len(closed[l]) + 1
      BY <1>11
    <3>4. QED
      BY <1>11, <1>15, <3>1, <3>2, <3>3
  <2>5. terminated'[l] /\ actions'[l] = {}
    BY <1>9, <1>15
  <2>6. QED
    BY <1>8, <2>1, <2>2, <2>3, <2>4, <2>5 DEF CallInv, Distinct
<1>19. ASSUME NEW v \in Workers, NEW i \in DOMAIN calls[v], ~(v = w /\ i = n), calls[v][i].of = l
       PROVE  calls[v][i].call # "run" /\ calls[v][i].rest = {}
  <2>1. calls[v][i].call # "run"
    BY <1>1, <1>4, <1>8, <1>19 DEF RunsOnce
  <2>2. CallInv(calls[v][i])
    BY <1>1, CallsAre
  <2>3. QED
    BY <2>1, <2>2 DEF CallInv
<1>20. CallsInv' /\ RunsOnce' /\ TakenSoon'
  <2>1. attachedAs' = attachedAs /\ terminated' = terminated
    BY <1>9
  <2>2. \A v \in Workers : \A i \in DOMAIN calls[v] : ~(v = w /\ i = n) =>
              \A g \in LifeFrames : g = calls[v][i] =>
              /\ g.call = "run" => closed'[g.of] = closed[g.of]
              /\ g.call \in {"attach", "attached"} =>
                    \/ attachedAs'[g.of] = attachedAs[g.of]
                    \/ /\ attachedAs'[g.of].to = attachedAs[g.of].to
                       /\ NestedAt(attachedAs[g.of].to, attachedAs[g.of].id)'
    <3>1. \A g \in LifeFrames : g.of \in Scopes
      BY DEF LifeFrames
    <3>2. QED
      BY <1>11, <1>19, <2>1, <3>1
  <2>3. \A i \in {n} : \A g \in LifeFrames : g = calls'[w][i] =>
              /\ CallInv(g)'
              /\ i # Len(calls'[w]) => g.call = "run"
              /\ g.call = "run" =>
                   \/ i = n /\ n \in DOMAIN calls[w] /\ calls[w][n].call = "run"
                      /\ calls[w][n].of = g.of
                   \/ /\ \A v \in Workers : \A j \in DOMAIN calls[v] :
                            calls[v][j].call = "run" => calls[v][j].of # g.of
                      /\ \A j \in {n} : calls'[w][j].call = "run" => j = i
    BY <1>4, <1>8, <1>10, <1>18
  <2>4. n \in DOMAIN calls[w] /\ calls[w][n].call = "terminate" =>
              actions'[calls[w][n].of] = {}
    BY <1>8
  <2>5. \A k \in Scopes : terminated'[k] /\ ~terminated[k] =>
           \E i \in {n} : calls'[w][i].call = "terminate" /\ calls'[w][i].of = k
    BY <2>1
  <2>6. QED
    BY ONLY LifeInv, <1>10, <1>12, <1>13, <1>17, <2>2, <2>3, <2>4, <2>5, LifeStep
<1>21. Counted'
  <2>. SUFFICES ASSUME NEW k \in Scopes
                PROVE  /\ IsFiniteSet(Due(k)')
                       /\ opened'[k] = Len(closed'[k]) + leaked'[k]
                             + Cardinality(Brackets(k)') + Cardinality(Due(k)')
    BY DEF Counted
  <2>1. Brackets(k)' = Brackets(k)
    BY <1>8, <1>10, BracketsStay
  <2>2. /\ opened[k] = Len(closed[k]) + leaked[k] + Cardinality(Brackets(k))
                          + Cardinality(Due(k))
        /\ IsFiniteSet(Due(k)) /\ leaked[k] \in Nat
        /\ opened'[k] = opened[k] /\ leaked'[k] = leaked[k]
    BY <1>1, <1>9 DEF Counted, LifeTypes
  <2>3. CASE k # l
    <3>1. ASSUME NEW a \in LifeActions, a.do = "close"
          PROVE  a \in Due(k)' <=> a \in Due(k)
      <4>1. actions'[k] = actions[k]
        BY <1>9
      <4>2. /\ ~(\E i \in {n} : calls'[w][i].of = k /\ a \in calls'[w][i].rest)
            /\ ~(n \in DOMAIN calls[w] /\ calls[w][n].of = k /\ a \in calls[w][n].rest)
        BY <1>8, <1>10, <2>3
      <4>3. QED
        BY ONLY <1>10, <3>1, <4>1, <4>2, DueIs
    <3>2. Due(k)' = Due(k)
      BY <3>1 DEF Due
    <3>3. closed'[k] = closed[k]
      BY <1>11, <2>3
    <3>4. QED
      BY <2>1, <2>2, <3>2, <3>3
  <2>4. CASE k = l
    <3>1. ASSUME NEW a \in LifeActions, a.do = "close"
          PROVE  /\ a \in Due(k) <=> a \in f.rest
                 /\ a \in Due(k)' <=> a \in f.rest /\ a # next
      <4>1. actions'[k] = {} /\ actions[k] = {}
        BY <1>9, <1>15, <2>4
      <4>2. /\ (\E i \in {n} : calls'[w][i].of = k /\ a \in calls'[w][i].rest)
                  <=> a \in f.rest /\ a # next
            /\ (n \in DOMAIN calls[w] /\ calls[w][n].of = k /\ a \in calls[w][n].rest)
                  <=> a \in f.rest
        BY <1>4, <1>8, <1>10, <2>4
      <4>3. ~ \E v \in Workers : \E i \in DOMAIN calls[v] :
                  ~(v = w /\ i = n) /\ calls[v][i].of = k /\ a \in calls[v][i].rest
        BY <1>19, <2>4
      <4>4. QED
        BY ONLY <1>10, <3>1, <4>1, <4>2, <4>3, DueIs
    <3>2. Due(k)' = Due(k) \ {next} /\ next \in Due(k)
      BY <1>8, <3>1 DEF Due
    <3>3. /\ IsFiniteSet(Due(k)') /\ Cardinality(Due(k)') = Cardinality(Due(k)) - 1
          /\ Cardinality(Due(k)) \in Nat
      BY <2>2, <3>2, FS_RemoveElement, FS_CardinalityType
    <3>4. /\ Len(closed'[k]) = Len(closed[k]) + 1 /\ Len(closed[k]) \in Nat
          /\ Cardinality(Brackets(k)) \in Nat
      BY <1>11, <2>4, BracketsAreFinite
    <3>. DEFINE d == Cardinality(Due(k))
                less == Cardinality(Due(k)')
                b == Cardinality(Brackets(k))
                c == Len(closed[k])
                longer == Len(closed'[k])
    <3>5. /\ opened[k] = c + leaked[k] + b + d /\ less = d - 1 /\ longer = c + 1
          /\ c \in Nat /\ leaked[k] \in Nat /\ b \in Nat /\ d \in Nat
      BY ONLY <2>2, <3>3, <3>4
    <3>. HIDE DEF d, less, b, c, longer
    <3>6. opened[k] = longer + leaked[k] + b + less
      BY ONLY <3>5
    <3>7. QED
      BY <2>1, <2>2, <3>3, <3>6 DEF less, b, longer
  <2>5. QED
    BY <2>3, <2>4
<1>22. QED
  BY <1>12, <1>14, <1>17, <1>20, <1>21 DEF LifeInv

LEMMA RunTerminateKeepsInv ==
    ASSUME LifeInv, NEW w \in Workers, RunTerminate(w)
    PROVE  LifeInv'
<1>1. /\ LifeTypes /\ ActionsInv /\ CallsInv /\ RunsOnce /\ Counted
  BY DEF LifeInv
<1>2. PICK next \in ToRun(w) :
          /\ Running(w, next, "terminate")
          /\ terminated' = [terminated EXCEPT ![next.of] = TRUE]
          /\ calls' = [calls EXCEPT ![w] =
                         Front(@) \o <<Rest(w, next), Frame("terminate", next.of)>>]
          /\ UNCHANGED <<status, actions, nextId, raced, attachedAs, opened, closed, leaked>>
  BY DEF RunTerminate
<1>3. PICK n : n = Len(calls[w])
  OBVIOUS
<1>4. /\ calls[w] # <<>> /\ n \in DOMAIN calls[w] /\ n + 1 \notin DOMAIN calls[w] /\ n \in Nat
      /\ Top(w) = calls[w][n] /\ Top(w) \in LifeFrames /\ Top(w).call = "run"
      /\ Top(w).of \in Scopes /\ CallInv(Top(w)) /\ next \in Top(w).rest
      /\ next \in LifeActions
      /\ Rest(w, next) \in LifeFrames /\ Rest(w, next).call = "run"
      /\ Rest(w, next).of = Top(w).of /\ Rest(w, next).rest = Top(w).rest \ {next}
  <2>1. calls[w] \in Seq(LifeFrames)
    BY <1>1 DEF LifeTypes
  <2>2. n \in Nat /\ DOMAIN calls[w] = 1 .. n
    BY <1>3, <2>1
  <2>3. n + 1 \notin DOMAIN calls[w]
    BY <2>2
  <2>4. QED
    BY <1>1, <1>3, <2>2, <2>3, RunnerIs
<1>5. PICK f \in LifeFrames : f = Top(w)
  BY <1>4
<1>6. PICK l \in Scopes : l = f.of
  BY <1>4, <1>5
<1>7. PICK r \in LifeFrames : r = Rest(w, next)
  BY <1>4
<1>8. /\ calls[w][n] = f /\ f.call = "run" /\ f.of = l /\ CallInv(f) /\ next \in f.rest
      /\ r.call = "run" /\ r.of = l /\ r.rest = f.rest \ {next}
      /\ next.do = "terminate" /\ next.of \in Scopes
  <2>1. next.do = "terminate"
    BY <1>2 DEF Running
  <2>2. next.of \in Scopes
    BY <1>4, <2>1 DEF LifeActions
  <2>3. QED
    BY <1>4, <1>5, <1>6, <1>7, <2>1, <2>2
<1>9. PICK m \in Scopes : m = next.of
  BY <1>8
<1>10. PICK g \in LifeFrames : g = Frame("terminate", m)
  BY FrameIs
<1>11. g.call = "terminate" /\ g.of = m /\ g.rest = {}
  BY <1>10, FrameIs
<1>12. /\ terminated' = [terminated EXCEPT ![m] = TRUE]
       /\ calls' = [calls EXCEPT ![w] = Front(@) \o <<r, g>>]
       /\ UNCHANGED <<status, actions, nextId, raced, attachedAs, opened, closed, leaked>>
  BY <1>2, <1>7, <1>9, <1>10
<1>13. PICK N : N = {n, n + 1}
  OBVIOUS
<1>14. /\ CallsChange(w, n, N) /\ calls'[w][n] = r /\ calls'[w][n + 1] = g
       /\ Len(calls'[w]) = n + 1 /\ n # n + 1
  <2>1. LET k == Len(calls[w]) IN
        /\ CallsChange(w, k, {k, k + 1}) /\ calls'[w][k] = r /\ calls'[w][k + 1] = g
        /\ Len(calls'[w]) = k + 1
    <3>1. /\ LifeTypes /\ calls[w] # <<>>
          /\ calls' = [calls EXCEPT ![w] = Append(Append(Front(@), r), g)]
      <4>1. Front(calls[w]) \in Seq(LifeFrames)
        BY <1>1, <1>4, Popped DEF LifeTypes
      <4>2. Front(calls[w]) \o <<r, g>> = Append(Append(Front(calls[w]), r), g)
        BY <4>1, PushedTwice
      <4>3. QED
        BY <1>1, <1>4, <1>12, <4>2
    <3>2. QED
      BY ONLY <3>1, CallNested
  <2>2. QED
    BY <1>3, <1>4, <1>13, <2>1
<1>15. /\ terminated' \in [Scopes -> BOOLEAN] /\ terminated'[m]
       /\ \A k \in Scopes : terminated'[k] = terminated[k] \/ (k = m /\ terminated'[k])
  BY <1>1, <1>12 DEF LifeTypes
<1>16. LifeTypes'
  BY <1>1, <1>12, <1>14, <1>15 DEF LifeTypes, CallsChange
<1>17. LifeGoesOn
  BY <1>1, <1>12, <1>15, GoesOnQuietly
<1>18. ActionsInv'
  BY <1>1, <1>12, <1>16, <1>17, ActionsStay
<1>19. ClosedInv'
  BY <1>12, <1>17, ClosedStays
<1>20. CallInv(r)' /\ CallInv(g)'
  <2>1. /\ terminated[l] /\ actions[l] = {} /\ IsFiniteSet(f.rest) /\ Distinct(f.rest)
        /\ ErasesNested(f.rest)
        /\ \A a \in f.rest : \A k \in DOMAIN closed[l] : a.id < closed[l][k]
    BY <1>8 DEF CallInv
  <2>2. IsFiniteSet(r.rest)
    BY <1>8, <2>1, FS_Subset
  <2>3. Distinct(r.rest) /\ ErasesNested(r.rest) /\ r.rest \subseteq LifeActions
    BY <1>8, <2>1 DEF Distinct, ErasesNested, LifeFrames
  <2>4. ErasesNested(r.rest)'
    BY <1>1, <1>16, <1>17, <2>3, ErasesStay
  <2>5. /\ terminated'[l] /\ actions'[l] = {}
        /\ \A a \in r.rest : \A k \in DOMAIN closed'[l] : a.id < closed'[l][k]
    BY <1>8, <1>12, <1>15, <2>1
  <2>6. CallInv(r)'
    BY <1>8, <2>2, <2>3, <2>4, <2>5 DEF CallInv, Distinct
  <2>7. CallInv(g)'
    BY <1>11, <1>15 DEF CallInv
  <2>8. QED
    BY <2>6, <2>7
<1>21. CallsInv' /\ RunsOnce' /\ TakenSoon'
  <2>1. attachedAs' = attachedAs /\ closed' = closed
    BY <1>12
  <2>2. \A v \in Workers : \A i \in DOMAIN calls[v] : ~(v = w /\ i = n) =>
              \A h \in LifeFrames : h = calls[v][i] =>
              /\ h.call = "run" => closed'[h.of] = closed[h.of]
              /\ h.call \in {"attach", "attached"} =>
                    \/ attachedAs'[h.of] = attachedAs[h.of]
                    \/ /\ attachedAs'[h.of].to = attachedAs[h.of].to
                       /\ NestedAt(attachedAs[h.of].to, attachedAs[h.of].id)'
    BY <2>1
  <2>3. \A i \in N : \A h \in LifeFrames : h = calls'[w][i] =>
              /\ CallInv(h)'
              /\ i # Len(calls'[w]) => h.call = "run"
              /\ h.call = "run" =>
                   \/ i = n /\ n \in DOMAIN calls[w] /\ calls[w][n].call = "run"
                      /\ calls[w][n].of = h.of
                   \/ /\ \A v \in Workers : \A j \in DOMAIN calls[v] :
                            calls[v][j].call = "run" => calls[v][j].of # h.of
                      /\ \A j \in N : calls'[w][j].call = "run" => j = i
    <3>. SUFFICES ASSUME NEW i \in N, NEW h \in LifeFrames, h = calls'[w][i]
                  PROVE  /\ CallInv(h)'
                         /\ i # Len(calls'[w]) => h.call = "run"
                         /\ h.call = "run" =>
                               /\ i = n /\ n \in DOMAIN calls[w] /\ calls[w][n].call = "run"
                               /\ calls[w][n].of = h.of
      OBVIOUS
    <3>1. CASE i = n
      BY <1>4, <1>8, <1>14, <1>20, <3>1
    <3>2. CASE i = n + 1
      BY <1>11, <1>14, <1>20, <3>2
    <3>3. QED
      BY <1>13, <3>1, <3>2
  <2>4. n \in DOMAIN calls[w] /\ calls[w][n].call = "terminate" =>
              actions'[calls[w][n].of] = {}
    BY <1>8
  <2>5. \A k \in Scopes : terminated'[k] /\ ~terminated[k] =>
           \E i \in N : calls'[w][i].call = "terminate" /\ calls'[w][i].of = k
    BY <1>11, <1>13, <1>14, <1>15
  <2>6. QED
    BY ONLY LifeInv, <1>14, <1>16, <1>17, <1>19, <2>2, <2>3, <2>4, <2>5, LifeStep
<1>22. Counted'
  <2>1. \A k \in Scopes : Brackets(k)' = Brackets(k)
    <3>1. \A i \in N : calls'[w][i].call # "bracket"
      BY <1>8, <1>11, <1>13, <1>14
    <3>2. QED
      BY <1>8, <1>14, <3>1, BracketsStay
  <2>2. ASSUME NEW k \in Scopes PROVE Due(k)' = Due(k)
    <3>1. ASSUME NEW a \in LifeActions, a.do = "close"
          PROVE  a \in Due(k)' <=> a \in Due(k)
      <4>1. (\E i \in N : calls'[w][i].of = k /\ a \in calls'[w][i].rest)
              <=> l = k /\ a \in f.rest
        BY <1>8, <1>11, <1>13, <1>14, <3>1
      <4>2. (n \in DOMAIN calls[w] /\ calls[w][n].of = k /\ a \in calls[w][n].rest)
              <=> l = k /\ a \in f.rest
        BY <1>4, <1>8
      <4>3. actions'[k] = actions[k]
        BY <1>12
      <4>4. QED
        BY ONLY <1>14, <3>1, <4>1, <4>2, <4>3, DueIs
    <3>2. QED
      BY <3>1 DEF Due
  <2>3. QED
    BY <1>1, <1>12, <2>1, <2>2, CountStays
<1>23. QED
  BY <1>16, <1>18, <1>19, <1>21, <1>22 DEF LifeInv

LEMMA RunEraseKeepsInv ==
    ASSUME LifeInv, NEW w \in Workers, RunErase(w)
    PROVE  LifeInv'
<1>1. /\ LifeTypes /\ ActionsInv /\ CallsInv /\ RunsOnce /\ Counted
  BY DEF LifeInv
<1>2. PICK next \in ToRun(w) :
          /\ Running(w, next, "erase")
          /\ actions' = [actions EXCEPT ![next.of] =
                           {action \in @ : action.id # next.which}]
          /\ Becomes(w, Rest(w, next))
          /\ UNCHANGED <<status, terminated, nextId, raced, attachedAs, opened, closed, leaked>>
  BY DEF RunErase
<1>3. PICK n : n = Len(calls[w])
  OBVIOUS
<1>4. /\ calls[w] # <<>> /\ n \in DOMAIN calls[w]
      /\ Top(w) = calls[w][n] /\ Top(w) \in LifeFrames /\ Top(w).call = "run"
      /\ Top(w).of \in Scopes /\ CallInv(Top(w)) /\ next \in Top(w).rest
      /\ next \in LifeActions
      /\ Rest(w, next) \in LifeFrames /\ Rest(w, next).call = "run"
      /\ Rest(w, next).of = Top(w).of /\ Rest(w, next).rest = Top(w).rest \ {next}
  BY <1>1, <1>3, RunnerIs
<1>5. PICK f \in LifeFrames : f = Top(w)
  BY <1>4
<1>6. PICK l \in Scopes : l = f.of
  BY <1>4, <1>5
<1>7. PICK r \in LifeFrames : r = Rest(w, next)
  BY <1>4
<1>8. /\ calls[w][n] = f /\ f.call = "run" /\ f.of = l /\ CallInv(f) /\ next \in f.rest
      /\ r.call = "run" /\ r.of = l /\ r.rest = f.rest \ {next}
      /\ next.do = "erase" /\ next.of \in Scopes
  <2>1. next.do = "erase"
    BY <1>2 DEF Running
  <2>2. next.of \in Scopes
    BY <1>4, <2>1 DEF LifeActions
  <2>3. QED
    BY <1>4, <1>5, <1>6, <1>7, <2>1, <2>2
<1>9. PICK p \in Scopes : p = next.of
  BY <1>8
<1>10. /\ actions' = [actions EXCEPT ![p] = {action \in @ : action.id # next.which}]
       /\ calls' = [calls EXCEPT ![w] = Append(Front(@), r)]
       /\ UNCHANGED <<status, terminated, nextId, raced, attachedAs, opened, closed, leaked>>
  BY <1>2, <1>7, <1>9 DEF Becomes
<1>11. CallsChange(w, n, {n}) /\ calls'[w][n] = r /\ Len(calls'[w]) = n
  BY ONLY <1>1, <1>3, <1>4, <1>10, CallExchanged
<1>12. /\ actions' \in [Scopes -> SUBSET LifeActions]
       /\ actions'[p] = {action \in actions[p] : action.id # next.which}
       /\ \A k \in Scopes : k # p => actions'[k] = actions[k]
       /\ \A k \in Scopes : actions'[k] \subseteq actions[k] /\ IsFiniteSet(actions'[k])
  <2>1. /\ actions \in [Scopes -> SUBSET LifeActions]
        /\ \A k \in Scopes : IsFiniteSet(actions[k])
    BY <1>1 DEF LifeTypes
  <2>2. /\ actions' \in [Scopes -> SUBSET LifeActions]
        /\ actions'[p] = {action \in actions[p] : action.id # next.which}
        /\ \A k \in Scopes : k # p => actions'[k] = actions[k]
    BY <1>10, <2>1
  <2>3. \A k \in Scopes : actions'[k] \subseteq actions[k]
    BY <2>2
  <2>4. \A k \in Scopes : IsFiniteSet(actions'[k])
    BY <2>1, <2>3, FS_Subset
  <2>5. QED
    BY <2>2, <2>3, <2>4
<1>13. \A a \in LifeActions : a.do = "close" =>
          \A k \in Scopes : a \in actions'[k] <=> a \in actions[k]
  <2>1. NestedAt(next.of, next.which)
    BY <1>8 DEF CallInv, ErasesNested
  <2>2. \A a \in actions[p] : a.id = next.which => a.do = "terminate"
    BY <1>9, <2>1 DEF NestedAt
  <2>3. QED
    BY <1>12, <2>2
<1>14. LifeTypes'
  BY <1>1, <1>10, <1>11, <1>12 DEF LifeTypes, CallsChange
<1>15. LifeGoesOn
  BY <1>1, <1>10, <1>12 DEF LifeTypes, LifeGoesOn
<1>16. ActionsInv'
  BY <1>1, <1>12, <1>14, <1>15, ActionsStay
<1>17. ClosedInv'
  BY <1>10, <1>15, ClosedStays
<1>18. CallInv(r)'
  <2>1. /\ terminated[l] /\ actions[l] = {} /\ IsFiniteSet(f.rest) /\ Distinct(f.rest)
        /\ ErasesNested(f.rest)
        /\ \A a \in f.rest : \A k \in DOMAIN closed[l] : a.id < closed[l][k]
    BY <1>8 DEF CallInv
  <2>2. IsFiniteSet(r.rest)
    BY <1>8, <2>1, FS_Subset
  <2>3. Distinct(r.rest) /\ ErasesNested(r.rest) /\ r.rest \subseteq LifeActions
    BY <1>8, <2>1 DEF Distinct, ErasesNested, LifeFrames
  <2>4. ErasesNested(r.rest)'
    BY <1>1, <1>14, <1>15, <2>3, ErasesStay
  <2>5. /\ terminated'[l] /\ actions'[l] = {}
        /\ \A a \in r.rest : \A k \in DOMAIN closed'[l] : a.id < closed'[l][k]
    BY <1>8, <1>10, <1>12, <2>1
  <2>6. QED
    BY <1>8, <2>2, <2>3, <2>4, <2>5 DEF CallInv, Distinct
<1>19. CallsInv' /\ RunsOnce' /\ TakenSoon'
  <2>1. attachedAs' = attachedAs /\ closed' = closed /\ terminated' = terminated
    BY <1>10
  <2>2. \A v \in Workers : \A i \in DOMAIN calls[v] : ~(v = w /\ i = n) =>
              \A h \in LifeFrames : h = calls[v][i] =>
              /\ h.call = "run" => closed'[h.of] = closed[h.of]
              /\ h.call \in {"attach", "attached"} =>
                    \/ attachedAs'[h.of] = attachedAs[h.of]
                    \/ /\ attachedAs'[h.of].to = attachedAs[h.of].to
                       /\ NestedAt(attachedAs[h.of].to, attachedAs[h.of].id)'
    BY <2>1
  <2>3. \A i \in {n} : \A h \in LifeFrames : h = calls'[w][i] =>
              /\ CallInv(h)'
              /\ i # Len(calls'[w]) => h.call = "run"
              /\ h.call = "run" =>
                   \/ i = n /\ n \in DOMAIN calls[w] /\ calls[w][n].call = "run"
                      /\ calls[w][n].of = h.of
                   \/ /\ \A v \in Workers : \A j \in DOMAIN calls[v] :
                            calls[v][j].call = "run" => calls[v][j].of # h.of
                      /\ \A j \in {n} : calls'[w][j].call = "run" => j = i
    BY <1>4, <1>8, <1>11, <1>18
  <2>4. n \in DOMAIN calls[w] /\ calls[w][n].call = "terminate" =>
              actions'[calls[w][n].of] = {}
    BY <1>8
  <2>5. \A k \in Scopes : terminated'[k] /\ ~terminated[k] =>
           \E i \in {n} : calls'[w][i].call = "terminate" /\ calls'[w][i].of = k
    BY <2>1
  <2>6. QED
    BY ONLY LifeInv, <1>11, <1>14, <1>15, <1>17, <2>2, <2>3, <2>4, <2>5, LifeStep
<1>20. Counted'
  <2>1. \A k \in Scopes : Brackets(k)' = Brackets(k)
    BY <1>8, <1>11, BracketsStay
  <2>2. ASSUME NEW k \in Scopes PROVE Due(k)' = Due(k)
    <3>1. ASSUME NEW a \in LifeActions, a.do = "close"
          PROVE  a \in Due(k)' <=> a \in Due(k)
      <4>1. (\E i \in {n} : calls'[w][i].of = k /\ a \in calls'[w][i].rest)
              <=> l = k /\ a \in f.rest
        BY <1>8, <1>11, <3>1
      <4>2. (n \in DOMAIN calls[w] /\ calls[w][n].of = k /\ a \in calls[w][n].rest)
              <=> l = k /\ a \in f.rest
        BY <1>4, <1>8
      <4>3. a \in actions'[k] <=> a \in actions[k]
        BY <1>13, <3>1
      <4>4. QED
        BY ONLY <1>11, <3>1, <4>1, <4>2, <4>3, DueIs
    <3>2. QED
      BY <3>1 DEF Due
  <2>3. QED
    BY <1>1, <1>10, <2>1, <2>2, CountStays
<1>21. QED
  BY <1>14, <1>16, <1>17, <1>19, <1>20 DEF LifeInv

LEMMA LifetimesStep ==
    ASSUME LifeInv, [LifetimesNext]_lifetimeVars
    PROVE  LifeInv'
<1>1. ASSUME UNCHANGED <<status, terminated, actions, nextId, calls, attachedAs, opened,
                         closed, leaked>>
      PROVE  LifeInv'
  <2>1. \A f \in LifeFrames : CallInv(f)' <=> CallInv(f)
    BY <1>1 DEF CallInv, ErasesNested, NestedAt, Distinct
  <2>2. \A v \in Workers : \A i \in DOMAIN calls[v] : calls[v][i] \in LifeFrames
    BY CallsAre DEF LifeInv
  <2>3. CallsInv'
    BY <1>1, <2>1, <2>2 DEF LifeInv, CallsInv
  <2>4. LifeTypes'
    BY <1>1 DEF LifeInv, LifeTypes
  <2>5. ActionsInv'
    BY <1>1 DEF LifeInv, ActionsInv, Distinct, ErasesNested, NestedAt
  <2>6. RunsOnce' /\ TakenSoon' /\ ClosedInv'
    BY <1>1 DEF LifeInv, RunsOnce, TakenSoon, ClosedInv
  <2>7. Counted'
    BY <1>1 DEF LifeInv, Counted, Brackets, Due
  <2>8. QED
    BY <2>3, <2>4, <2>5, <2>6, <2>7 DEF LifeInv
<1>2. CASE UNCHANGED lifetimeVars
  BY <1>1, <1>2 DEF lifetimeVars
<1>3. ASSUME NEW w \in Workers, NEW other \in Workers, Race(w, other) PROVE LifeInv'
  BY <1>1, <1>3 DEF Race
<1>4. ASSUME NEW w \in Workers, Progress(w) PROVE LifeInv'
  BY <1>4, AttachKeepsInv, AttachedKeepsInv, RefusedKeepsInv, BracketKeepsInv,
     BracketRefusedKeepsInv, TakeKeepsInv, RunCloseKeepsInv, RunTerminateKeepsInv,
     RunEraseKeepsInv, ReturnKeepsInv DEF Progress
<1>5. ASSUME NEW w \in Workers, NEW l \in Scopes, Open(w, l) \/ Terminate(w, l) PROVE LifeInv'
  BY <1>5, OpenKeepsInv, TerminateKeepsInv
<1>6. ASSUME NEW w \in Workers, NEW l \in Scopes, NEW p \in Scopes, Make(w, l, p) PROVE LifeInv'
  BY <1>6, MakeKeepsInv
<1>7. QED
  BY <1>2, <1>3, <1>4, <1>5, <1>6 DEF LifetimesNext

LEMMA LifeInvHolds == CoreSpec => []LifeInv
<1>1. CoreInit => LifeInv
  BY LifeInitInv DEF CoreInit
<1>2. LifeInv /\ [CoreNext]_coreVars => LifeInv'
  <2>1. [CoreNext]_coreVars => [LifetimesNext]_lifetimeVars
    BY DEF CoreNext, coreVars, OnlyLifetimes, OnlySignals, OnlyCollections, lifetimeVars
  <2>2. QED
    BY <2>1, LifetimesStep
<1>3. QED
  BY <1>1, <1>2, PTL DEF CoreSpec

(***************************************************************************)
(* LifetimeImpl: however many threads open, nest, end and race for the     *)
(* same lifetimes, whatever was opened in one that has ended is closed, or *)
(* was refused, and closed in the reverse order.                           *)
(***************************************************************************)
THEOREM WhatIsOpenedIsClosed == CoreSpec => []OpenedIsClosed
<1>1. ASSUME LifeInv, NEW l \in Scopes, terminated[l], ~Terminating(l)
      PROVE  /\ actions[l] = {}
             /\ opened[l] = Len(closed[l]) + leaked[l] + Bracketing(l)
  <2>1. \A w \in Workers : \A i \in DOMAIN calls[w] :
           calls[w][i].of = l => calls[w][i].call \notin {"terminate", "run"}
    BY <1>1 DEF Terminating, Terminates
  <2>2. actions[l] = {}
    BY <1>1, <2>1 DEF LifeInv, TakenSoon
  <2>3. ASSUME NEW w \in Workers, NEW i \in DOMAIN calls[w], calls[w][i].of = l
        PROVE  calls[w][i].rest = {}
    <3>1. CallInv(calls[w][i])
      BY <1>1, CallsAre DEF LifeInv
    <3>2. QED
      BY <2>1, <2>3, <3>1 DEF CallInv
  <2>4. Due(l) = {}
    BY <2>2, <2>3 DEF Due
  <2>5. Cardinality(Due(l)) = 0
    BY <2>4, FS_EmptySet
  <2>6. Bracketing(l) = Cardinality(Brackets(l)) /\ Cardinality(Brackets(l)) \in Nat
    BY BracketsAreFinite DEF Bracketing, Brackets
  <2>7. /\ opened[l] = Len(closed[l]) + leaked[l] + Cardinality(Brackets(l))
                          + Cardinality(Due(l))
        /\ closed[l] \in Seq(Nat) /\ leaked[l] \in Nat
    BY <1>1 DEF LifeInv, Counted, LifeTypes
  <2>. DEFINE b == Cardinality(Brackets(l))
              d == Cardinality(Due(l))
              c == Len(closed[l])
  <2>8. /\ opened[l] = c + leaked[l] + b + d /\ d = 0 /\ Bracketing(l) = b
        /\ c \in Nat /\ leaked[l] \in Nat /\ b \in Nat
    BY <2>5, <2>6, <2>7
  <2>. HIDE DEF b, c, d
  <2>9. opened[l] = c + leaked[l] + Bracketing(l)
    BY ONLY <2>8
  <2>10. QED
    BY <2>2, <2>9 DEF c
<1>2. LifeInv => \A l \in Scopes :
                    \A i, j \in DOMAIN closed[l] : i < j => closed[l][i] > closed[l][j]
  BY DEF LifeInv, ClosedInv
<1>3. LifeInv => OpenedIsClosed
  BY <1>1, <1>2 DEF OpenedIsClosed
<1>4. QED
  BY <1>3, LifeInvHolds, PTL

-----------------------------------------------------------------------------
(***************************************************************************)
(* The collections                                                         *)
(***************************************************************************)
LEMMA CoreIsViewable == CoreSpec => ViewableSpec
<1>1. CoreInit => ViewableInit
  BY DEF CoreInit
<1>2. [CoreNext]_coreVars => [ViewableNext]_viewableVars
  BY DEF CoreNext, coreVars, OnlyLifetimes, OnlySignals, OnlyCollections, viewableVars
<1>3. QED
  BY <1>1, <1>2, PTL DEF CoreSpec, ViewableSpec

\* Every view of a collection keeps a lifetime for what the collection holds and
\* for nothing else once all calls are over, however the handlers use it again
\* (see CollectionsMirror): also where lifetimes and signals run beside it.
THEOREM EveryViewMirrors == CoreSpec => []ViewsMirror
BY CoreIsViewable, CollectionsMirror, PTL
=============================================================================
