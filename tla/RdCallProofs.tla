---------------------------- MODULE RdCallProofs ----------------------------
(***************************************************************************)
(* Theorems about the handshake of an extension and the calls that go      *)
(* through it, for every number of bindings, messages and calls.           *)
(***************************************************************************)
EXTENDS RdCall, SequenceTheorems, TLAPS

(***************************************************************************)
(* Messages in order.  The messages of an end are numbered by "n", and     *)
(* the requests of the caller also by the call they are about.             *)
(***************************************************************************)
Number(k, message) == IF k = "n" THEN message.n ELSE message.body.call

\* The numbers of the messages of s, the states of the handshake left out.
Numbers(k, s) == {Number(k, s[i]) : i \in {j \in DOMAIN s : IsPayload(s[j])}}

Ascending(k, s) ==
    \A i, j \in DOMAIN s : (i < j /\ IsPayload(s[i]) /\ IsPayload(s[j]))
                              => Number(k, s[i]) < Number(k, s[j])

Below(A, B) == \A a \in A, b \in B : a < b

\* What is done comes first, then what is on the wire w, then the message d
\* that send is about to send or the messages q that wait, then the numbers
\* that are not yet given.  While one is about to be sent none waits.
Chain(k, done, w, d, q, fresh) ==
    /\ d # <<>> => q = <<>>
    /\ Ascending(k, w) /\ Ascending(k, q)
    /\ Below(done, Numbers(k, w) \union Numbers(k, d) \union Numbers(k, q) \union fresh)
    /\ Below(Numbers(k, w), Numbers(k, d) \union Numbers(k, q) \union fresh)
    /\ Below(Numbers(k, d) \union Numbers(k, q), fresh)

LEMMA SequenceTypes ==
    ASSUME NEW S, NEW s \in Seq(S)
    PROVE  /\ s # <<>> => Head(s) \in S /\ Tail(s) \in Seq(S)
           /\ \A x \in S : Append(s, x) \in Seq(S) /\ <<x>> \in Seq(S) /\ Len(<<x>>) = 1
           /\ <<>> \in Seq(S) /\ Len(<<>>) = 0
OBVIOUS

LEMMA NumbersOfAppend ==
    ASSUME NEW M, NEW s \in Seq(M), NEW m \in M, NEW k,
           NEW x \in Numbers(k, Append(s, m))
    PROVE  x \in Numbers(k, s) \/ (IsPayload(m) /\ x = Number(k, m))
<1>1. PICK i \in DOMAIN Append(s, m) :
         IsPayload(Append(s, m)[i]) /\ x = Number(k, Append(s, m)[i])
  BY DEF Numbers
<1>2. CASE i = Len(s) + 1
  <2>1. Append(s, m)[i] = m
    BY <1>2
  <2> QED BY <1>1, <2>1
<1>3. CASE i # Len(s) + 1
  <2>1. i \in DOMAIN s /\ Append(s, m)[i] = s[i]
    BY <1>3
  <2> QED BY <1>1, <2>1 DEF Numbers
<1> QED BY <1>2, <1>3

LEMMA NumbersOfTail ==
    ASSUME NEW M, NEW s \in Seq(M), s # <<>>, NEW k
    PROVE  Numbers(k, Tail(s)) \subseteq Numbers(k, s)
<1> SUFFICES ASSUME NEW x \in Numbers(k, Tail(s)) PROVE x \in Numbers(k, s)
  OBVIOUS
<1>1. PICK i \in DOMAIN Tail(s) :
         IsPayload(Tail(s)[i]) /\ x = Number(k, Tail(s)[i])
  BY DEF Numbers
<1>2. i + 1 \in DOMAIN s /\ Tail(s)[i] = s[i + 1]
  OBVIOUS
<1> QED BY <1>1, <1>2 DEF Numbers

LEMMA NumberOfHead ==
    ASSUME NEW M, NEW s \in Seq(M), s # <<>>, IsPayload(Head(s)), NEW k
    PROVE  Number(k, Head(s)) \in Numbers(k, s)
<1>1. 1 \in DOMAIN s /\ Head(s) = s[1]
  OBVIOUS
<1> QED BY <1>1 DEF Numbers

LEMMA NumbersOfNothing ==
    ASSUME NEW k PROVE Numbers(k, <<>>) = {} /\ Ascending(k, <<>>)
<1>1. DOMAIN <<>> = {}
  OBVIOUS
<1> QED BY <1>1 DEF Numbers, Ascending

LEMMA AscendingAppend ==
    ASSUME NEW M, NEW s \in Seq(M), NEW m \in M, NEW k, Ascending(k, s),
           IsPayload(m) => Below(Numbers(k, s), {Number(k, m)})
    PROVE  Ascending(k, Append(s, m))
<1> SUFFICES ASSUME NEW i \in DOMAIN Append(s, m), NEW j \in DOMAIN Append(s, m), i < j,
                    IsPayload(Append(s, m)[i]), IsPayload(Append(s, m)[j])
             PROVE  Number(k, Append(s, m)[i]) < Number(k, Append(s, m)[j])
  BY DEF Ascending
<1>1. i \in DOMAIN s /\ Append(s, m)[i] = s[i]
  OBVIOUS
<1>2. CASE j = Len(s) + 1
  <2>1. Append(s, m)[j] = m
    BY <1>2
  <2>2. Number(k, s[i]) \in Numbers(k, s)
    BY <1>1 DEF Numbers
  <2> QED BY <1>1, <2>1, <2>2 DEF Below
<1>3. CASE j # Len(s) + 1
  <2>1. j \in DOMAIN s /\ Append(s, m)[j] = s[j]
    BY <1>3
  <2> QED BY <1>1, <2>1 DEF Ascending
<1> QED BY <1>2, <1>3

LEMMA AscendingTail ==
    ASSUME NEW M, NEW s \in Seq(M), s # <<>>, NEW k, Ascending(k, s)
    PROVE  /\ Ascending(k, Tail(s))
           /\ IsPayload(Head(s)) => Below({Number(k, Head(s))}, Numbers(k, Tail(s)))
<1>1. \A i \in DOMAIN Tail(s) : i + 1 \in DOMAIN s /\ Tail(s)[i] = s[i + 1] /\ 1 < i + 1
  OBVIOUS
<1>2. Ascending(k, Tail(s))
  <2> SUFFICES ASSUME NEW i \in DOMAIN Tail(s), NEW j \in DOMAIN Tail(s), i < j,
                      IsPayload(Tail(s)[i]), IsPayload(Tail(s)[j])
               PROVE  Number(k, Tail(s)[i]) < Number(k, Tail(s)[j])
    BY DEF Ascending
  <2>1. i + 1 < j + 1
    OBVIOUS
  <2> QED BY <1>1, <2>1 DEF Ascending
<1>3. ASSUME IsPayload(Head(s)), NEW x \in Numbers(k, Tail(s))
      PROVE  Number(k, Head(s)) < x
  <2>1. PICK i \in DOMAIN Tail(s) :
           IsPayload(Tail(s)[i]) /\ x = Number(k, Tail(s)[i])
    BY DEF Numbers
  <2>2. 1 \in DOMAIN s /\ Head(s) = s[1]
    OBVIOUS
  <2> QED BY <1>1, <1>3, <2>1, <2>2 DEF Ascending
<1> QED BY <1>2, <1>3 DEF Below

(***************************************************************************)
(* What happens to the messages of an end                                  *)
(***************************************************************************)
\* A message is put on the wire that is not one of the numbered ones.
LEMMA ChainPutsState ==
    ASSUME NEW M, NEW w \in Seq(M), NEW d \in Seq(M), NEW q \in Seq(M), NEW k,
           NEW done, NEW fresh, Chain(k, done, w, d, q, fresh),
           NEW m \in M, ~IsPayload(m)
    PROVE  Chain(k, done, Append(w, m), d, q, fresh)
<1>1. Numbers(k, Append(w, m)) \subseteq Numbers(k, w)
  BY NumbersOfAppend
<1>2. Ascending(k, Append(w, m))
  BY AscendingAppend DEF Chain
<1> QED BY <1>1, <1>2 DEF Chain, Below

\* The counterpart takes the first message; a numbered one may be done now.
LEMMA ChainTakes ==
    ASSUME NEW M, NEW w \in Seq(M), NEW d \in Seq(M), NEW q \in Seq(M), NEW k,
           NEW done, NEW fresh, Chain(k, done, w, d, q, fresh), w # <<>>,
           NEW now, \A x \in now : x \in done \/ (IsPayload(Head(w)) /\ x = Number(k, Head(w)))
    PROVE  Chain(k, now, Tail(w), d, q, fresh)
<1>1. Numbers(k, Tail(w)) \subseteq Numbers(k, w)
  BY NumbersOfTail
<1>2. /\ Ascending(k, Tail(w))
      /\ IsPayload(Head(w)) => Below({Number(k, Head(w))}, Numbers(k, Tail(w)))
  BY AscendingTail DEF Chain
<1>3. IsPayload(Head(w)) => Number(k, Head(w)) \in Numbers(k, w)
  BY NumberOfHead
<1>4. Below(now, Numbers(k, Tail(w)))
  BY <1>1, <1>2 DEF Chain, Below
<1>5. Below(now, Numbers(k, d) \union Numbers(k, q) \union fresh)
  BY <1>3 DEF Chain, Below
<1>6. Below(Numbers(k, Tail(w)), Numbers(k, d) \union Numbers(k, q) \union fresh)
  BY <1>1 DEF Chain, Below
<1> QED BY <1>2, <1>4, <1>5, <1>6 DEF Chain, Below

\* The first of the messages that wait is sent.
LEMMA ChainDrains ==
    ASSUME NEW M, NEW w \in Seq(M), NEW d \in Seq(M), NEW q \in Seq(M), NEW k,
           NEW done, NEW fresh, Chain(k, done, w, d, q, fresh), q # <<>>,
           IsPayload(Head(q))
    PROVE  Chain(k, done, Append(w, Head(q)), d, Tail(q), fresh)
<1>1. /\ Numbers(k, Tail(q)) \subseteq Numbers(k, q)
      /\ Number(k, Head(q)) \in Numbers(k, q)
      /\ Head(q) \in M
  BY NumbersOfTail, NumberOfHead
<1>2. Ascending(k, Tail(q)) /\ Below({Number(k, Head(q))}, Numbers(k, Tail(q)))
  BY AscendingTail DEF Chain
<1>3. \A x \in Numbers(k, Append(w, Head(q))) : x \in Numbers(k, w) \/ x = Number(k, Head(q))
  BY <1>1, NumbersOfAppend
<1>4. Ascending(k, Append(w, Head(q)))
  <2>1. Below(Numbers(k, w), {Number(k, Head(q))})
    BY <1>1 DEF Chain, Below
  <2> QED BY <1>1, <2>1, AscendingAppend DEF Chain
<1>5. d = <<>> /\ Numbers(k, d) = {}
  BY NumbersOfNothing DEF Chain
<1>6. Below(done, Numbers(k, Append(w, Head(q))) \union Numbers(k, Tail(q)) \union fresh)
  BY <1>1, <1>3 DEF Chain, Below
<1>7. Below(Numbers(k, Append(w, Head(q))), Numbers(k, Tail(q)) \union fresh)
  BY <1>1, <1>2, <1>3 DEF Chain, Below
<1>8. Below(Numbers(k, Tail(q)), fresh)
  BY <1>1 DEF Chain, Below
<1> QED BY <1>2, <1>4, <1>5, <1>6, <1>7, <1>8 DEF Chain

\* The message that send had in hand is sent.
LEMMA ChainSendsDirect ==
    ASSUME NEW M, NEW w \in Seq(M), NEW d \in Seq(M), NEW q \in Seq(M), NEW k,
           NEW done, NEW fresh, Chain(k, done, w, d, q, fresh), d # <<>>,
           IsPayload(Head(d))
    PROVE  Chain(k, done, Append(w, Head(d)), <<>>, q, fresh)
<1>1. Number(k, Head(d)) \in Numbers(k, d) /\ Head(d) \in M
  BY NumberOfHead
<1>2. \A x \in Numbers(k, Append(w, Head(d))) : x \in Numbers(k, w) \/ x = Number(k, Head(d))
  BY <1>1, NumbersOfAppend
<1>3. Ascending(k, Append(w, Head(d)))
  <2>1. Below(Numbers(k, w), {Number(k, Head(d))})
    BY <1>1 DEF Chain, Below
  <2> QED BY <1>1, <2>1, AscendingAppend DEF Chain
<1>4. q = <<>> /\ Numbers(k, q) = {} /\ Numbers(k, <<>>) = {}
  BY NumbersOfNothing DEF Chain
<1>5. Below(done, Numbers(k, Append(w, Head(d))) \union fresh)
  BY <1>1, <1>2 DEF Chain, Below
<1>6. Below(Numbers(k, Append(w, Head(d))), fresh)
  BY <1>1, <1>2 DEF Chain, Below
<1> QED BY <1>3, <1>4, <1>5, <1>6 DEF Chain, Below

\* A message with a new number waits, behind those that wait already.
LEMMA ChainQueues ==
    ASSUME NEW M, NEW w \in Seq(M), NEW d \in Seq(M), NEW q \in Seq(M), NEW k,
           NEW done, NEW fresh, Chain(k, done, w, d, q, fresh), d = <<>>,
           NEW m \in M, Number(k, m) \in fresh,
           NEW then, then \subseteq fresh, Below({Number(k, m)}, then)
    PROVE  Chain(k, done, w, d, Append(q, m), then)
<1>1. \A x \in Numbers(k, Append(q, m)) : x \in Numbers(k, q) \/ x = Number(k, m)
  BY NumbersOfAppend
<1>2. Ascending(k, Append(q, m))
  <2>1. Below(Numbers(k, q), {Number(k, m)})
    BY DEF Chain, Below
  <2> QED BY <2>1, AscendingAppend DEF Chain
<1>3. Numbers(k, d) = {}
  BY NumbersOfNothing
<1>4. Below(done, Numbers(k, w) \union Numbers(k, Append(q, m)) \union then)
  BY <1>1 DEF Chain, Below
<1>5. Below(Numbers(k, w), Numbers(k, Append(q, m)) \union then)
  BY <1>1 DEF Chain, Below
<1>6. Below(Numbers(k, Append(q, m)), then)
  BY <1>1 DEF Chain, Below
<1> QED BY <1>2, <1>3, <1>4, <1>5, <1>6 DEF Chain

\* A message with a new number is taken in hand: none waits.
LEMMA ChainHolds ==
    ASSUME NEW M, NEW w \in Seq(M), NEW d \in Seq(M), NEW q \in Seq(M), NEW k,
           NEW done, NEW fresh, Chain(k, done, w, d, q, fresh), q = <<>>,
           NEW m \in M, Number(k, m) \in fresh,
           NEW then, then \subseteq fresh, Below({Number(k, m)}, then)
    PROVE  Chain(k, done, w, <<m>>, q, then)
<1>1. \A x \in Numbers(k, <<m>>) : x = Number(k, m)
  BY DEF Numbers
<1>2. Numbers(k, q) = {}
  BY NumbersOfNothing
<1>3. Below(done, Numbers(k, w) \union Numbers(k, <<m>>) \union then)
  BY <1>1 DEF Chain, Below
<1>4. Below(Numbers(k, w), Numbers(k, <<m>>) \union then)
  BY <1>1 DEF Chain, Below
<1>5. Below(Numbers(k, <<m>>), then)
  BY <1>1 DEF Below
<1> QED BY <1>2, <1>3, <1>4, <1>5 DEF Chain

\* A new object has no messages that wait; numbers may be skipped.
LEMMA ChainForgets ==
    ASSUME NEW M, NEW w \in Seq(M), NEW d \in Seq(M), NEW q \in Seq(M), NEW k,
           NEW done, NEW fresh, Chain(k, done, w, d, q, fresh),
           NEW then, then \subseteq fresh
    PROVE  /\ Chain(k, done, w, d, <<>>, then)
           /\ Chain(k, done, w, d, q, then)
<1>1. Numbers(k, <<>>) = {} /\ Ascending(k, <<>>)
  BY NumbersOfNothing
<1> QED BY <1>1 DEF Chain, Below

-----------------------------------------------------------------------------
(***************************************************************************)
(* The steps of the extension and their types                              *)
(***************************************************************************)
\* What a step of the calls is for the extension below them.
ExtNext ==
    \/ \E e \in Ends : Handshake(e) \/ Advise(e) \/ Leave(e) \/ ReceivePayload(e)
    \/ \E e \in Ends : \E body \in Bodies[e] : Send(e, body)
    \/ UNCHANGED extVars

Messages(e) == States \union PayloadsOf(Bodies[e])

LEMMA TwoEnds ==
    ASSUME NEW e \in Ends
    PROVE  /\ Other(e) \in Ends /\ Other(e) # e /\ Other(Other(e)) = e
           /\ \A f \in Ends : f # e => f = Other(e)
           /\ Caller \in Ends /\ Endpoint \in Ends /\ Endpoint = Other(Caller)
BY DEF Ends, Other, Caller, Endpoint

LEMMA ExtTypes ==
    ASSUME ExtTypeOK(Bodies), NEW e \in Ends
    PROVE  /\ wire[e] \in Seq(Messages(e))
           /\ sendQ[e] \in Seq(PayloadsOf(Bodies[e])) /\ sendQ[e] \in Seq(Messages(e))
           /\ direct[e] \in Seq(PayloadsOf(Bodies[e])) /\ direct[e] \in Seq(Messages(e))
           /\ PayloadsOf(Bodies[e]) \subseteq Messages(e)
           /\ \A m \in States : m \in Messages(e) /\ ~IsPayload(m)
           /\ \A m \in PayloadsOf(Bodies[e]) : IsPayload(m)
<1>1. PayloadsOf(Bodies[e]) \subseteq Messages(e)
  BY DEF Messages
<1>2. \A S, T : S \subseteq T => Seq(S) \subseteq Seq(T)
  OBVIOUS
<1>3. \A m \in PayloadsOf(Bodies[e]) : IsPayload(m)
  BY DEF PayloadsOf, IsPayload
<1>4. \A m \in States : m \in Messages(e) /\ ~IsPayload(m)
  BY DEF Messages, States, State, IsPayload
<1> QED BY <1>1, <1>2, <1>3, <1>4 DEF ExtTypeOK, Messages

LEMMA Answered ==
    ASSUME ExtTypeOK(Bodies), NEW e \in Ends, wire[Other(e)] # <<>>
    PROVE  /\ Received(e, <<>>) =>
                /\ wire'[Other(e)] = Tail(wire[Other(e)]) /\ wire'[e] = wire[e]
                /\ DOMAIN wire' = Ends
           /\ \A m \in States : Received(e, <<m>>) =>
                /\ wire'[Other(e)] = Tail(wire[Other(e)])
                /\ wire'[e] = Append(wire[e], m)
                /\ DOMAIN wire' = Ends
<1>1. wire[e] \in Seq(Messages(e)) /\ DOMAIN wire = Ends
  BY ExtTypes DEF ExtTypeOK
<1>2. \A m \in States : m \in Messages(e)
  BY ExtTypes
<1>3. wire[e] \o <<>> = wire[e]
  BY <1>1
<1>4. \A m \in States : wire[e] \o <<m>> = Append(wire[e], m)
  BY <1>1, <1>2
<1> QED BY <1>1, <1>3, <1>4, TwoEnds DEF Received

(***************************************************************************)
(* What a step does to the messages of e                                   *)
(***************************************************************************)
Keeps(e) == UNCHANGED <<wire[e], sendQ[e], direct[e], payloads[e], arrived[e]>>

PutsState(e) ==
    /\ \E m \in States : wire'[e] = Append(wire[e], m)
    /\ UNCHANGED <<sendQ[e], direct[e], payloads[e], arrived[e]>>

IsTaken(e) ==
    /\ wire[e] # <<>> /\ wire'[e] = Tail(wire[e])
    /\ arrived'[e] = IF IsPayload(Head(wire[e]))
                     THEN Append(arrived[e], Head(wire[e]).n) ELSE arrived[e]
    /\ UNCHANGED <<sendQ[e], direct[e], payloads[e]>>

Drains(e) ==
    /\ sendQ[e] # <<>> /\ wire'[e] = Append(wire[e], Head(sendQ[e]))
    /\ sendQ'[e] = Tail(sendQ[e])
    /\ UNCHANGED <<direct[e], payloads[e], arrived[e]>>

SendsDirect(e) ==
    /\ direct[e] # <<>> /\ wire'[e] = Append(wire[e], Head(direct[e]))
    /\ direct'[e] = <<>>
    /\ UNCHANGED <<sendQ[e], payloads[e], arrived[e]>>

Forgets(e) ==
    /\ sendQ'[e] = <<>>
    /\ UNCHANGED <<wire[e], direct[e], payloads[e], arrived[e]>>

Sends(e, m) ==
    /\ m \in PayloadsOf(Bodies[e]) /\ m.n = payloads[e] + 1
    /\ payloads'[e] = payloads[e] + 1
    /\ direct[e] = <<>>
    /\ \/ sendQ'[e] = Append(sendQ[e], m) /\ UNCHANGED direct[e]
       \/ sendQ[e] = <<>> /\ direct'[e] = <<m>> /\ UNCHANGED sendQ[e]
    /\ UNCHANGED <<wire[e], arrived[e]>>

Moves(e) ==
    \/ Keeps(e) \/ PutsState(e) \/ IsTaken(e) \/ Drains(e) \/ SendsDirect(e) \/ Forgets(e)
    \/ \E m \in PayloadsOf(Bodies[e]) : Sends(e, m)

LEMMA SendMoves ==
    ASSUME ExtTypeOK(Bodies), NEW e \in Ends, NEW body \in Bodies[e], Send(e, body)
    PROVE  Sends(e, Payload(payloads[e] + 1, body)) /\ Keeps(Other(e))
<1>1. /\ DOMAIN wire = Ends /\ DOMAIN sendQ = Ends /\ DOMAIN direct = Ends
      /\ payloads \in [Ends -> Nat] /\ arrived \in [Ends -> Seq(Nat)]
  BY DEF ExtTypeOK
<1>2. /\ Payload(payloads[e] + 1, body) \in PayloadsOf(Bodies[e])
      /\ Payload(payloads[e] + 1, body).n = payloads[e] + 1
  BY <1>1 DEF Payload, PayloadsOf
<1>3. Keeps(Other(e))
  BY <1>1, TwoEnds DEF Keeps, Send
<1>4. /\ payloads'[e] = payloads[e] + 1 /\ direct[e] = <<>>
      /\ UNCHANGED <<wire[e], arrived[e]>>
  BY <1>1 DEF Send
<1>5. \/ sendQ'[e] = Append(sendQ[e], Payload(payloads[e] + 1, body)) /\ UNCHANGED direct[e]
      \/ sendQ[e] = <<>> /\ direct'[e] = <<Payload(payloads[e] + 1, body)>> /\ UNCHANGED sendQ[e]
  BY <1>1 DEF Send, Queues
<1> QED BY <1>2, <1>3, <1>4, <1>5 DEF Sends

LEMMA EveryStepMoves ==
    ASSUME ExtTypeOK(Bodies), ExtNext, NEW f \in Ends
    PROVE  Moves(f)
<1>1. /\ DOMAIN wire = Ends /\ DOMAIN sendQ = Ends /\ DOMAIN direct = Ends
      /\ payloads \in [Ends -> Nat] /\ arrived \in [Ends -> Seq(Nat)]
  BY DEF ExtTypeOK
<1>2. ASSUME NEW e \in Ends, SendReady(e) \/ Leave(e) PROVE Moves(f)
  <2>1. State("Ready") \in States /\ State("Disconnected") \in States
    BY DEF States
  <2>2. f = e => PutsState(f)
    BY <1>1, <1>2, <2>1 DEF PutsState, SendReady, Leave, Puts
  <2>3. f # e => Keeps(f)
    BY <1>1, <1>2 DEF Keeps, SendReady, Leave, Puts
  <2> QED BY <2>2, <2>3 DEF Moves
<1>3. ASSUME NEW e \in Ends, Unsubscribe(e) \/ DrainLock(e) \/ DrainEnd(e)
      PROVE Moves(f)
  BY <1>3 DEF Moves, Keeps, Unsubscribe, DrainLock, DrainEnd
<1>4. ASSUME NEW e \in Ends, Advise(e) PROVE Moves(f)
  <2>1. f = e => Forgets(f)
    BY <1>1, <1>4 DEF Forgets, Advise
  <2>2. f # e => Keeps(f)
    BY <1>1, <1>4 DEF Keeps, Advise
  <2> QED BY <2>1, <2>2 DEF Moves
<1>5. ASSUME NEW e \in Ends, ReceiveReady(e) PROVE Moves(f)
  <2>1. State("ReceivedCounterpart") \in States
    BY DEF States
  <2>2. /\ wire[Other(e)] # <<>> /\ wire'[Other(e)] = Tail(wire[Other(e)])
        /\ wire'[e] = Append(wire[e], State("ReceivedCounterpart"))
    BY <1>5, <2>1, Answered DEF ReceiveReady, Arrives
  <2>3. f = e => PutsState(f)
    BY <1>5, <2>1, <2>2 DEF PutsState, ReceiveReady
  <2>4. f = Other(e) => IsTaken(f)
    BY <1>5, <2>2 DEF IsTaken, ReceiveReady, Arriving, IsPayload
  <2> QED BY <2>3, <2>4, TwoEnds DEF Moves
<1>6. ASSUME NEW e \in Ends,
             ReceiveCounterpart(e) \/ ReceiveDisconnected(e) \/ Drop(e) \/ ReceivePayload(e)
      PROVE  Moves(f)
  <2>1. /\ wire[Other(e)] # <<>> /\ wire'[Other(e)] = Tail(wire[Other(e)])
        /\ wire'[e] = wire[e]
    BY <1>6, Answered DEF ReceiveCounterpart, ReceiveDisconnected, Drop, ReceivePayload, Arrives
  <2>2. /\ UNCHANGED <<sendQ, direct, payloads>>
        /\ arrived' = IF IsPayload(Head(wire[Other(e)]))
                      THEN [arrived EXCEPT ![Other(e)] = Append(@, Head(wire[Other(e)]).n)]
                      ELSE arrived
    BY <1>6 DEF ReceiveCounterpart, ReceiveDisconnected, Drop, ReceivePayload, Arriving, IsPayload
  <2>3. f = e => Keeps(f)
    BY <1>1, <2>1, <2>2, TwoEnds DEF Keeps
  <2>4. f = Other(e) => IsTaken(f)
    BY <1>1, <2>1, <2>2, TwoEnds DEF IsTaken
  <2> QED BY <2>3, <2>4, TwoEnds DEF Moves
<1>7. ASSUME NEW e \in Ends, DrainOne(e) \/ SendDirect(e) PROVE Moves(f)
  <2>1. f = e => Drains(f) \/ SendsDirect(f)
    BY <1>1, <1>7 DEF Drains, SendsDirect, DrainOne, SendDirect, Puts
  <2>2. f # e => Keeps(f)
    BY <1>1, <1>7 DEF Keeps, DrainOne, SendDirect, Puts
  <2> QED BY <2>1, <2>2 DEF Moves
<1>8. ASSUME NEW e \in Ends, NEW body \in Bodies[e], Send(e, body) PROVE Moves(f)
  <2>1. Sends(e, Payload(payloads[e] + 1, body)) /\ Keeps(Other(e))
    BY <1>8, SendMoves
  <2>2. Payload(payloads[e] + 1, body) \in PayloadsOf(Bodies[e])
    BY <2>1 DEF Sends
  <2> QED BY <2>1, <2>2, TwoEnds DEF Moves
<1>9. CASE UNCHANGED extVars
  BY <1>9 DEF Moves, Keeps, extVars
<1> QED BY <1>2, <1>3, <1>4, <1>5, <1>6, <1>7, <1>8, <1>9 DEF ExtNext, Handshake

(***************************************************************************)
(* A step that gives no new number keeps the messages of e in order; what  *)
(* is done afterwards was done before, or was first on the wire.           *)
(***************************************************************************)
LEMMA ChainMoves ==
    ASSUME ExtTypeOK(Bodies), NEW e \in Ends, Moves(e), payloads'[e] = payloads[e],
           NEW k, NEW done, NEW fresh,
           Chain(k, done, wire[e], direct[e], sendQ[e], fresh),
           NEW now,
           \A x \in now :
               x \in done \/ (/\ IsTaken(e) /\ IsPayload(Head(wire[e]))
                             /\ x = Number(k, Head(wire[e])))
    PROVE  Chain(k, now, wire'[e], direct'[e], sendQ'[e], fresh)
<1>1. /\ wire[e] \in Seq(Messages(e)) /\ direct[e] \in Seq(Messages(e))
      /\ sendQ[e] \in Seq(Messages(e)) /\ payloads[e] \in Nat
      /\ sendQ[e] \in Seq(PayloadsOf(Bodies[e])) /\ direct[e] \in Seq(PayloadsOf(Bodies[e]))
  BY ExtTypes DEF ExtTypeOK
<1>2. CASE IsTaken(e)
  <2>1. Chain(k, now, Tail(wire[e]), direct[e], sendQ[e], fresh)
    BY <1>1, <1>2, ChainTakes DEF IsTaken
  <2> QED BY <1>2, <2>1 DEF IsTaken
<1>3. CASE ~IsTaken(e)
  <2>1. Chain(k, now, wire[e], direct[e], sendQ[e], fresh)
    BY <1>3 DEF Chain, Below
  <2>2. CASE Keeps(e)
    BY <2>1, <2>2 DEF Keeps
  <2>3. CASE PutsState(e)
    <3>1. PICK m \in States : wire'[e] = Append(wire[e], m)
      BY <2>3 DEF PutsState
    <3>2. m \in Messages(e) /\ ~IsPayload(m)
      BY <3>1, ExtTypes
    <3>3. Chain(k, now, wire'[e], direct[e], sendQ[e], fresh)
      BY <1>1, <2>1, <3>1, <3>2, ChainPutsState
    <3> QED BY <2>3, <3>3 DEF PutsState
  <2>4. CASE Drains(e)
    <3>1. IsPayload(Head(sendQ[e]))
      BY <1>1, <2>4, ExtTypes, SequenceTypes DEF Drains
    <3>2. Chain(k, now, wire'[e], direct[e], sendQ'[e], fresh)
      BY <1>1, <2>1, <2>4, <3>1, ChainDrains DEF Drains
    <3> QED BY <2>4, <3>2 DEF Drains
  <2>5. CASE SendsDirect(e)
    <3>1. IsPayload(Head(direct[e]))
      BY <1>1, <2>5, ExtTypes, SequenceTypes DEF SendsDirect
    <3>2. Chain(k, now, wire'[e], direct'[e], sendQ[e], fresh)
      BY <1>1, <2>1, <2>5, <3>1, ChainSendsDirect DEF SendsDirect
    <3> QED BY <2>5, <3>2 DEF SendsDirect
  <2>6. CASE Forgets(e)
    <3>1. Chain(k, now, wire[e], direct[e], <<>>, fresh)
      BY <1>1, <2>1, ChainForgets
    <3> QED BY <2>6, <3>1 DEF Forgets
  <2>7. ~\E m \in PayloadsOf(Bodies[e]) : Sends(e, m)
    BY <1>1 DEF Sends
  <2> QED BY <1>3, <2>2, <2>3, <2>4, <2>5, <2>6, <2>7 DEF Moves
<1> QED BY <1>2, <1>3

\* Whatever is said of every message of an end goes on to hold if it holds of
\* what the end sends.
LEMMA MovesWithin ==
    ASSUME NEW e \in Ends, Moves(e), NEW S, NEW T, S \subseteq T,
           wire[e] \in Seq(States \union S),
           sendQ[e] \in Seq(S), direct[e] \in Seq(S), Len(direct[e]) <= 1,
           \A m : Sends(e, m) => m \in T
    PROVE  /\ wire'[e] \in Seq(States \union T)
           /\ sendQ'[e] \in Seq(T)
           /\ direct'[e] \in Seq(T) /\ Len(direct'[e]) <= 1
<1> DEFINE Within == /\ wire'[e] \in Seq(States \union T)
                     /\ sendQ'[e] \in Seq(T)
                     /\ direct'[e] \in Seq(T) /\ Len(direct'[e]) <= 1
<1>1. /\ wire[e] \in Seq(States \union T)
      /\ sendQ[e] \in Seq(T) /\ direct[e] \in Seq(T) /\ Len(direct[e]) <= 1
  <2>1. States \union S \subseteq States \union T
    OBVIOUS
  <2>2. \A A, B : A \subseteq B => Seq(A) \subseteq Seq(B)
    OBVIOUS
  <2> QED BY <2>1, <2>2
<1>2. T \subseteq States \union T /\ States \subseteq States \union T
  OBVIOUS
<1>3. CASE Keeps(e)
  BY ONLY <1>1, <1>3 DEF Keeps
<1>4. CASE PutsState(e)
  BY ONLY <1>1, <1>2, <1>4 DEF PutsState
<1>5. CASE IsTaken(e)
  BY ONLY <1>1, <1>5, SequenceTypes DEF IsTaken
<1>6. CASE Drains(e)
  <2>1. Head(sendQ[e]) \in T /\ Tail(sendQ[e]) \in Seq(T)
    BY <1>1, <1>6, SequenceTypes DEF Drains
  <2>2. Append(wire[e], Head(sendQ[e])) \in Seq(States \union T)
    BY ONLY <1>1, <1>2, <2>1, SequenceTypes
  <2> QED BY ONLY <1>1, <1>6, <2>1, <2>2 DEF Drains
<1>7. CASE SendsDirect(e)
  <2>1. Head(direct[e]) \in T
    BY <1>1, <1>7, SequenceTypes DEF SendsDirect
  <2>2. /\ Append(wire[e], Head(direct[e])) \in Seq(States \union T)
        /\ <<>> \in Seq(T) /\ Len(<<>>) = 0
    BY ONLY <1>1, <1>2, <2>1, SequenceTypes
  <2> QED BY ONLY <1>1, <1>7, <2>2 DEF SendsDirect
<1>8. CASE Forgets(e)
  BY ONLY <1>1, <1>8, SequenceTypes DEF Forgets
<1>9. ASSUME NEW m, Sends(e, m) PROVE Within
  <2>1. m \in T
    BY <1>9
  <2>2. /\ Append(sendQ[e], m) \in Seq(T)
        /\ <<m>> \in Seq(T) /\ Len(<<m>>) = 1
    BY ONLY <1>1, <2>1, SequenceTypes
  <2>3. CASE sendQ'[e] = Append(sendQ[e], m) /\ UNCHANGED direct[e]
    BY ONLY <1>1, <1>9, <2>2, <2>3 DEF Sends
  <2>4. CASE direct'[e] = <<m>> /\ UNCHANGED sendQ[e]
    BY ONLY <1>1, <1>9, <2>2, <2>4 DEF Sends
  <2> QED BY <1>9, <2>3, <2>4 DEF Sends
<1> QED BY <1>3, <1>4, <1>5, <1>6, <1>7, <1>8, <1>9 DEF Moves

\* The type of the messages of an end, from what happens to them.
LEMMA MovesTypes ==
    ASSUME ExtTypeOK(Bodies), NEW e \in Ends, Moves(e)
    PROVE  /\ wire'[e] \in Seq(Messages(e))
           /\ sendQ'[e] \in Seq(PayloadsOf(Bodies[e]))
           /\ direct'[e] \in Seq(PayloadsOf(Bodies[e])) /\ Len(direct'[e]) <= 1
<1>1. /\ wire[e] \in Seq(States \union PayloadsOf(Bodies[e]))
      /\ sendQ[e] \in Seq(PayloadsOf(Bodies[e]))
      /\ direct[e] \in Seq(PayloadsOf(Bodies[e])) /\ Len(direct[e]) <= 1
  BY DEF ExtTypeOK
<1>2. \A m : Sends(e, m) => m \in PayloadsOf(Bodies[e])
  BY DEF Sends
<1> QED BY <1>1, <1>2, MovesWithin DEF Messages

LEMMA MovesHistory ==
    ASSUME ExtTypeOK(Bodies), NEW e \in Ends, Moves(e)
    PROVE  arrived'[e] \in Seq(Nat) /\ payloads'[e] \in Nat
<1>1. arrived[e] \in Seq(Nat) /\ payloads[e] \in Nat /\ wire[e] \in Seq(Messages(e))
  BY ExtTypes DEF ExtTypeOK
<1>2. CASE IsTaken(e)
  <2>1. IsPayload(Head(wire[e])) => Head(wire[e]).n \in Nat
    <3>1. Head(wire[e]) \in Messages(e)
      BY <1>1, <1>2 DEF IsTaken
    <3> QED BY <3>1, ExtTypes DEF Messages, PayloadsOf
  <2> QED BY <1>1, <1>2, <2>1 DEF IsTaken
<1>3. CASE ~IsTaken(e)
  BY <1>1, <1>3 DEF Moves, Keeps, PutsState, Drains, SendsDirect, Forgets, Sends
<1> QED BY <1>2, <1>3

LEMMA ExtTypeStep ==
    ASSUME ExtTypeOK(Bodies), ExtNext
    PROVE  ExtTypeOK(Bodies)'
<1> DEFINE Typed ==
             /\ phase \in [Ends -> {"unbound", "advised", "bound", "leaving"}]
             /\ connected \in [Ends -> BOOLEAN] /\ crossed \in [Ends -> BOOLEAN]
             /\ drain \in [Ends -> {"none", "waits", "locked"}]
             /\ bindings \in [Ends -> Nat]
           Shaped ==
             /\ DOMAIN wire = Ends /\ DOMAIN sendQ = Ends /\ DOMAIN direct = Ends
             /\ payloads = [e \in Ends |-> payloads[e]]
             /\ arrived = [e \in Ends |-> arrived[e]]
<1>1. ASSUME NEW e \in Ends
      PROVE  /\ wire'[e] \in Seq(Messages(e))
             /\ sendQ'[e] \in Seq(PayloadsOf(Bodies[e]))
             /\ direct'[e] \in Seq(PayloadsOf(Bodies[e])) /\ Len(direct'[e]) <= 1
             /\ arrived'[e] \in Seq(Nat) /\ payloads'[e] \in Nat
  <2>1. Moves(e)
    BY EveryStepMoves
  <2> QED BY <2>1, MovesTypes, MovesHistory
<1>2. Typed'
  <2> USE DEF ExtTypeOK
  <2>1. ASSUME NEW e \in Ends, SendReady(e) \/ Leave(e) \/ Unsubscribe(e) \/ DrainLock(e)
                 \/ DrainEnd(e) \/ DrainOne(e) \/ SendDirect(e)
        PROVE  Typed'
    BY <2>1 DEF SendReady, Leave, Unsubscribe, DrainLock, DrainEnd, DrainOne, SendDirect
  <2>2. ASSUME NEW e \in Ends, Advise(e)
        PROVE  Typed'
    BY <2>2 DEF Advise
  <2>3. ASSUME NEW e \in Ends, ReceiveReady(e) \/ ReceiveCounterpart(e)
                 \/ ReceiveDisconnected(e) \/ Drop(e) \/ ReceivePayload(e)
        PROVE  Typed'
    BY <2>3, TwoEnds DEF ReceiveReady, ReceiveCounterpart, ReceiveDisconnected, Drop,
                         ReceivePayload, SetConnected
  <2>4. ASSUME NEW e \in Ends, NEW body, Send(e, body)
        PROVE  Typed'
    BY <2>4 DEF Send
  <2>5. CASE UNCHANGED extVars
    BY <2>5 DEF extVars
  <2> QED BY <2>1, <2>2, <2>3, <2>4, <2>5 DEF ExtNext, Handshake
<1>3. Shaped'
  <2> USE DEF ExtTypeOK
  <2>1. ASSUME NEW e \in Ends, SendReady(e) \/ Leave(e) \/ Unsubscribe(e) \/ DrainLock(e)
                 \/ DrainEnd(e) \/ DrainOne(e) \/ SendDirect(e)
        PROVE  Shaped'
    BY <2>1 DEF SendReady, Leave, Unsubscribe, DrainLock, DrainEnd, DrainOne, SendDirect, Puts
  <2>2. ASSUME NEW e \in Ends, Advise(e)
        PROVE  Shaped'
    BY <2>2 DEF Advise
  <2>3. ASSUME NEW e \in Ends, ReceiveReady(e) \/ ReceiveCounterpart(e)
                 \/ ReceiveDisconnected(e) \/ Drop(e) \/ ReceivePayload(e)
        PROVE  Shaped'
    BY <2>3, TwoEnds DEF ReceiveReady, ReceiveCounterpart, ReceiveDisconnected, Drop,
                         ReceivePayload, SetConnected, Received
  <2>4. ASSUME NEW e \in Ends, NEW body, Send(e, body)
        PROVE  Shaped'
    BY <2>4 DEF Send
  <2>5. CASE UNCHANGED extVars
    BY <2>5 DEF extVars
  <2> QED BY <2>1, <2>2, <2>3, <2>4, <2>5 DEF ExtNext, Handshake
<1>4. Bodies' = Bodies
  BY DEF Bodies
<1>5. payloads' \in [Ends -> Nat] /\ arrived' \in [Ends -> Seq(Nat)]
  BY <1>1, <1>3
<1> QED BY <1>1, <1>2, <1>3, <1>4, <1>5 DEF ExtTypeOK, Messages

-----------------------------------------------------------------------------
(***************************************************************************)
(* Types                                                                   *)
(***************************************************************************)
\* The steps that the extension takes no part in.
CallsAlone ==
    \/ \E c \in CallIds :
         \/ Refuse(c) \/ StartTooLate(c) \/ SyncReturns(c) \/ Release(c) \/ SyncThrows(c)
         \/ TestCancelled(c) \/ SetCancelled(c) \/ Forget(c)
    \/ SkipRequest \/ TestAnswer \/ SetAnswer \/ Terminate \/ TakeActions

LEMMA CallSteps ==
    ASSUME [CallNext]_rdVars
    PROVE  \/ \E e \in Ends : HandshakeStep(e) \/ NewBinding(e) \/ EndOfBinding(e)
           \/ \E c \in CallIds : StartSync(c)
           \/ ReceiveRequest \/ Handle \/ ReceiveAnswer
           \/ CallsAlone \/ UNCHANGED rdVars
BY DEF CallNext, CallsAlone

LEMMA AloneIsAlone == CallsAlone => UNCHANGED extVars
BY DEF CallsAlone, Refuse, StartTooLate, SyncReturns, Release, SyncThrows,
       TestCancelled, SetCancelled, Forget, SkipRequest, TestAnswer, SetAnswer,
       Terminate, TakeActions

LEMMA EveryStepIsOfTheExtension ==
    ASSUME CallTypeOK, [CallNext]_rdVars
    PROVE  ExtNext
<1> USE DEF CallTypeOK
<1>1. ASSUME NEW e \in Ends, HandshakeStep(e) \/ NewBinding(e) \/ EndOfBinding(e)
      PROVE  ExtNext
  BY <1>1 DEF HandshakeStep, NewBinding, EndOfBinding, ExtNext
<1>2. ASSUME NEW c \in CallIds, StartSync(c) PROVE ExtNext
  <2>1. Request(c) \in Bodies[Caller] /\ Caller \in Ends
    BY DEF Request, Bodies, Ends, Caller
  <2> QED BY <1>2, <2>1 DEF StartSync, ExtNext
<1>3. CASE ReceiveRequest \/ ReceiveAnswer
  BY <1>3 DEF ReceiveRequest, ReceiveAnswer, ExtNext, Ends, Caller, Endpoint
<1>4. CASE Handle
  <2>1. Head(requests) \in CallIds
    BY <1>4, SequenceTypes DEF Handle
  <2>2. \A outcome \in {"success", "fault"} :
           Answer(Head(requests), outcome) \in Bodies[Endpoint] /\ Endpoint \in Ends
    BY <2>1 DEF Answer, Bodies, Ends, Endpoint, Caller, Outcomes
  <2> QED BY <1>4, <2>2 DEF Handle, ExtNext
<1>5. CASE CallsAlone \/ UNCHANGED rdVars
  BY <1>5, AloneIsAlone DEF ExtNext, rdVars
<1> QED BY <1>1, <1>2, <1>3, <1>4, <1>5, CallSteps

\* What arrives at one end is what the other end sends.
LEMMA ArrivingType ==
    ASSUME ExtTypeOK(Bodies), NEW e \in Ends, ReceivePayload(e)
    PROVE  /\ wire[Other(e)] # <<>> /\ wire'[Other(e)] = Tail(wire[Other(e)])
           /\ IsPayload(Arriving(e))
           /\ Arriving(e).body \in Bodies[Other(e)]
<1>1. wire[Other(e)] # <<>> /\ wire'[Other(e)] = Tail(wire[Other(e)])
  BY Answered DEF ReceivePayload, Arrives
<1>2. Arriving(e) \in Messages(Other(e)) /\ IsPayload(Arriving(e))
  BY <1>1, TwoEnds, ExtTypes, SequenceTypes DEF Arriving, ReceivePayload
<1>3. Arriving(e) \in PayloadsOf(Bodies[Other(e)])
  BY <1>2, TwoEnds, ExtTypes DEF Messages
<1> QED BY <1>1, <1>2, <1>3 DEF PayloadsOf

LEMMA RequestArrives ==
    ASSUME CallTypeOK, ReceiveRequest
    PROVE  /\ wire[Caller] # <<>> /\ wire'[Caller] = Tail(wire[Caller])
           /\ IsPayload(Head(wire[Caller]))
           /\ Arriving(Endpoint).body.call = Number("call", Head(wire[Caller]))
           /\ Arriving(Endpoint).body.call \in CallIds
<1>1. Endpoint \in Ends /\ Other(Endpoint) = Caller
  BY DEF Ends, Endpoint, Other, Caller
<1>2. Arriving(Endpoint) = Head(wire[Caller])
  BY <1>1 DEF Arriving
<1>3. Arriving(Endpoint).body \in Bodies[Caller]
  BY <1>1, ArrivingType DEF ReceiveRequest, CallTypeOK
<1>4. Arriving(Endpoint).body.call \in CallIds
  BY <1>1, <1>3, TwoEnds DEF Bodies
<1> QED BY <1>1, <1>2, <1>4, ArrivingType DEF ReceiveRequest, CallTypeOK, Number

LEMMA AnswerArrives ==
    ASSUME CallTypeOK, ReceiveAnswer
    PROVE  /\ Arriving(Caller) = Head(wire[Endpoint])
           /\ wire[Endpoint] # <<>> /\ IsPayload(Arriving(Caller))
           /\ Arriving(Caller).body.call \in CallIds
           /\ Arriving(Caller).body.result \in Outcomes
<1>1. Caller \in Ends /\ Other(Caller) = Endpoint /\ Endpoint \in Ends /\ Endpoint # Caller
  BY DEF Ends, Endpoint, Other, Caller
<1>2. /\ Arriving(Caller).body \in Bodies[Endpoint]
      /\ wire[Endpoint] # <<>> /\ IsPayload(Arriving(Caller))
  BY <1>1, ArrivingType DEF ReceiveAnswer, CallTypeOK
<1> QED BY <1>1, <1>2 DEF Bodies, Arriving

\* Call 0 is nobody's.
LEMMA InHand ==
    ASSUME CallTypeOK
    PROVE  /\ 0 \notin CallIds
           /\ answering # Nobody =>
                 answering.call \in CallIds /\ answering.result \in Outcomes
           /\ answering.call \in CallIds => answering # Nobody
<1>1. 0 \notin CallIds
  BY RdCallAssumption DEF CallIds
<1> QED BY <1>1 DEF CallTypeOK, Nobody

\* The variables of the calls, but for the requests and what they were given.
CallTypes ==
    /\ task \in [CallIds -> {"new", "waiting", "returned", "gone", "thrown"}]
    /\ result \in [CallIds -> {"none", "cancelled"} \union Outcomes]
    /\ sync_task_id \in CallIds \union {0}
    /\ caller \in CallIds \union {0}
    /\ subscribed \subseteq CallIds
    /\ ending \in {"no", "flagged", "closing"} /\ taken \subseteq CallIds
    /\ answering \in [call : CallIds, result : Outcomes] \union {Nobody}
    /\ setting \in [Threads -> CallIds \union {0}]
    /\ fate \in {"running", "dangling", "torn"}

LEMMA CallTypesStep == CallTypeOK /\ [CallNext]_rdVars => CallTypes'
<1> SUFFICES ASSUME CallTypeOK, [CallNext]_rdVars PROVE CallTypes'
  OBVIOUS
<1>1. CallTypes /\ "reader" \in Threads /\ "ender" \in Threads
  BY DEF CallTypeOK, CallTypes, Threads
<1> USE DEF CallTypes
<1>2. ASSUME NEW e \in Ends, HandshakeStep(e) \/ NewBinding(e) \/ EndOfBinding(e)
      PROVE  CallTypes'
  BY <1>1, <1>2 DEF HandshakeStep, callVars, callerVars, enderVars, NewBinding,
                    EndOfBinding
<1>3. ASSUME NEW c \in CallIds,
             \/ StartSync(c) \/ Refuse(c) \/ StartTooLate(c)
             \/ SyncReturns(c) \/ Release(c) \/ SyncThrows(c)
      PROVE  CallTypes'
  BY <1>1, <1>3 DEF StartSync, Refuse, Construct, StartTooLate, SyncReturns, Release,
                    SyncThrows, callerVars, enderVars
<1>4. ASSUME NEW c \in CallIds, TestCancelled(c) \/ Forget(c)
      PROVE  CallTypes'
  BY <1>1, <1>4 DEF TestCancelled, Forget, callerVars, enderVars
<1>5. ASSUME NEW c \in CallIds, SetCancelled(c)
      PROVE  CallTypes'
  BY <1>1, <1>5 DEF SetCancelled, callerVars
<1>6. CASE ReceiveRequest \/ Handle \/ SkipRequest \/ Terminate \/ TakeActions
  BY <1>1, <1>6 DEF ReceiveRequest, Handle, SkipRequest, Terminate, TakeActions,
                    callerVars, enderVars
<1>7. CASE ReceiveAnswer
  <2>1. answering' \in [call : CallIds, result : Outcomes] \union {Nobody}
    BY <1>7, AnswerArrives DEF ReceiveAnswer, Finds, Answer
  <2>2. fate' \in {"running", "dangling", "torn"}
    BY <1>7 DEF ReceiveAnswer, Finds
  <2> QED BY <1>1, <1>7, <2>1, <2>2 DEF ReceiveAnswer, callerVars, enderVars
<1>8. CASE TestAnswer
  BY <1>1, <1>8, InHand DEF TestAnswer, callerVars, enderVars
<1>9. CASE SetAnswer
  <2>1. result' \in [CallIds -> {"none", "cancelled"} \union Outcomes]
    <3>1. CASE answering = Nobody
      <4>1. answering.call \notin CallIds
        BY <3>1, InHand
      <4> QED BY <1>1, <1>9, <4>1 DEF SetAnswer
    <3>2. CASE answering # Nobody
      BY <1>1, <1>9, <3>2, InHand DEF SetAnswer
    <3> QED BY <3>1, <3>2
  <2> QED BY <1>1, <1>9, <2>1 DEF SetAnswer, callerVars, enderVars
<1>10. CASE UNCHANGED rdVars
  BY <1>1, <1>10 DEF rdVars, callVars, callerVars, enderVars
<1> QED BY <1>2, <1>3, <1>4, <1>5, <1>6, <1>7, <1>8, <1>9, <1>10 DEF CallNext

\* Every step but Handle, ReceiveRequest and SkipRequest.
LEMMA EndpointRests ==
    ASSUME [CallNext]_rdVars
    PROVE  ReceiveRequest \/ Handle \/ SkipRequest \/ UNCHANGED endpointVars
BY DEF CallNext, HandshakeStep, NewBinding, EndOfBinding, callVars, StartSync, Refuse,
       Construct, StartTooLate, SyncReturns, Release, SyncThrows, TestCancelled,
       SetCancelled, Forget, ReceiveAnswer, TestAnswer, SetAnswer, Terminate,
       TakeActions, rdVars

LEMMA CallTypeStep == CallTypeOK /\ [CallNext]_rdVars => CallTypeOK'
<1> SUFFICES ASSUME CallTypeOK, [CallNext]_rdVars PROVE CallTypeOK'
  OBVIOUS
<1>1. ExtTypeOK(Bodies)'
  BY EveryStepIsOfTheExtension, ExtTypeStep DEF CallTypeOK
<1>2. requests' \in Seq(CallIds) /\ given' \in [CallIds -> Seq(Outcomes)]
  <2> USE DEF CallTypeOK
  <2>1. CASE ReceiveRequest
    BY <2>1, RequestArrives, SequenceTypes DEF ReceiveRequest
  <2>2. CASE Handle
    <3>1. requests' \in Seq(CallIds) /\ Head(requests) \in CallIds
      BY <2>2, SequenceTypes DEF Handle
    <3>2. \A outcome \in Outcomes :
             Append(given[Head(requests)], outcome) \in Seq(Outcomes)
      BY <3>1, SequenceTypes
    <3> QED BY <2>2, <3>1, <3>2 DEF Handle, Outcomes
  <2>3. CASE SkipRequest
    BY <2>3, SequenceTypes DEF SkipRequest
  <2>4. CASE UNCHANGED endpointVars
    BY <2>4 DEF endpointVars
  <2> QED BY <2>1, <2>2, <2>3, <2>4, EndpointRests
<1> QED BY <1>1, <1>2, CallTypesStep DEF CallTypeOK, CallTypes

LEMMA CallTypeInit == CallInit => CallTypeOK
<1> SUFFICES ASSUME CallInit PROVE CallTypeOK
  OBVIOUS
<1>1. ExtTypeOK(Bodies)
  BY SequenceTypes DEF CallInit, ExtInit, ExtTypeOK
<1>2. requests = <<>> /\ <<>> \in Seq(CallIds) /\ <<>> \in Seq(Outcomes)
  BY DEF CallInit
<1>3. given \in [CallIds -> Seq(Outcomes)]
  BY <1>2 DEF CallInit
<1>4. CallTypes
  BY DEF CallInit, CallTypes
<1> QED BY <1>1, <1>2, <1>3, <1>4 DEF CallTypeOK, CallTypes

(***************************************************************************)
(* Every variable has its type: an end puts only its own messages on the   *)
(* wire, requests of calls that exist one way and answers with a result    *)
(* the other way, and send never has more than one message in hand.        *)
(***************************************************************************)
THEOREM CallTypeCorrect == CallSpec => []CallTypeOK
BY CallTypeInit, CallTypeStep, PTL DEF CallSpec

-----------------------------------------------------------------------------
(***************************************************************************)
(* Payloads in order                                                       *)
(***************************************************************************)
Arrived(e) == {arrived[e][i] : i \in DOMAIN arrived[e]}
Later(e) == {n \in Nat : payloads[e] < n}

\* The inductive invariant of each end: the messages that arrived, those on
\* the wire, the one in hand, those that wait, and the numbers to come.
OrderInv ==
    \A e \in Ends :
        /\ \A i, j \in DOMAIN arrived[e] : i < j => arrived[e][i] < arrived[e][j]
        /\ Chain("n", Arrived(e), wire[e], direct[e], sendQ[e], Later(e))

LEMMA OrderInit == CallInit => OrderInv
<1> SUFFICES ASSUME CallInit, NEW e \in Ends
             PROVE  /\ \A i, j \in DOMAIN arrived[e] : i < j => arrived[e][i] < arrived[e][j]
                    /\ Chain("n", Arrived(e), wire[e], direct[e], sendQ[e], Later(e))
  BY DEF OrderInv
<1>1. arrived[e] = <<>> /\ wire[e] = <<>> /\ direct[e] = <<>> /\ sendQ[e] = <<>>
  BY DEF CallInit, ExtInit
<1>2. DOMAIN <<>> = {}
  OBVIOUS
<1>3. Arrived(e) = {}
  BY <1>1, <1>2 DEF Arrived
<1> QED BY <1>1, <1>2, <1>3, NumbersOfNothing DEF Chain, Below

LEMMA OrderStep ==
    ASSUME CallTypeOK, OrderInv, ExtNext
    PROVE  OrderInv'
<1> SUFFICES ASSUME NEW e \in Ends
             PROVE  /\ \A i, j \in DOMAIN arrived'[e] : i < j => arrived'[e][i] < arrived'[e][j]
                    /\ Chain("n", Arrived(e)', wire'[e], direct'[e], sendQ'[e], Later(e)')
  BY DEF OrderInv
<1>1. Moves(e)
  BY EveryStepMoves DEF CallTypeOK
<1>2. /\ wire[e] \in Seq(Messages(e)) /\ direct[e] \in Seq(Messages(e))
      /\ sendQ[e] \in Seq(Messages(e)) /\ payloads[e] \in Nat /\ arrived[e] \in Seq(Nat)
      /\ sendQ[e] \in Seq(PayloadsOf(Bodies[e])) /\ direct[e] \in Seq(PayloadsOf(Bodies[e]))
  BY ExtTypes DEF CallTypeOK, ExtTypeOK
<1>3. Chain("n", Arrived(e), wire[e], direct[e], sendQ[e], Later(e))
  BY DEF OrderInv
<1>4. \A i, j \in DOMAIN arrived[e] : i < j => arrived[e][i] < arrived[e][j]
  BY DEF OrderInv
<1>5. UNCHANGED arrived[e] => UNCHANGED Arrived(e)
  BY DEF Arrived
<1>6. UNCHANGED payloads[e] => UNCHANGED Later(e)
  BY DEF Later
<1>7. ASSUME ~\E m \in PayloadsOf(Bodies[e]) : Sends(e, m)
      PROVE  /\ \A i, j \in DOMAIN arrived'[e] : i < j => arrived'[e][i] < arrived'[e][j]
             /\ Chain("n", Arrived(e)', wire'[e], direct'[e], sendQ'[e], Later(e)')
  <2>1. payloads'[e] = payloads[e] /\ UNCHANGED Later(e)
    BY <1>1, <1>6, <1>7 DEF Moves, Keeps, PutsState, IsTaken, Drains, SendsDirect, Forgets
  <2>2. CASE UNCHANGED arrived[e]
    BY <1>1, <1>3, <1>4, <1>5, <2>1, <2>2, ChainMoves DEF CallTypeOK
  <2>3. CASE ~UNCHANGED arrived[e]
    <3>1. IsTaken(e) /\ IsPayload(Head(wire[e]))
          /\ arrived'[e] = Append(arrived[e], Head(wire[e]).n)
      BY <1>1, <1>7, <2>3 DEF Moves, Keeps, PutsState, IsTaken, Drains, SendsDirect, Forgets
    <3>2. /\ \A i \in DOMAIN arrived[e] :
               i \in DOMAIN arrived'[e] /\ arrived'[e][i] = arrived[e][i]
          /\ \A i \in DOMAIN arrived'[e] :
               i \in DOMAIN arrived[e] \/ i = Len(arrived[e]) + 1
          /\ arrived'[e][Len(arrived[e]) + 1] = Head(wire[e]).n
          /\ \A i, j \in DOMAIN arrived'[e] : i < j => i \in DOMAIN arrived[e]
      BY <1>2, <3>1
    <3>3. \A x \in Arrived(e)' : x \in Arrived(e) \/ x = Number("n", Head(wire[e]))
      BY <3>2 DEF Arrived, Number
    <3>4. Chain("n", Arrived(e)', wire'[e], direct'[e], sendQ'[e], Later(e))
      BY <1>1, <1>3, <2>1, <3>1, <3>3, ChainMoves DEF CallTypeOK
    <3>5. Head(wire[e]).n \in Numbers("n", wire[e])
      BY <1>2, <3>1, NumberOfHead DEF IsTaken, Number
    <3>6. \A i \in DOMAIN arrived[e] : arrived[e][i] < Head(wire[e]).n
      BY <1>3, <3>5 DEF Arrived, Chain, Below
    <3>7. \A i, j \in DOMAIN arrived'[e] : i < j => arrived'[e][i] < arrived'[e][j]
      BY <1>4, <3>2, <3>6
    <3> QED BY <2>1, <3>4, <3>7
  <2> QED BY <2>2, <2>3
<1>8. ASSUME NEW m \in PayloadsOf(Bodies[e]), Sends(e, m)
      PROVE  /\ \A i, j \in DOMAIN arrived'[e] : i < j => arrived'[e][i] < arrived'[e][j]
             /\ Chain("n", Arrived(e)', wire'[e], direct'[e], sendQ'[e], Later(e)')
  <2>1. /\ m \in Messages(e) /\ Number("n", m) = payloads[e] + 1
        /\ Number("n", m) \in Later(e)
        /\ Later(e)' \subseteq Later(e) /\ Below({Number("n", m)}, Later(e)')
    BY <1>2, <1>8 DEF Sends, Messages, Number, Later, Below
  <2>2. CASE sendQ'[e] = Append(sendQ[e], m) /\ UNCHANGED direct[e]
    <3>1. Chain("n", Arrived(e), wire[e], direct[e], Append(sendQ[e], m), Later(e)')
      BY <1>2, <1>3, <1>8, <2>1, ChainQueues DEF Sends
    <3> QED BY <1>4, <1>5, <1>8, <2>2, <3>1 DEF Sends
  <2>3. CASE sendQ[e] = <<>> /\ direct'[e] = <<m>> /\ UNCHANGED sendQ[e]
    <3>1. Chain("n", Arrived(e), wire[e], <<m>>, sendQ[e], Later(e)')
      BY <1>2, <1>3, <2>1, <2>3, ChainHolds
    <3> QED BY <1>4, <1>5, <1>8, <2>3, <3>1 DEF Sends
  <2> QED BY <1>8, <2>2, <2>3 DEF Sends
<1> QED BY <1>7, <1>8

LEMMA OrderImpliesPayloadsInOrder == CallTypeOK /\ OrderInv => PayloadsInOrder
<1> SUFFICES ASSUME CallTypeOK, OrderInv, NEW e \in Ends,
                    NEW j \in DOMAIN wire[e], IsPayload(wire[e][j])
             PROVE  /\ \A i \in DOMAIN arrived[e] : arrived[e][i] < wire[e][j].n
                    /\ \A i \in 1 .. j - 1 :
                          IsPayload(wire[e][i]) => wire[e][i].n < wire[e][j].n
  BY DEF PayloadsInOrder, OrderInv
<1>1. Chain("n", Arrived(e), wire[e], direct[e], sendQ[e], Later(e))
  BY DEF OrderInv
<1>2. wire[e][j].n \in Numbers("n", wire[e])
  BY DEF Numbers, Number
<1>3. \A i \in DOMAIN arrived[e] : arrived[e][i] \in Arrived(e)
  BY DEF Arrived
<1>4. \A i \in DOMAIN arrived[e] : arrived[e][i] < wire[e][j].n
  BY <1>1, <1>2, <1>3 DEF Chain, Below
<1>5. wire[e] \in Seq(Messages(e))
  BY ExtTypes DEF CallTypeOK
<1>6. \A i \in 1 .. j - 1 : i \in DOMAIN wire[e] /\ i < j
  BY <1>5
<1> QED BY <1>1, <1>4, <1>6 DEF Chain, Ascending, Number

(***************************************************************************)
(* The messages of an end arrive in the order of send, each once, whether  *)
(* they waited for the counterpart or not: send releases the lock before   *)
(* it sends, while the reader thread empties sendQ, but it sends at once   *)
(* only when sendQ is empty, and then nothing overtakes it.                *)
(***************************************************************************)
THEOREM PayloadsArriveInOrder == CallSpec => []PayloadsInOrder
<1>1. CallTypeOK /\ OrderInv /\ [CallNext]_rdVars => OrderInv'
  BY EveryStepIsOfTheExtension, OrderStep
<1> QED BY <1>1, OrderInit, OrderImpliesPayloadsInOrder, CallTypeCorrect, PTL DEF CallSpec

-----------------------------------------------------------------------------
(***************************************************************************)
(* A leave is noticed                                                      *)
(***************************************************************************)
SaysBye(s) == \E j \in DOMAIN s : s[j].ext = "Disconnected"

\* Whatever in s connects the counterpart is followed by Disconnected; an
\* answer is exempt if the counterpart was answered by an end that had left.
ByeComesLast(s, exempt) ==
    \A i \in DOMAIN s :
        (s[i].ext = "Ready" \/ (s[i].ext = "ReceivedCounterpart" /\ ~exempt))
          => \E j \in DOMAIN s : j > i /\ s[j].ext = "Disconnected"

\* The inductive invariant: what an end that has left, or is leaving, has sent
\* disconnects its counterpart, or already has.
Left(e) == phase[e] \in {"unbound", "leaving"}

LeaveInv ==
    \A e \in Ends : Left(e) =>
        /\ ByeComesLast(wire[e], crossed[Other(e)])
        /\ (connected[Other(e)] /\ phase[Other(e)] # "unbound" /\ ~crossed[Other(e)])
             => SaysBye(wire[e])

LEMMA ByeAppend ==
    ASSUME NEW M, NEW s \in Seq(M), NEW m \in M, NEW x \in BOOLEAN, NEW y \in BOOLEAN
    PROVE  /\ SaysBye(s) => SaysBye(Append(s, m))
           /\ m.ext = "Disconnected" => /\ SaysBye(Append(s, m))
                                        /\ ByeComesLast(Append(s, m), x)
           /\ (/\ ByeComesLast(s, x) /\ m.ext # "Ready" /\ (x => y)
               /\ m.ext = "ReceivedCounterpart" => y) => ByeComesLast(Append(s, m), y)
<1>1. /\ \A i \in DOMAIN s : i \in DOMAIN Append(s, m) /\ Append(s, m)[i] = s[i] /\ Len(s) + 1 > i
      /\ Len(s) + 1 \in DOMAIN Append(s, m) /\ Append(s, m)[Len(s) + 1] = m
      /\ \A i \in DOMAIN Append(s, m) : i \in DOMAIN s \/ i = Len(s) + 1
  OBVIOUS
<1>2. SaysBye(s) => SaysBye(Append(s, m))
  BY <1>1 DEF SaysBye
<1>3. m.ext = "Disconnected" => SaysBye(Append(s, m)) /\ ByeComesLast(Append(s, m), x)
  BY <1>1 DEF SaysBye, ByeComesLast
<1>4. ASSUME ByeComesLast(s, x), m.ext # "Ready", x => y, m.ext = "ReceivedCounterpart" => y
      PROVE  ByeComesLast(Append(s, m), y)
  BY <1>1, <1>4 DEF ByeComesLast
<1> QED BY <1>2, <1>3, <1>4

LEMMA ByeTail ==
    ASSUME NEW M, NEW s \in Seq(M), s # <<>>, NEW x \in BOOLEAN
    PROVE  /\ ByeComesLast(s, x) => ByeComesLast(Tail(s), x)
           /\ (SaysBye(s) /\ Head(s).ext # "Disconnected") => SaysBye(Tail(s))
           /\ (/\ ByeComesLast(s, x)
               /\ Head(s).ext = "Ready" \/ (Head(s).ext = "ReceivedCounterpart" /\ ~x))
                => SaysBye(Tail(s))
<1>1. /\ \A i \in DOMAIN Tail(s) : i + 1 \in DOMAIN s /\ Tail(s)[i] = s[i + 1]
      /\ \A i \in DOMAIN s : i > 1 => i - 1 \in DOMAIN Tail(s) /\ Tail(s)[i - 1] = s[i]
      /\ 1 \in DOMAIN s /\ s[1] = Head(s)
      /\ \A i \in DOMAIN s : i = 1 \/ i > 1
  OBVIOUS
<1>2. ASSUME ByeComesLast(s, x), NEW i \in DOMAIN Tail(s),
             Tail(s)[i].ext = "Ready" \/ (Tail(s)[i].ext = "ReceivedCounterpart" /\ ~x)
      PROVE  \E j \in DOMAIN Tail(s) : j > i /\ Tail(s)[j].ext = "Disconnected"
  <2>1. PICK j \in DOMAIN s : j > i + 1 /\ s[j].ext = "Disconnected"
    BY <1>1, <1>2 DEF ByeComesLast
  <2>2. j > 1 /\ j - 1 > i
    BY <2>1
  <2> QED BY <1>1, <2>1, <2>2
<1>3. (SaysBye(s) /\ Head(s).ext # "Disconnected") => SaysBye(Tail(s))
  BY <1>1 DEF SaysBye
<1>4. ASSUME ByeComesLast(s, x),
             Head(s).ext = "Ready" \/ (Head(s).ext = "ReceivedCounterpart" /\ ~x)
      PROVE  SaysBye(Tail(s))
  <2>1. PICK j \in DOMAIN s : j > 1 /\ s[j].ext = "Disconnected"
    BY <1>1, <1>4 DEF ByeComesLast
  <2> QED BY <1>1, <2>1 DEF SaysBye
<1> QED BY <1>2, <1>3, <1>4 DEF ByeComesLast

LEMMA LeaveInit == CallInit => LeaveInv
<1> SUFFICES ASSUME CallInit, NEW e \in Ends
             PROVE  ByeComesLast(wire[e], crossed[Other(e)]) /\ ~connected[Other(e)]
  BY DEF LeaveInv
<1>1. wire[e] = <<>> /\ ~connected[Other(e)]
  BY TwoEnds DEF CallInit, ExtInit
<1>2. DOMAIN <<>> = {}
  OBVIOUS
<1> QED BY <1>1, <1>2 DEF ByeComesLast

LEMMA LeaveStep ==
    ASSUME CallTypeOK, LeaveInv, ExtNext
    PROVE  LeaveInv'
<1> DEFINE Bye(e) ==
             /\ ByeComesLast(wire[e], crossed[Other(e)])
             /\ (connected[Other(e)] /\ phase[Other(e)] # "unbound" /\ ~crossed[Other(e)])
                  => SaysBye(wire[e])
<1>1. ExtTypeOK(Bodies) /\ \A e \in Ends : Left(e) => Bye(e)
  BY DEF CallTypeOK, LeaveInv
<1> SUFFICES ASSUME NEW e \in Ends, Left(e)' PROVE Bye(e)'
  BY DEF LeaveInv
<1> HIDE DEF Bye
<1>2. /\ Other(e) \in Ends /\ Other(e) # e /\ Other(Other(e)) = e
      /\ \A f \in Ends : f # e => f = Other(e)
  BY TwoEnds
<1>3. /\ wire[e] \in Seq(Messages(e)) /\ \A m \in States : m \in Messages(e)
      /\ sendQ[e] # <<>> => Head(sendQ[e]) \in Messages(e) /\ Head(sendQ[e]).ext = "payload"
      /\ direct[e] # <<>> => Head(direct[e]) \in Messages(e) /\ Head(direct[e]).ext = "payload"
  <2>1. /\ wire[e] \in Seq(Messages(e)) /\ \A m \in States : m \in Messages(e)
        /\ sendQ[e] \in Seq(PayloadsOf(Bodies[e])) /\ direct[e] \in Seq(PayloadsOf(Bodies[e]))
        /\ PayloadsOf(Bodies[e]) \subseteq Messages(e)
    BY <1>1, ExtTypes
  <2>2. \A m \in PayloadsOf(Bodies[e]) : m.ext = "payload"
    BY DEF PayloadsOf
  <2> QED BY <2>1, <2>2, SequenceTypes
<1>4. /\ phase \in [Ends -> {"unbound", "advised", "bound", "leaving"}]
      /\ connected \in [Ends -> BOOLEAN] /\ crossed \in [Ends -> BOOLEAN]
      /\ drain \in [Ends -> {"none", "waits", "locked"}] /\ DOMAIN wire = Ends
      /\ crossed[Other(e)] \in BOOLEAN /\ connected[Other(e)] \in BOOLEAN
  BY <1>1, <1>2 DEF ExtTypeOK
<1>5. ASSUME Left(e), UNCHANGED <<wire[e], crossed[Other(e)], connected[Other(e)]>>,
             phase'[Other(e)] # "unbound" /\ connected[Other(e)] => phase[Other(e)] # "unbound"
      PROVE  Bye(e)'
  BY <1>1, <1>5 DEF Bye
<1>6. ASSUME NEW f \in Ends, SendReady(f) PROVE Bye(e)'
  <2>1. f # e /\ Left(e)
    BY <1>4, <1>6 DEF SendReady, Left
  <2> QED BY <1>2, <1>4, <1>5, <1>6, <2>1 DEF SendReady, Puts
<1>7. ASSUME NEW f \in Ends, Leave(f) PROVE Bye(e)'
  <2>1. CASE f # e
    <3>1. Left(e)
      BY <1>4, <1>7, <2>1 DEF Leave, Left
    <3> QED BY <1>2, <1>4, <1>5, <1>7, <2>1, <3>1 DEF Leave, Puts
  <2>2. CASE f = e
    <3>1. wire'[e] = Append(wire[e], State("Disconnected"))
          /\ crossed'[Other(e)] = crossed[Other(e)]
      BY <1>4, <1>7, <2>2 DEF Leave, Puts
    <3>2. State("Disconnected") \in Messages(e) /\ State("Disconnected").ext = "Disconnected"
      BY <1>3 DEF States, State
    <3>3. SaysBye(wire'[e]) /\ ByeComesLast(wire'[e], crossed[Other(e)])
      BY <1>3, <1>4, <3>1, <3>2, ByeAppend
    <3> QED BY <3>1, <3>3 DEF Bye
  <2> QED BY <2>1, <2>2
<1>8. ASSUME NEW f \in Ends, Unsubscribe(f) PROVE Bye(e)'
  <2>1. Left(e)
    BY <1>2, <1>4, <1>8 DEF Unsubscribe, Left
  <2> QED BY <1>2, <1>4, <1>5, <1>8, <2>1 DEF Unsubscribe
<1>9. ASSUME NEW f \in Ends, Advise(f) PROVE Bye(e)'
  <2>1. f = Other(e) /\ Left(e)
    BY <1>2, <1>4, <1>9 DEF Advise, Left
  <2>2. wire' = wire /\ connected'[Other(e)] = FALSE
        /\ crossed'[Other(e)] = (crossed[Other(e)] /\ AnswerUnderWay(Other(e)))
    BY <1>4, <1>9, <2>1 DEF Advise
  <2>3. CASE AnswerUnderWay(Other(e))
    <3>1. crossed'[Other(e)] = crossed[Other(e)]
      BY <1>4, <2>2, <2>3
    <3> QED BY <1>1, <2>1, <2>2, <3>1 DEF Bye
  <2>4. CASE ~AnswerUnderWay(Other(e))
    <3>1. \A i \in DOMAIN wire[e] : wire[e][i] # State("ReceivedCounterpart")
      BY <1>2, <1>3, <2>4 DEF AnswerUnderWay, ToSet
    <3>2. \A i \in DOMAIN wire[e] : wire[e][i].ext # "ReceivedCounterpart"
      <4> SUFFICES ASSUME NEW i \in DOMAIN wire[e], wire[e][i].ext = "ReceivedCounterpart"
                   PROVE  FALSE
        OBVIOUS
      <4>1. wire[e][i] \in Messages(e)
        BY <1>3
      <4>2. wire[e][i] = State("ReceivedCounterpart")
        BY <4>1 DEF Messages, States, State, PayloadsOf
      <4> QED BY <3>1, <4>2
    <3>3. ByeComesLast(wire[e], FALSE)
      BY <1>1, <2>1, <3>2 DEF Bye, ByeComesLast
    <3> QED BY <2>2, <2>4, <3>3 DEF Bye
  <2> QED BY <2>3, <2>4
<1>10. ASSUME NEW f \in Ends, ReceiveReady(f) PROVE Bye(e)'
  <2>1. State("ReceivedCounterpart") \in States
        /\ State("ReceivedCounterpart").ext = "ReceivedCounterpart"
    BY DEF States, State
  <2>2. /\ wire[Other(f)] # <<>> /\ wire'[Other(f)] = Tail(wire[Other(f)])
        /\ wire'[f] = Append(wire[f], State("ReceivedCounterpart"))
    BY <1>1, <1>10, <2>1, Answered DEF ReceiveReady, Arrives
  <2>3. Left(e) /\ UNCHANGED phase
    BY <1>10 DEF ReceiveReady, Left
  <2>4. CASE f = e
    <3>1. crossed'[Other(e)] = TRUE
      BY <1>2, <1>4, <1>10, <2>3, <2>4 DEF ReceiveReady, Left
    <3>2. ByeComesLast(wire'[e], TRUE)
      BY <1>1, <1>3, <1>4, <2>1, <2>2, <2>3, <2>4, ByeAppend DEF Bye
    <3> QED BY <3>1, <3>2 DEF Bye
  <2>5. CASE f = Other(e)
    <3>1. crossed'[Other(e)] = crossed[Other(e)]
      BY <1>2, <1>4, <1>10, <2>5 DEF ReceiveReady
    <3>2. Head(wire[e]).ext = "Ready" /\ wire[e] # <<>> /\ wire'[e] = Tail(wire[e])
      BY <1>2, <1>10, <2>2, <2>5 DEF ReceiveReady, Arriving
    <3>3. ByeComesLast(wire'[e], crossed[Other(e)]) /\ SaysBye(wire'[e])
      BY <1>1, <1>3, <1>4, <2>3, <3>2, ByeTail DEF Bye
    <3> QED BY <3>1, <3>3 DEF Bye
  <2> QED BY <1>2, <2>4, <2>5
<1>11. ASSUME NEW f \in Ends,
              ReceiveCounterpart(f) \/ ReceiveDisconnected(f) \/ Drop(f) \/ ReceivePayload(f)
       PROVE  Bye(e)'
  <2>1. /\ wire[Other(f)] # <<>> /\ wire'[Other(f)] = Tail(wire[Other(f)])
        /\ wire'[f] = wire[f]
    BY <1>1, <1>11, Answered
       DEF ReceiveCounterpart, ReceiveDisconnected, Drop, ReceivePayload, Arrives
  <2>2. Left(e) /\ UNCHANGED <<phase, crossed>>
    BY <1>11 DEF ReceiveCounterpart, ReceiveDisconnected, Drop, ReceivePayload, Left
  <2>3. CASE f = e
    <3>1. connected'[Other(e)] = connected[Other(e)]
      BY <1>2, <1>4, <1>11, <2>3
         DEF ReceiveCounterpart, ReceiveDisconnected, Drop, ReceivePayload, SetConnected
    <3> QED BY <1>5, <2>1, <2>2, <2>3, <3>1
  <2>4. CASE f = Other(e)
    <3>1. wire[e] # <<>> /\ wire'[e] = Tail(wire[e])
      BY <1>2, <2>1, <2>4
    <3>2. ByeComesLast(wire'[e], crossed[Other(e)])
      BY <1>1, <1>3, <1>4, <2>2, <3>1, ByeTail DEF Bye
    <3>3. CASE ReceiveCounterpart(f)
      <4>1. Head(wire[e]).ext = "ReceivedCounterpart"
        BY <1>2, <2>4, <3>3 DEF ReceiveCounterpart, Arriving
      <4>2. ~crossed[Other(e)] => SaysBye(wire'[e])
        BY <1>1, <1>3, <1>4, <2>2, <3>1, <4>1, ByeTail DEF Bye
      <4> QED BY <2>2, <3>2, <4>2 DEF Bye
    <3>4. CASE ReceiveDisconnected(f)
      <4>1. connected'[Other(e)] = FALSE
        BY <1>4, <2>4, <3>4 DEF ReceiveDisconnected
      <4> QED BY <2>2, <3>2, <4>1 DEF Bye
    <3>5. CASE Drop(f)
      <4>1. phase'[Other(e)] = "unbound"
        BY <2>2, <2>4, <3>5 DEF Drop
      <4> QED BY <2>2, <3>2, <4>1 DEF Bye
    <3>6. CASE ReceivePayload(f)
      <4>1. Head(wire[e]).ext # "Disconnected" /\ connected' = connected
        BY <1>2, <2>4, <3>6 DEF ReceivePayload, Arriving, IsPayload
      <4>2. SaysBye(wire[e]) => SaysBye(wire'[e])
        BY <1>3, <1>4, <3>1, <4>1, ByeTail
      <4> QED BY <1>1, <2>2, <3>2, <4>1, <4>2 DEF Bye
    <3> QED BY <1>11, <3>3, <3>4, <3>5, <3>6
  <2> QED BY <1>2, <2>3, <2>4
<1>12. ASSUME NEW f \in Ends, DrainOne(f) \/ SendDirect(f) PROVE Bye(e)'
  <2>1. Left(e) /\ UNCHANGED <<phase, crossed, connected>>
    BY <1>12 DEF DrainOne, SendDirect, Left
  <2>2. CASE f # e
    <3>1. wire'[e] = wire[e]
      BY <1>4, <1>12, <2>2 DEF DrainOne, SendDirect, Puts
    <3> QED BY <1>5, <2>1, <3>1
  <2>3. CASE f = e
    <3>1. PICK m \in Messages(e) : m.ext = "payload" /\ wire'[e] = Append(wire[e], m)
      BY <1>3, <1>4, <1>12, <2>3 DEF DrainOne, SendDirect, Puts
    <3>2. /\ ByeComesLast(wire'[e], crossed[Other(e)])
          /\ SaysBye(wire[e]) => SaysBye(wire'[e])
      BY <1>1, <1>3, <1>4, <2>1, <3>1, ByeAppend DEF Bye
    <3> QED BY <1>1, <2>1, <3>2 DEF Bye
  <2> QED BY <2>2, <2>3
<1>13. ASSUME NEW f \in Ends, DrainLock(f) \/ DrainEnd(f) PROVE Bye(e)'
  BY <1>5, <1>13 DEF DrainLock, DrainEnd, Left
<1>14. ASSUME NEW f \in Ends, NEW body \in Bodies[f], Send(f, body) PROVE Bye(e)'
  BY <1>5, <1>14 DEF Send, Left
<1>15. CASE UNCHANGED extVars
  BY <1>5, <1>15 DEF extVars, Left
<1> QED BY <1>6, <1>7, <1>8, <1>9, <1>10, <1>11, <1>12, <1>13, <1>14, <1>15
        DEF ExtNext, Handshake

LEMMA LeaveImpliesNoticed == CallTypeOK /\ LeaveInv => LeaveIsNoticed
<1> SUFFICES ASSUME CallTypeOK, LeaveInv, NEW e \in Ends,
                    phase[e] = "bound", phase[Other(e)] = "unbound",
                    wire = [f \in Ends |-> <<>>], ~crossed[e], connected[e]
             PROVE  FALSE
  BY DEF LeaveIsNoticed
<1>1. SaysBye(wire[Other(e)])
  BY TwoEnds DEF LeaveInv, Left
<1>2. wire[Other(e)] = <<>> /\ DOMAIN <<>> = {}
  BY TwoEnds
<1> QED BY <1>1, <1>2 DEF SaysBye

(***************************************************************************)
(* An end that is bound alone, with nothing under way, is not connected:   *)
(* it was told Disconnected after whatever had connected it, unless it was *)
(* answered by an end that had said Disconnected before.                   *)
(***************************************************************************)
THEOREM LeavesAreNoticed == CallSpec => []LeaveIsNoticed
<1>1. CallTypeOK /\ LeaveInv /\ [CallNext]_rdVars => LeaveInv'
  BY EveryStepIsOfTheExtension, LeaveStep
<1> QED BY <1>1, LeaveInit, LeaveImpliesNoticed, CallTypeCorrect, PTL DEF CallSpec

-----------------------------------------------------------------------------
(***************************************************************************)
(* Answers                                                                 *)
(***************************************************************************)
Handled == {c \in CallIds : given[c] # <<>>}
Asked == {requests[i] : i \in DOMAIN requests}
NewCalls == {c \in CallIds : task[c] = "new"}

\* The inductive invariant: calls follow each other from the tasks that are
\* new, through send and the wire, to the requests that the scheduler of the
\* endpoint has to handle and those that were handled, and none is passed on
\* twice.
CallInv ==
    /\ Chain("call", Handled \union Asked, wire[Caller], direct[Caller], sendQ[Caller],
             NewCalls)
    /\ \A i, j \in DOMAIN requests : i < j => requests[i] < requests[j]
    /\ Below(Handled, Asked)
    /\ \A c \in CallIds : Len(given[c]) <= 1

LEMMA CallInvInit == CallInit => CallInv
<1> SUFFICES ASSUME CallInit PROVE CallInv
  OBVIOUS
<1>1. /\ wire[Caller] = <<>> /\ direct[Caller] = <<>> /\ sendQ[Caller] = <<>>
      /\ requests = <<>> /\ DOMAIN <<>> = {}
      /\ \A c \in CallIds : given[c] = <<>> /\ Len(<<>>) = 0
  BY TwoEnds DEF CallInit, ExtInit, Ends, Caller
<1>2. Handled = {} /\ Asked = {}
  BY <1>1 DEF Handled, Asked
<1>3. Chain("call", Handled \union Asked, wire[Caller], direct[Caller], sendQ[Caller],
            NewCalls)
  BY <1>1, <1>2, NumbersOfNothing DEF Chain, Below
<1> QED BY <1>1, <1>2, <1>3 DEF CallInv, Below

\* The first request is not handled yet, and comes before the others.
LEMMA FirstRequest ==
    ASSUME CallTypeOK, CallInv, requests # <<>>
    PROVE  /\ Head(requests) \in Asked /\ Head(requests) \in CallIds
           /\ given[Head(requests)] = <<>>
           /\ {Tail(requests)[i] : i \in DOMAIN Tail(requests)} \subseteq Asked
           /\ Below({Head(requests)}, {Tail(requests)[i] : i \in DOMAIN Tail(requests)})
           /\ \A i, j \in DOMAIN Tail(requests) :
                 i < j => Tail(requests)[i] < Tail(requests)[j]
<1>1. requests \in Seq(CallIds)
  BY DEF CallTypeOK
<1>2. /\ 1 \in DOMAIN requests /\ Head(requests) = requests[1]
      /\ Head(requests) \in CallIds
      /\ \A i \in DOMAIN Tail(requests) :
           i + 1 \in DOMAIN requests /\ Tail(requests)[i] = requests[i + 1] /\ 1 < i + 1
      /\ \A i, j \in DOMAIN Tail(requests) : i < j => i + 1 < j + 1
  BY <1>1
<1>3. Head(requests) \in Asked
  BY <1>2 DEF Asked
<1>4. given[Head(requests)] = <<>>
  <2>1. Head(requests) \notin Handled
    BY <1>2, <1>3 DEF CallInv, Below, CallIds
  <2> QED BY <1>2, <2>1 DEF Handled
<1>5. {Tail(requests)[i] : i \in DOMAIN Tail(requests)} \subseteq Asked
  BY <1>2 DEF Asked
<1>6. Below({Head(requests)}, {Tail(requests)[i] : i \in DOMAIN Tail(requests)})
  BY <1>2 DEF CallInv, Below
<1>7. \A i, j \in DOMAIN Tail(requests) : i < j => Tail(requests)[i] < Tail(requests)[j]
  BY <1>2 DEF CallInv
<1> QED BY <1>2, <1>3, <1>4, <1>5, <1>6, <1>7

LEMMA CallInvStep == CallTypeOK /\ CallInv /\ [CallNext]_rdVars => CallInv'
<1> SUFFICES ASSUME CallTypeOK, CallInv, [CallNext]_rdVars PROVE CallInv'
  OBVIOUS
<1>1. /\ Caller \in Ends /\ Endpoint \in Ends /\ Other(Endpoint) = Caller
      /\ Endpoint # Caller /\ ExtTypeOK(Bodies) /\ Moves(Caller)
  BY EveryStepIsOfTheExtension, EveryStepMoves DEF CallTypeOK, Ends, Caller, Endpoint, Other
<1>2. /\ wire[Caller] \in Seq(Messages(Caller)) /\ direct[Caller] \in Seq(Messages(Caller))
      /\ sendQ[Caller] \in Seq(Messages(Caller)) /\ payloads \in [Ends -> Nat]
  BY <1>1, ExtTypes DEF ExtTypeOK
<1>3. Chain("call", Handled \union Asked, wire[Caller], direct[Caller], sendQ[Caller],
            NewCalls)
  BY DEF CallInv
<1>4. ASSUME NEW now, now \subseteq Handled \union Asked, payloads'[Caller] = payloads[Caller]
      PROVE  Chain("call", now, wire'[Caller], direct'[Caller], sendQ'[Caller], NewCalls)
  BY <1>1, <1>3, <1>4, ChainMoves
<1>5. ASSUME payloads'[Caller] = payloads[Caller], UNCHANGED endpointVars,
             NewCalls' \subseteq NewCalls
      PROVE  CallInv'
  <2>1. UNCHANGED <<Handled, Asked>>
    BY <1>5 DEF Handled, Asked, endpointVars
  <2>2. Chain("call", Handled \union Asked, wire'[Caller], direct'[Caller], sendQ'[Caller],
              NewCalls)
    BY <1>4, <1>5
  <2>3. Chain("call", Handled \union Asked, wire'[Caller], direct'[Caller], sendQ'[Caller],
              NewCalls')
    BY <1>5, <2>2 DEF Chain, Below
  <2> QED BY <1>5, <2>1, <2>3 DEF CallInv, endpointVars
<1>6. ASSUME NEW e \in Ends, HandshakeStep(e) \/ NewBinding(e) \/ EndOfBinding(e)
      PROVE  CallInv'
  <2>1. UNCHANGED payloads
    BY <1>6 DEF HandshakeStep, NewBinding, EndOfBinding, Handshake, ReceiveReady,
         ReceiveCounterpart, ReceiveDisconnected, Drop, DrainLock, DrainOne, DrainEnd,
         SendDirect, SendReady, Unsubscribe, Advise, Leave
  <2>2. UNCHANGED <<endpointVars, task>>
    BY <1>6 DEF HandshakeStep, NewBinding, EndOfBinding, callVars, callerVars
  <2> QED BY <1>5, <2>1, <2>2 DEF NewCalls
<1>7. ASSUME NEW c \in CallIds, StartSync(c) PROVE CallInv'
  <2> DEFINE m == Payload(payloads[Caller] + 1, Request(c))
  <2>1. Request(c) \in Bodies[Caller]
    BY <1>1 DEF Request, Bodies
  <2>2. Sends(Caller, m)
    BY <1>1, <1>7, <2>1, SendMoves DEF StartSync
  <2>3. m \in Messages(Caller)
    BY <2>2 DEF Sends, Messages
  <2>4. Number("call", m) = c
    BY DEF Number, Payload, Request
  <2> HIDE DEF m
  <2>5. c \in NewCalls /\ NewCalls' \subseteq NewCalls /\ Below({c}, NewCalls')
    <3>1. task' = [task EXCEPT ![c] = "waiting"] /\ task[c] = "new"
          /\ \A d \in 1 .. c - 1 : task[d] # "new"
      BY <1>7 DEF StartSync, Construct, IsNext
    <3>2. DOMAIN task = CallIds
      BY DEF CallTypeOK
    <3>3. NewCalls' \subseteq NewCalls /\ c \notin NewCalls'
      BY <3>1, <3>2 DEF NewCalls
    <3>4. c \in Nat /\ c >= 1 /\ \A d \in NewCalls : d \in Nat /\ d >= 1 /\ task[d] = "new"
      BY RdCallAssumption DEF NewCalls, CallIds
    <3>5. ASSUME NEW d \in NewCalls, d < c PROVE FALSE
      <4>1. d \in 1 .. c - 1
        BY <3>4, <3>5
      <4> QED BY <3>1, <3>4, <4>1
    <3>6. ASSUME NEW d \in NewCalls' PROVE c < d
      <4>1. d \in NewCalls /\ d # c
        BY <3>3, <3>6
      <4> QED BY <3>4, <3>5, <4>1
    <3>7. c \in NewCalls
      BY <3>1 DEF NewCalls
    <3> QED BY <3>3, <3>6, <3>7 DEF Below
  <2>6. UNCHANGED <<requests, given, Handled, Asked>>
    BY <1>7 DEF StartSync, Construct, endpointVars, Handled, Asked
  <2>7. CASE sendQ'[Caller] = Append(sendQ[Caller], m) /\ UNCHANGED direct[Caller]
    <3>1. Chain("call", Handled \union Asked, wire[Caller], direct[Caller],
                Append(sendQ[Caller], m), NewCalls')
      BY <1>2, <1>3, <2>2, <2>3, <2>4, <2>5, ChainQueues DEF Sends
    <3> QED BY <2>2, <2>6, <2>7, <3>1 DEF Sends, CallInv
  <2>8. CASE sendQ[Caller] = <<>> /\ direct'[Caller] = <<m>> /\ UNCHANGED sendQ[Caller]
    <3>1. Chain("call", Handled \union Asked, wire[Caller], <<m>>, sendQ[Caller], NewCalls')
      BY <1>2, <1>3, <2>3, <2>4, <2>5, <2>8, ChainHolds
    <3> QED BY <2>2, <2>6, <2>8, <3>1 DEF Sends, CallInv
  <2> QED BY <2>2, <2>7, <2>8 DEF Sends
<1>8. ASSUME \/ ReceiveAnswer
             \/ CallsAlone /\ ~SkipRequest
      PROVE  CallInv'
  <2>1. UNCHANGED endpointVars
    BY <1>8 DEF ReceiveAnswer, CallsAlone, Refuse, Construct, StartTooLate, SyncReturns,
                Release, SyncThrows, TestCancelled, SetCancelled, Forget, TestAnswer,
                SetAnswer, Terminate, TakeActions
  <2>2. UNCHANGED payloads
    BY <1>8, AloneIsAlone DEF ReceiveAnswer, ReceivePayload, extVars
  <2>3. UNCHANGED task \/ \E c \in CallIds : /\ task' = [task EXCEPT ![c] = task'[c]]
                                             /\ task'[c] # "new"
    BY <1>8 DEF ReceiveAnswer, callerVars, CallsAlone, Refuse, Construct, StartTooLate,
                SyncReturns, Release, SyncThrows, TestCancelled, SetCancelled, Forget,
                TestAnswer, SetAnswer, Terminate, TakeActions, CallTypeOK
  <2>4. NewCalls' \subseteq NewCalls
    BY <2>3 DEF NewCalls, CallTypeOK
  <2> QED BY <1>5, <2>1, <2>2, <2>4
<1>9. CASE ReceiveRequest
  <2> DEFINE call == Arriving(Endpoint).body.call
  <2>1. /\ wire[Caller] # <<>> /\ wire'[Caller] = Tail(wire[Caller])
        /\ IsPayload(Head(wire[Caller])) /\ call = Number("call", Head(wire[Caller]))
        /\ call \in CallIds
    BY <1>9, RequestArrives
  <2>2. /\ UNCHANGED <<payloads, sendQ, direct, given, task, Handled, NewCalls>>
        /\ requests' = Append(requests, call)
    BY <1>9 DEF ReceiveRequest, ReceivePayload, callerVars, Handled, NewCalls
  <2>3. IsTaken(Caller)
    <3>1. arrived' = [arrived EXCEPT ![Caller] = Append(@, Head(wire[Caller]).n)]
      BY <1>1, <1>9 DEF ReceiveRequest, ReceivePayload, Arriving
    <3>2. DOMAIN arrived = Ends
      BY <1>1 DEF ExtTypeOK
    <3> QED BY <1>1, <2>1, <2>2, <3>1, <3>2 DEF IsTaken
  <2>4. /\ \A i \in DOMAIN requests' : \/ i \in DOMAIN requests /\ requests'[i] = requests[i]
                                       \/ i = Len(requests) + 1 /\ requests'[i] = call
        /\ \A i, j \in DOMAIN requests' : i < j => i \in DOMAIN requests
    BY <2>1, <2>2 DEF CallTypeOK
  <2>5. Asked' \subseteq Asked \union {call}
    BY <2>4 DEF Asked
  <2>6. Chain("call", (Handled \union Asked)', wire'[Caller], direct'[Caller], sendQ'[Caller],
              NewCalls')
    <3>1. \A x \in (Handled \union Asked)' :
             \/ x \in Handled \union Asked
             \/ /\ IsTaken(Caller) /\ IsPayload(Head(wire[Caller]))
                /\ x = Number("call", Head(wire[Caller]))
      BY <2>1, <2>2, <2>3, <2>5
    <3>2. payloads'[Caller] = payloads[Caller]
      BY <2>2
    <3>3. Chain("call", (Handled \union Asked)', wire'[Caller], direct'[Caller],
                sendQ'[Caller], NewCalls)
      BY <1>1, <1>3, <3>1, <3>2, ChainMoves
    <3> QED BY <2>2, <3>3
  <2>7. Below(Handled \union Asked, {call})
    <3>1. call \in Numbers("call", wire[Caller])
      BY <1>2, <2>1, NumberOfHead
    <3> QED BY <1>3, <3>1 DEF Chain, Below
  <2>8. Below(Handled', Asked')
    BY <2>2, <2>5, <2>7 DEF CallInv, Below
  <2>9. \A i, j \in DOMAIN requests' : i < j => requests'[i] < requests'[j]
    BY <2>4, <2>7 DEF CallInv, Below, Asked
  <2> QED BY <2>2, <2>6, <2>8, <2>9 DEF CallInv
<1>10. CASE Handle \/ SkipRequest
  <2>1. /\ requests # <<>> /\ requests' = Tail(requests) /\ UNCHANGED task
        /\ payloads'[Caller] = payloads[Caller]
        /\ \/ given' = given
           \/ \E outcome \in Outcomes :
                given' = [given EXCEPT ![Head(requests)] = Append(@, outcome)]
    BY <1>1, <1>2, <1>10 DEF Handle, SkipRequest, Send, extVars, callerVars, Outcomes
  <2>2. /\ Head(requests) \in Asked /\ Head(requests) \in CallIds
        /\ given[Head(requests)] = <<>>
        /\ Asked' \subseteq Asked /\ Below({Head(requests)}, Asked')
        /\ \A i, j \in DOMAIN requests' : i < j => requests'[i] < requests'[j]
    BY <2>1, FirstRequest DEF Asked
  <2>3. Handled' \subseteq Handled \union {Head(requests)}
    BY <2>1, <2>2 DEF Handled, CallTypeOK
  <2>4. \A c \in CallIds : Len(given'[c]) <= 1
    <3>1. \A outcome : Append(<<>>, outcome) = <<outcome>> /\ Len(<<outcome>>) = 1
      OBVIOUS
    <3>2. ASSUME NEW c \in CallIds
          PROVE  given'[c] = given[c] \/ \E outcome : given'[c] = <<outcome>>
      <4>1. DOMAIN given = CallIds
        BY DEF CallTypeOK
      <4>2. CASE given' = given
        BY <4>2
      <4>3. ASSUME NEW outcome,
                   given' = [given EXCEPT ![Head(requests)] = Append(@, outcome)]
            PROVE  given'[c] = given[c] \/ given'[c] = <<outcome>>
        BY <2>2, <3>1, <4>1, <4>3
      <4> QED BY <2>1, <4>2, <4>3
    <3>3. ASSUME NEW c \in CallIds PROVE Len(given'[c]) <= 1
      <4>1. CASE given'[c] = given[c]
        BY <4>1 DEF CallInv
      <4>2. ASSUME NEW outcome, given'[c] = <<outcome>> PROVE Len(given'[c]) <= 1
        BY <3>1, <4>2
      <4> QED BY <3>2, <4>1, <4>2
    <3> QED BY <3>3
  <2>5. Below(Handled', Asked')
    BY <2>2, <2>3 DEF CallInv, Below
  <2>6. Chain("call", (Handled \union Asked)', wire'[Caller], direct'[Caller], sendQ'[Caller],
              NewCalls)
    BY <1>4, <2>1, <2>2, <2>3
  <2>7. UNCHANGED NewCalls
    BY <2>1 DEF NewCalls
  <2> QED BY <2>2, <2>4, <2>5, <2>6, <2>7 DEF CallInv
<1>11. CASE UNCHANGED rdVars
  BY <1>5, <1>11 DEF rdVars, extVars, callVars, callerVars, NewCalls
<1> QED BY <1>6, <1>7, <1>8, <1>9, <1>10, <1>11, CallSteps

\* The answers that carry what was given to their call.
Settled == {m \in PayloadsOf(Bodies[Endpoint]) : given[m.body.call] = <<m.body.result>>}

\* The inductive invariant: all that the endpoint sends, and what the reader
\* thread has in hand, and has set, is what was given to the call.
AnswerInv ==
    /\ wire[Endpoint] \in Seq(States \union Settled)
    /\ sendQ[Endpoint] \in Seq(Settled) /\ direct[Endpoint] \in Seq(Settled)
    /\ answering # Nobody => given[answering.call] = <<answering.result>>
    /\ setting["reader"] # 0 => setting["reader"] = answering.call
    /\ \A c \in CallIds : result[c] \in Outcomes => given[c] = <<result[c]>>

LEMMA AnswerInit == CallInit => AnswerInv
<1> SUFFICES ASSUME CallInit PROVE AnswerInv
  OBVIOUS
<1>1. /\ wire[Endpoint] = <<>> /\ direct[Endpoint] = <<>> /\ sendQ[Endpoint] = <<>>
      /\ answering = Nobody /\ setting["reader"] = 0
      /\ \A c \in CallIds : result[c] = "none"
  BY DEF CallInit, ExtInit, Ends, Endpoint, Threads
<1>2. \A S : <<>> \in Seq(S)
  OBVIOUS
<1> QED BY <1>1, <1>2 DEF AnswerInv, Outcomes

\* What is given to a call is given once.
LEMMA SettledStays ==
    ASSUME CallTypeOK, CallInv, [CallNext]_rdVars
    PROVE  /\ Settled \subseteq Settled'
           /\ \A c \in CallIds, outcome \in Outcomes :
                 given[c] = <<outcome>> => given'[c] = <<outcome>>
<1>1. ASSUME NEW c \in CallIds, NEW outcome \in Outcomes, given[c] = <<outcome>>
      PROVE  given'[c] = <<outcome>>
  <2>1. CASE UNCHANGED given
    BY <1>1, <2>1
  <2>2. CASE Handle
    <3>1. given[Head(requests)] = <<>> /\ <<outcome>> # <<>>
      BY <2>2, FirstRequest DEF Handle
    <3>2. c # Head(requests)
      BY <1>1, <3>1
    <3> QED BY <1>1, <2>2, <3>2 DEF Handle, CallTypeOK
  <2> QED BY <2>1, <2>2, EndpointRests DEF ReceiveRequest, SkipRequest, endpointVars
<1>2. ASSUME NEW m \in Settled PROVE m \in Settled'
  <2>1. m \in PayloadsOf(Bodies[Endpoint]) /\ m.body \in Bodies[Endpoint]
    BY DEF Settled, PayloadsOf
  <2>2. m.body.call \in CallIds /\ m.body.result \in Outcomes
    BY <2>1, TwoEnds DEF Bodies, Ends, Caller, Endpoint
  <2>3. Bodies' = Bodies
    BY DEF Bodies
  <2> QED BY <1>1, <2>1, <2>2, <2>3 DEF Settled, PayloadsOf
<1> QED BY <1>1, <1>2

\* The endpoint sends what it has given.
LEMMA SendsSettled ==
    ASSUME CallTypeOK, CallInv, [CallNext]_rdVars, NEW m, Sends(Endpoint, m)
    PROVE  m \in Settled'
<1>1. /\ payloads'[Endpoint] # payloads[Endpoint] /\ m \in PayloadsOf(Bodies[Endpoint])
      /\ ExtTypeOK(Bodies) /\ payloads[Endpoint] \in Nat
      /\ Caller \in Ends /\ Endpoint \in Ends /\ Caller # Endpoint
  BY DEF Sends, CallTypeOK, ExtTypeOK, Ends, Caller, Endpoint
<1>2. Handle
  <2>1. ASSUME NEW e \in Ends, HandshakeStep(e) \/ NewBinding(e) \/ EndOfBinding(e)
        PROVE  UNCHANGED payloads
    BY <2>1 DEF HandshakeStep, NewBinding, EndOfBinding, Handshake, ReceiveReady,
         ReceiveCounterpart, ReceiveDisconnected, Drop, DrainLock, DrainOne, DrainEnd,
         SendDirect, SendReady, Unsubscribe, Advise, Leave
  <2>2. ASSUME NEW c \in CallIds, StartSync(c)
        PROVE  payloads'[Endpoint] = payloads[Endpoint]
    BY <1>1, <2>2 DEF StartSync, Send, ExtTypeOK
  <2>3. ReceiveRequest \/ ReceiveAnswer \/ CallsAlone \/ UNCHANGED rdVars
           => UNCHANGED payloads
    BY AloneIsAlone DEF ReceiveRequest, ReceiveAnswer, ReceivePayload, rdVars, extVars
  <2> QED BY <1>1, <2>1, <2>2, <2>3, CallSteps
<1>3. PICK outcome \in Outcomes :
         /\ Send(Endpoint, Answer(Head(requests), outcome))
         /\ given' = [given EXCEPT ![Head(requests)] = Append(@, outcome)]
  BY <1>2 DEF Handle, Outcomes
<1> DEFINE a == Payload(payloads[Endpoint] + 1, Answer(Head(requests), outcome))
<1>4. /\ Head(requests) \in CallIds /\ given[Head(requests)] = <<>>
      /\ Append(<<>>, outcome) = <<outcome>>
  BY <1>2, FirstRequest DEF Handle
<1>5. Answer(Head(requests), outcome) \in Bodies[Endpoint]
  BY <1>1, <1>4 DEF Answer, Bodies
<1>6. Sends(Endpoint, a)
  BY <1>1, <1>3, <1>5, SendMoves
<1>7. a.body.call = Head(requests) /\ a.body.result = outcome
  BY DEF Payload, Answer
<1>8. m = a
  <2> HIDE DEF a
  <2>1. \A q \in Seq(PayloadsOf(Bodies[Endpoint])),
           x \in PayloadsOf(Bodies[Endpoint]), y \in PayloadsOf(Bodies[Endpoint]) :
             /\ Append(q, x) = Append(q, y) => x = y
             /\ Append(q, x) # q
             /\ <<x>> = <<y>> => x = y
             /\ <<x>> # <<>>
    OBVIOUS
  <2>2. sendQ[Endpoint] \in Seq(PayloadsOf(Bodies[Endpoint]))
    BY <1>1, ExtTypes
  <2> QED BY <1>1, <1>6, <2>1, <2>2 DEF Sends
<1>9. given'[a.body.call] = <<a.body.result>>
  BY <1>3, <1>4, <1>7 DEF CallTypeOK
<1>10. PayloadsOf(Bodies[Endpoint])' = PayloadsOf(Bodies[Endpoint])
  BY DEF PayloadsOf, Bodies
<1> QED BY <1>1, <1>8, <1>9, <1>10 DEF Settled

\* What the reader thread has in hand, and what it has set.
ReaderInv ==
    /\ answering # Nobody => given[answering.call] = <<answering.result>>
    /\ setting["reader"] # 0 => setting["reader"] = answering.call
    /\ \A c \in CallIds : result[c] \in Outcomes => given[c] = <<result[c]>>

LEMMA ReaderStep ==
    ASSUME CallTypeOK, CallInv, AnswerInv, [CallNext]_rdVars
    PROVE  ReaderInv'
<1>1. /\ ReaderInv /\ DOMAIN setting = Threads /\ "reader" \in Threads
      /\ "ender" \in Threads /\ "ender" # "reader" /\ DOMAIN result = CallIds
  BY DEF AnswerInv, ReaderInv, CallTypeOK, Threads
<1>2. \A c \in CallIds, outcome \in Outcomes :
         given[c] = <<outcome>> => given'[c] = <<outcome>>
  BY SettledStays
<1>3. ASSUME UNCHANGED <<answering, setting["reader"], result>> PROVE ReaderInv'
  BY <1>1, <1>2, <1>3, InHand DEF ReaderInv
<1>4. ASSUME NEW e \in Ends, HandshakeStep(e) \/ NewBinding(e) \/ EndOfBinding(e)
      PROVE  ReaderInv'
  BY <1>3, <1>4 DEF HandshakeStep, NewBinding, EndOfBinding, callVars
<1>5. ASSUME NEW c \in CallIds,
             \/ StartSync(c) \/ Refuse(c) \/ StartTooLate(c)
             \/ SyncReturns(c) \/ Release(c) \/ SyncThrows(c) \/ Forget(c)
      PROVE  ReaderInv'
  BY <1>3, <1>5 DEF StartSync, Refuse, Construct, StartTooLate, SyncReturns, Release,
                    SyncThrows, Forget
<1>6. ASSUME NEW c \in CallIds, TestCancelled(c) PROVE ReaderInv'
  BY <1>1, <1>3, <1>6 DEF TestCancelled
<1>7. ASSUME NEW c \in CallIds, SetCancelled(c) PROVE ReaderInv'
  <2>1. UNCHANGED <<answering, endpointVars, setting["reader"]>>
    BY <1>1, <1>7 DEF SetCancelled
  <2>2. UNCHANGED result \/ result' = [result EXCEPT ![c] = "cancelled"]
    BY <1>7 DEF SetCancelled
  <2> QED BY <1>1, <2>1, <2>2 DEF ReaderInv, endpointVars, Outcomes
<1>8. CASE ReceiveRequest \/ Handle \/ SkipRequest \/ Terminate \/ TakeActions
           \/ UNCHANGED rdVars
  BY <1>3, <1>8 DEF ReceiveRequest, Handle, SkipRequest, Terminate, TakeActions, rdVars,
                    callVars
<1>9. CASE ReceiveAnswer
  <2> DEFINE a == Arriving(Caller).body
  <2>1. /\ UNCHANGED <<endpointVars, result, setting>> /\ answering = Nobody
        /\ answering' = Answer(a.call, a.result) \/ answering' = Nobody
    BY <1>9 DEF ReceiveAnswer, Finds
  <2>2. setting["reader"] = 0
    BY <1>1, <2>1, InHand DEF ReaderInv, CallTypeOK, Nobody
  <2>3. given[a.call] = <<a.result>>
    <3>1. wire[Endpoint] # <<>> /\ IsPayload(Head(wire[Endpoint]))
          /\ Arriving(Caller) = Head(wire[Endpoint])
      BY <1>9, AnswerArrives
    <3>2. Head(wire[Endpoint]) \in States \union Settled
      BY <3>1, SequenceTypes DEF AnswerInv
    <3>3. Head(wire[Endpoint]) \in Settled
      BY <3>1, <3>2 DEF States, State, IsPayload
    <3> QED BY <3>1, <3>3 DEF Settled
  <2>4. answering' # Nobody => given'[answering'.call] = <<answering'.result>>
    BY <2>1, <2>3 DEF Answer, endpointVars
  <2> QED BY <1>1, <2>1, <2>2, <2>4 DEF ReaderInv, endpointVars
<1>10. CASE TestAnswer
  <2>1. UNCHANGED <<endpointVars, result>> /\ setting["reader"] = 0
    BY <1>10 DEF TestAnswer
  <2>2. answering' = answering \/ answering' = Nobody
    BY <1>10 DEF TestAnswer
  <2>3. \/ setting'["reader"] = 0
        \/ setting'["reader"] = answering.call /\ UNCHANGED answering
    BY <1>1, <1>10 DEF TestAnswer
  <2> QED BY <1>1, <2>1, <2>2, <2>3 DEF ReaderInv, endpointVars
<1>11. CASE SetAnswer
  <2>1. UNCHANGED endpointVars /\ setting["reader"] # 0 /\ setting["reader"] \in CallIds
        /\ answering.call = setting["reader"]
    BY <1>1, <1>11 DEF SetAnswer, ReaderInv, CallTypeOK
  <2>2. answering # Nobody /\ answering.call \in CallIds
    BY <2>1, InHand
  <2>3. \/ UNCHANGED <<answering, result, setting>>
        \/ /\ result' = [result EXCEPT ![answering.call] = answering.result]
           /\ answering' = Nobody /\ setting'["reader"] = 0
    BY <1>1, <1>11 DEF SetAnswer
  <2> QED BY <1>1, <2>1, <2>2, <2>3 DEF ReaderInv, endpointVars
<1> QED BY <1>4, <1>5, <1>6, <1>7, <1>8, <1>9, <1>10, <1>11 DEF CallNext

LEMMA AnswerStep == CallTypeOK /\ CallInv /\ AnswerInv /\ [CallNext]_rdVars => AnswerInv'
<1> SUFFICES ASSUME CallTypeOK, CallInv, AnswerInv, [CallNext]_rdVars PROVE AnswerInv'
  OBVIOUS
<1>1. Endpoint \in Ends /\ Len(direct[Endpoint]) <= 1 /\ Moves(Endpoint)
  BY EveryStepIsOfTheExtension, EveryStepMoves DEF CallTypeOK, ExtTypeOK, Ends, Endpoint
<1>2. /\ wire'[Endpoint] \in Seq(States \union Settled')
      /\ sendQ'[Endpoint] \in Seq(Settled') /\ direct'[Endpoint] \in Seq(Settled')
  BY <1>1, SettledStays, SendsSettled, MovesWithin DEF AnswerInv
<1>3. States' = States
  BY DEF States, State, Nobody
<1> QED BY <1>2, <1>3, ReaderStep DEF AnswerInv, ReaderInv

(***************************************************************************)
(* A request is handled at most once, also when it waited in sendQ, on the *)
(* wire or for the scheduler of the endpoint while the call timed out or   *)
(* an end was bound anew; and a call that was answered has the result that *)
(* the handler gave to it, whichever calls come before and after it.       *)
(***************************************************************************)
THEOREM AnswersReachTheirCalls == CallSpec => []AnswersAreTheirs
<1>1. CallInv /\ AnswerInv => AnswersAreTheirs
  BY DEF CallInv, AnswerInv, AnswersAreTheirs
<1> QED BY <1>1, CallInvInit, CallInvStep, AnswerInit, AnswerStep, CallTypeCorrect, PTL
        DEF CallSpec

-----------------------------------------------------------------------------
(***************************************************************************)
(* Results that stay, and the slot                                         *)
(***************************************************************************)
LEMMA ResultStays ==
    CallTypeOK /\ AnswerInv /\ [CallNext]_rdVars =>
        [\A c \in CallIds :
            result[c] # "none" /\ ~Racing(c) => result'[c] = result[c]]_rdVars
<1> SUFFICES ASSUME CallTypeOK, AnswerInv, CallNext, NEW c \in CallIds,
                    result[c] # "none", ~Racing(c)
             PROVE  result'[c] = result[c]
  OBVIOUS
<1>1. /\ setting["reader"] # c /\ setting["ender"] # c /\ DOMAIN result = CallIds
      /\ setting["reader"] # 0 => setting["reader"] = answering.call
  BY DEF Racing, Threads, CallTypeOK, AnswerInv
<1>2. CASE SetAnswer
  BY <1>1, <1>2 DEF SetAnswer
<1>3. ASSUME NEW d \in CallIds, SetCancelled(d) PROVE result'[c] = result[c]
  BY <1>1, <1>3 DEF SetCancelled
<1>4. ASSUME NEW e \in Ends, HandshakeStep(e) \/ NewBinding(e) \/ EndOfBinding(e)
      PROVE  UNCHANGED result
  BY <1>4 DEF HandshakeStep, NewBinding, EndOfBinding, callVars
<1>5. ASSUME NEW d \in CallIds,
             \/ StartSync(d) \/ Refuse(d) \/ StartTooLate(d) \/ SyncReturns(d)
             \/ Release(d) \/ SyncThrows(d) \/ TestCancelled(d) \/ Forget(d)
      PROVE  UNCHANGED result
  BY <1>5 DEF StartSync, Refuse, Construct, StartTooLate, SyncReturns, Release,
              SyncThrows, TestCancelled, Forget
<1>6. ReceiveRequest \/ Handle \/ SkipRequest \/ ReceiveAnswer \/ TestAnswer
         \/ Terminate \/ TakeActions => UNCHANGED result
  BY DEF ReceiveRequest, Handle, SkipRequest, ReceiveAnswer, TestAnswer, Terminate,
         TakeActions
<1> QED BY <1>2, <1>3, <1>4, <1>5, <1>6 DEF CallNext

(***************************************************************************)
(* A result that is set is not replaced by a late answer or by the end of  *)
(* the lifetime, in whatever order the steps of the caller, the reader     *)
(* thread and the thread that ends the lifetime come, unless one of these  *)
(* two had found it empty before it was set.                               *)
(***************************************************************************)
THEOREM CallsAreSettledOnce == CallSpec => CallsSettleOnce
BY ResultStays, CallInvInit, CallInvStep, AnswerInit, AnswerStep, CallTypeCorrect, PTL
   DEF CallSpec, CallsSettleOnce

LEMMA SlotStep ==
    CallTypeOK /\ AnswerInv /\ SlotHeldByFailure /\ [CallNext]_rdVars => SlotHeldByFailure'
<1> SUFFICES ASSUME CallTypeOK, AnswerInv, SlotHeldByFailure, [CallNext]_rdVars,
                    sync_task_id' # 0
             PROVE  \/ /\ caller' = sync_task_id' /\ task'[sync_task_id'] = "waiting"
                    \/ /\ task'[sync_task_id'] = "thrown"
                       /\ result'[sync_task_id'] # "success"
  BY DEF SlotHeldByFailure
<1> DEFINE s == sync_task_id
           Held == \/ caller' = s /\ task'[s] = "waiting"
                   \/ task'[s] = "thrown" /\ result'[s] # "success"
<1>1. /\ s # 0 => \/ caller = s /\ task[s] = "waiting"
                  \/ task[s] = "thrown" /\ result[s] # "success"
      /\ s \in CallIds \union {0} /\ DOMAIN task = CallIds /\ DOMAIN result = CallIds
      /\ caller \in CallIds \union {0} /\ 0 \notin CallIds
  BY InHand DEF SlotHeldByFailure, CallTypeOK
<1>2. ASSUME UNCHANGED <<callerVars, result>> PROVE Held /\ s = sync_task_id'
  BY <1>1, <1>2 DEF callerVars
<1>3. ASSUME NEW e \in Ends, NewBinding(e) PROVE Held /\ s = sync_task_id'
  BY <1>1, <1>3 DEF NewBinding
<1>4. ASSUME NEW e \in Ends, HandshakeStep(e) \/ EndOfBinding(e)
      PROVE  Held /\ s = sync_task_id'
  BY <1>2, <1>4 DEF HandshakeStep, EndOfBinding, callVars
<1>5. ASSUME NEW c \in CallIds, StartSync(c)
      PROVE  caller' = sync_task_id' /\ task'[sync_task_id'] = "waiting"
  BY <1>1, <1>5 DEF StartSync, Construct
<1>6. ASSUME NEW c \in CallIds, Refuse(c) \/ StartTooLate(c)
      PROVE  Held /\ s = sync_task_id'
  BY <1>1, <1>6 DEF Refuse, Construct, StartTooLate, IsNext
<1>7. ASSUME NEW c \in CallIds, SyncReturns(c) \/ Release(c) \/ SyncThrows(c)
      PROVE  Held /\ s = sync_task_id'
  BY <1>1, <1>7 DEF SyncReturns, Release, SyncThrows, Spins
<1>8. ASSUME NEW c \in CallIds, TestCancelled(c) \/ Forget(c)
      PROVE  Held /\ s = sync_task_id'
  BY <1>2, <1>8 DEF TestCancelled, Forget
<1>9. ASSUME NEW c \in CallIds, SetCancelled(c)
      PROVE  Held /\ s = sync_task_id'
  BY <1>1, <1>9 DEF SetCancelled, callerVars
<1>10. CASE SetAnswer
  <2>1. UNCHANGED callerVars
    BY <1>10 DEF SetAnswer
  <2>2. \/ UNCHANGED result
        \/ /\ ~Freed(answering.call)
           /\ result' = [result EXCEPT ![answering.call] = answering.result]
    BY <1>10 DEF SetAnswer
  <2> QED BY <1>1, <2>1, <2>2 DEF callerVars, Freed
<1>11. CASE ReceiveRequest \/ Handle \/ SkipRequest \/ ReceiveAnswer \/ TestAnswer
            \/ Terminate \/ TakeActions
  BY <1>2, <1>11 DEF ReceiveRequest, Handle, SkipRequest, ReceiveAnswer, TestAnswer,
                     Terminate, TakeActions
<1>12. CASE UNCHANGED rdVars
  BY <1>2, <1>12 DEF rdVars, callVars
<1> HIDE DEF Held, s
<1>13. Held /\ s = sync_task_id'
          => \/ caller' = sync_task_id' /\ task'[sync_task_id'] = "waiting"
             \/ task'[sync_task_id'] = "thrown" /\ result'[sync_task_id'] # "success"
  BY DEF Held
<1> QED BY <1>3, <1>4, <1>5, <1>6, <1>7, <1>8, <1>9, <1>10, <1>11, <1>12, <1>13
        DEF CallNext

(***************************************************************************)
(* The slot for a synchronous call is taken only by the call that waits or *)
(* by one that has failed: a call that returns frees it, whatever arrives  *)
(* or ends meanwhile.                                                      *)
(***************************************************************************)
THEOREM SlotIsHeldByFailure == CallSpec => []SlotHeldByFailure
<1>1. CallInit => SlotHeldByFailure
  BY DEF CallInit, SlotHeldByFailure
<1> QED BY <1>1, SlotStep, CallInvInit, CallInvStep, AnswerInit, AnswerStep,
           CallTypeCorrect, PTL DEF CallSpec
=============================================================================
