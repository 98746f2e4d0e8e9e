------------------------------- MODULE ExtWire -------------------------------
(***************************************************************************)
(* An extension of the RD protocol (ext/RdExtBase.cpp) and its wire        *)
(* (ext/ExtWire.cpp).  The two ends of an extension find each other by a   *)
(* handshake; what is sent before that waits in sendQ.                     *)
(*                                                                         *)
(* At each end one thread binds the extension and sends, and the reader    *)
(* thread of the real wire handles what arrives (the extension is on the   *)
(* synchronous scheduler).  send looks at sendQ under a lock and sends     *)
(* after it has released it; the reader thread sets connected first and    *)
(* then takes the lock, until sendQ is empty.                              *)
(*                                                                         *)
(* The real wire is FIFO (WireDelivery.tla).  What arrives at an end that  *)
(* is not bound waits in the broker for it or is dropped there             *)
(* (MessageBroker.tla).  Every binding is of a new object, as in the       *)
(* program.  The end at the IDE runs the same library.                     *)
(***************************************************************************)
EXTENDS Naturals, Sequences, FiniteSets, SequencesExt

CONSTANTS
    MaxBindings,    \* bound: how often the two ends are bound
    MaxPayloads     \* bound: how many messages an end sends

ASSUME ExtWireAssumption == MaxBindings \in Nat /\ MaxPayloads \in Nat

Ends == {"editor", "rider"}
Other(e) == IF e = "editor" THEN "rider" ELSE "editor"

VARIABLES
    phase,          \* phase[e]: "unbound", "advised", "bound" or "leaving"
    connected,      \* connected[e]
    sendQ,          \* sendQ[e]: messages that wait for the counterpart
    direct,         \* direct[e]: the message that send is about to send
    drain,          \* drain[e]: the reader thread is at the lock of sendQ
                    \* ("waits") or holds it ("locked")
    wire,           \* wire[e]: the messages on their way from e
    bindings,       \* bindings[e]: how often e was bound
    payloads,       \* payloads[e]: how many messages e has sent
    arrived,        \* history: arrived[e], the numbers of the messages
                    \* from e that were handled or dropped
    crossed         \* history: crossed[e]: e was answered, now or as the end
                    \* it was before, by an end that had taken its leave

extVars == <<phase, connected, sendQ, direct, drain, wire, bindings, payloads,
             arrived, crossed>>

Nobody == [call |-> 0, result |-> "none"]

State(state) == [ext |-> state, n |-> 0, body |-> Nobody]
Payload(n, body) == [ext |-> "payload", n |-> n, body |-> body]
IsPayload(message) == message.ext = "payload"

ExtInit ==
    /\ phase = [e \in Ends |-> "unbound"]
    /\ connected = [e \in Ends |-> FALSE]
    /\ sendQ = [e \in Ends |-> <<>>]
    /\ direct = [e \in Ends |-> <<>>]
    /\ drain = [e \in Ends |-> "none"]
    /\ wire = [e \in Ends |-> <<>>]
    /\ bindings = [e \in Ends |-> 0]
    /\ payloads = [e \in Ends |-> 0]
    /\ arrived = [e \in Ends |-> <<>>]
    /\ crossed = [e \in Ends |-> FALSE]

Puts(e, message) == wire' = [wire EXCEPT ![e] = Append(@, message)]

AnswerUnderWay(e) ==
    State("ReceivedCounterpart") \in ToSet(wire[Other(e)])

-----------------------------------------------------------------------------
(***************************************************************************)
(* RdExtBase::init, and the end of its lifetime                            *)
(***************************************************************************)
\* A new object, with a wire of its own, subscribes.
Advise(e) ==
    /\ phase[e] = "unbound" /\ bindings["editor"] + bindings["rider"] < MaxBindings
    /\ drain[e] = "none" /\ direct[e] = <<>>
    /\ phase' = [phase EXCEPT ![e] = "advised"]
    /\ bindings' = [bindings EXCEPT ![e] = @ + 1]
    /\ connected' = [connected EXCEPT ![e] = FALSE]
    /\ sendQ' = [sendQ EXCEPT ![e] = <<>>]
    /\ crossed' = [crossed EXCEPT ![e] = @ /\ AnswerUnderWay(e)]
    /\ UNCHANGED <<direct, drain, wire, payloads, arrived>>

\* "it's critical to advise before 'Ready' is sent"
SendReady(e) ==
    /\ phase[e] = "advised"
    /\ phase' = [phase EXCEPT ![e] = "bound"]
    /\ Puts(e, State("Ready"))
    /\ UNCHANGED <<connected, sendQ, direct, drain, bindings, payloads, arrived, crossed>>

\* The closings run backwards: Disconnected is sent while e is subscribed.
Leave(e) ==
    /\ phase[e] = "bound"
    /\ phase' = [phase EXCEPT ![e] = "leaving"]
    /\ Puts(e, State("Disconnected"))
    /\ UNCHANGED <<connected, sendQ, direct, drain, bindings, payloads, arrived, crossed>>

Unsubscribe(e) ==
    /\ phase[e] = "leaving"
    /\ phase' = [phase EXCEPT ![e] = "unbound"]
    /\ UNCHANGED <<connected, sendQ, direct, drain, wire, bindings, payloads,
                   arrived, crossed>>

-----------------------------------------------------------------------------
(***************************************************************************)
(* RdExtBase::on_wire_received                                             *)
(***************************************************************************)
Arriving(e) == Head(wire[Other(e)])

\* The reader thread of e takes the next message.
Arrives(e) ==
    /\ wire[Other(e)] # <<>> /\ drain[e] = "none"

Received(e, answer) ==
    LET rest == [wire EXCEPT ![Other(e)] = Tail(@)] IN
    wire' = [rest EXCEPT ![e] = @ \o answer]

\* connected.set: nothing happens if it is set already; its listener sends
\* what waits.
SetConnected(e) ==
    /\ connected' = [connected EXCEPT ![e] = TRUE]
    /\ drain' = IF connected[e] THEN drain ELSE [drain EXCEPT ![e] = "waits"]

(* Mutant: Ready is taken for granted. *)
ReceiveReadySilently(e) ==
    /\ Arrives(e) /\ phase[e] # "unbound"
    /\ Arriving(e).ext = "Ready"
    /\ Received(e, <<>>)
    /\ SetConnected(e)
    /\ UNCHANGED <<phase, sendQ, direct, bindings, payloads, arrived, crossed>>

ReceiveReady(e) ==
    /\ Arrives(e) /\ phase[e] # "unbound"
    /\ Arriving(e).ext = "Ready"
    /\ Received(e, <<State("ReceivedCounterpart")>>)
    /\ SetConnected(e)
    /\ crossed' = [crossed EXCEPT ![Other(e)] = @ \/ phase[e] = "leaving"]
    /\ UNCHANGED <<phase, sendQ, direct, bindings, payloads, arrived>>

ReceiveCounterpart(e) ==
    /\ Arrives(e) /\ phase[e] # "unbound"
    /\ Arriving(e).ext = "ReceivedCounterpart"
    /\ Received(e, <<>>)
    /\ SetConnected(e)
    /\ UNCHANGED <<phase, sendQ, direct, bindings, payloads, arrived, crossed>>

(* Mutant: the state stays as it is. *)
ReceiveDisconnectedIgnoring(e) ==
    /\ Arrives(e) /\ phase[e] # "unbound"
    /\ Arriving(e).ext = "Disconnected"
    /\ Received(e, <<>>)
    /\ UNCHANGED <<phase, connected, sendQ, direct, drain, bindings, payloads,
                   arrived, crossed>>

ReceiveDisconnected(e) ==
    /\ Arrives(e) /\ phase[e] # "unbound"
    /\ Arriving(e).ext = "Disconnected"
    /\ Received(e, <<>>)
    /\ connected' = [connected EXCEPT ![e] = FALSE]
    /\ UNCHANGED <<phase, sendQ, direct, drain, bindings, payloads, arrived, crossed>>

\* Nobody is bound: the broker drops it.
Drop(e) ==
    /\ Arrives(e) /\ phase[e] = "unbound"
    /\ Received(e, <<>>)
    /\ arrived' = IF IsPayload(Arriving(e))
                  THEN [arrived EXCEPT ![Other(e)] = Append(@, Arriving(e).n)]
                  ELSE arrived
    /\ UNCHANGED <<phase, connected, sendQ, direct, drain, bindings, payloads, crossed>>

\* A message for a member of the extension; what it does is for others.
ReceivePayload(e) ==
    /\ Arrives(e) /\ phase[e] # "unbound"
    /\ IsPayload(Arriving(e))
    /\ Received(e, <<>>)
    /\ arrived' = [arrived EXCEPT ![Other(e)] = Append(@, Arriving(e).n)]
    /\ UNCHANGED <<phase, connected, sendQ, direct, drain, bindings, payloads, crossed>>

-----------------------------------------------------------------------------
(***************************************************************************)
(* ExtWire                                                                 *)
(***************************************************************************)
DrainLock(e) ==
    /\ drain[e] = "waits"
    /\ drain' = [drain EXCEPT ![e] = "locked"]
    /\ UNCHANGED <<phase, connected, sendQ, direct, wire, bindings, payloads,
                   arrived, crossed>>

DrainOne(e) ==
    /\ drain[e] = "locked" /\ sendQ[e] # <<>>
    /\ Puts(e, Head(sendQ[e]))
    /\ sendQ' = [sendQ EXCEPT ![e] = Tail(@)]
    /\ UNCHANGED <<phase, connected, direct, drain, bindings, payloads, arrived, crossed>>

DrainEnd(e) ==
    /\ drain[e] = "locked" /\ sendQ[e] = <<>>
    /\ drain' = [drain EXCEPT ![e] = "none"]
    /\ UNCHANGED <<phase, connected, sendQ, direct, wire, bindings, payloads,
                   arrived, crossed>>

(* Mutant: a message is queued only while disconnected. *)
QueuesDisconnected(e) == ~connected[e]

Queues(e) == sendQ[e] # <<>> \/ ~connected[e]

\* send, up to the release of the lock.
Send(e, body) ==
    LET message == Payload(payloads[e] + 1, body) IN
    /\ phase[e] = "bound" /\ payloads[e] < MaxPayloads
    /\ direct[e] = <<>> /\ drain[e] # "locked"
    /\ payloads' = [payloads EXCEPT ![e] = @ + 1]
    /\ IF Queues(e)
       THEN sendQ' = [sendQ EXCEPT ![e] = Append(@, message)] /\ UNCHANGED direct
       ELSE direct' = [direct EXCEPT ![e] = <<message>>] /\ UNCHANGED sendQ
    /\ UNCHANGED <<phase, connected, drain, wire, bindings, arrived, crossed>>

SendDirect(e) ==
    /\ direct[e] # <<>>
    /\ Puts(e, Head(direct[e]))
    /\ direct' = [direct EXCEPT ![e] = <<>>]
    /\ UNCHANGED <<phase, connected, sendQ, drain, bindings, payloads, arrived, crossed>>

-----------------------------------------------------------------------------
\* What an end does of itself, once bound.
Handshake(e) ==
    \/ ReceiveReady(e) \/ ReceiveCounterpart(e) \/ ReceiveDisconnected(e) \/ Drop(e)
    \/ DrainLock(e) \/ DrainOne(e) \/ DrainEnd(e) \/ SendDirect(e)
    \/ SendReady(e) \/ Unsubscribe(e)

\* The reader threads read, a handshake and a binding that have begun go on.
ExtGoesOn(e) == Handshake(e) \/ ReceivePayload(e)

\* Whoever binds both ends and sends at them: RdCall.tla is one such user.
AnyUserNext ==
    \E e \in Ends : ExtGoesOn(e) \/ Advise(e) \/ Leave(e) \/ Send(e, Nobody)

-----------------------------------------------------------------------------
(***************************************************************************)
(* Properties                                                              *)
(***************************************************************************)
States == {State("Ready"), State("ReceivedCounterpart"), State("Disconnected")}
PayloadsOf(bodies) == [ext : {"payload"}, n : Nat, body : bodies]

\* The type of every variable; bodies[e] is what e sends.
ExtTypeOK(bodies) ==
    /\ phase \in [Ends -> {"unbound", "advised", "bound", "leaving"}]
    /\ connected \in [Ends -> BOOLEAN] /\ crossed \in [Ends -> BOOLEAN]
    /\ drain \in [Ends -> {"none", "waits", "locked"}]
    /\ bindings \in [Ends -> Nat] /\ payloads \in [Ends -> Nat]
    /\ arrived \in [Ends -> Seq(Nat)]
    /\ DOMAIN wire = Ends /\ DOMAIN sendQ = Ends /\ DOMAIN direct = Ends
    /\ \A e \in Ends : /\ wire[e] \in Seq(States \union PayloadsOf(bodies[e]))
                       /\ sendQ[e] \in Seq(PayloadsOf(bodies[e]))
                       /\ direct[e] \in Seq(PayloadsOf(bodies[e])) /\ Len(direct[e]) <= 1

(***************************************************************************)
(* The messages of one end arrive in the order in which they were sent,    *)
(* whether they waited in sendQ or not, each once: what has arrived, and   *)
(* what is on its way after it, is in ascending order.                     *)
(***************************************************************************)
PayloadsInOrder ==
    \A e \in Ends :
        /\ \A i, j \in DOMAIN arrived[e] : i < j => arrived[e][i] < arrived[e][j]
        /\ \A j \in DOMAIN wire[e] : IsPayload(wire[e][j]) =>
              /\ \A i \in DOMAIN arrived[e] : arrived[e][i] < wire[e][j].n
              /\ \A i \in 1 .. j - 1 :
                    IsPayload(wire[e][i]) => wire[e][i].n < wire[e][j].n

(***************************************************************************)
(* An end that is bound alone, with nothing under way, knows that it is    *)
(* alone.  The exception is an end that was answered by a counterpart that *)
(* had already said Disconnected: it waits for nothing, and is not told.   *)
(***************************************************************************)
LeaveIsNoticed ==
    \A e \in Ends :
        (phase[e] = "bound" /\ phase[Other(e)] = "unbound"
            /\ wire = [f \in Ends |-> <<>>] /\ ~crossed[e])
          => ~connected[e]

(***************************************************************************)
(* Two ends that are bound get connected, whoever was first and whatever   *)
(* was dropped before, and send what has waited.                           *)
(***************************************************************************)
BoundGetConnected ==
    (\A e \in Ends : phase[e] = "bound")
      ~> \/ \A e \in Ends : connected[e] /\ sendQ[e] = <<>>
         \/ \E e \in Ends : phase[e] # "bound"
=============================================================================
