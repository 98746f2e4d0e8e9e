----------------------------- MODULE WireDuplex -----------------------------
(***************************************************************************)
(* Both directions of one connection of the wire (wire/SocketWire.cpp),    *)
(* over sockets that hold only so much: who waits for whom.                *)
(*                                                                         *)
(* At each end three threads send: the sender thread of the queue, the     *)
(* connection thread, which first sends the pending packages again and     *)
(* then receives and acknowledges, and the heartbeat.  Each holds          *)
(* socket_send_lock from the first byte of what it sends to the last, and  *)
(* Send blocks while the socket is full.  The connection thread reads      *)
(* nothing while it sends.                                                 *)
(*                                                                         *)
(* What is sent is a number of units, each part of a package, the end of   *)
(* one, an acknowledgement or a ping.  What becomes of the numbers of      *)
(* packages and of a connection that breaks is SocketWire.tla's.           *)
(***************************************************************************)
EXTENDS Naturals, Sequences

CONSTANTS
    Capacity,       \* how many units fit into the sockets of one direction
    PackageSize,    \* the units of a package, its header included
    MaxPackages,    \* bound: the packages an end has to send
    MaxPings        \* bound: the pings of an end

ASSUME WireDuplexAssumption ==
    /\ Capacity \in Nat \ {0} /\ PackageSize \in Nat \ {0}
    /\ MaxPackages \in Nat /\ MaxPings \in Nat

Sides == {"client", "server"}
Opposite(s) == CHOOSE t \in Sides : t # s

VARIABLES
    pending,        \* pending[s]: packages to be sent again on resume
    unsent,         \* unsent[s]: packages that wait for the sender thread
    receiving,      \* receiving[s]: has the connection thread resumed?
    toAcknowledge,  \* toAcknowledge[s]: a package is read and not acknowledged
    socket_send_lock, \* socket_send_lock[s]: the thread that holds it
    rest,           \* rest[s]: the units it has still to send
    flow,           \* flow[s]: units that s has sent and the other not read
    packages,       \* packages[s]: how many s had to send
    pings,          \* pings[s]: how many s has begun
    dispatched      \* dispatched[s]: packages of the other end dispatched at s

duplexVars == <<pending, unsent, receiving, toAcknowledge, socket_send_lock, rest,
                flow, packages, pings, dispatched>>

\* The connection is made; some packages were not acknowledged on the last.
DuplexInit ==
    /\ pending \in [Sides -> 0 .. MaxPackages]
    /\ packages = pending
    /\ unsent = [s \in Sides |-> 0]
    /\ receiving = [s \in Sides |-> FALSE]
    /\ toAcknowledge = [s \in Sides |-> FALSE]
    /\ socket_send_lock = [s \in Sides |-> "free"]
    /\ rest = [s \in Sides |-> 0]
    /\ flow = [s \in Sides |-> <<>>]
    /\ pings = [s \in Sides |-> 0]
    /\ dispatched = [s \in Sides |-> 0]

-----------------------------------------------------------------------------
(***************************************************************************)
(* Sending.  A thread takes the lock, sends unit by unit while there is    *)
(* room, and releases the lock with the last one.                          *)
(***************************************************************************)
TakeLock(s, thread, units) ==
    /\ socket_send_lock[s] = "free"
    /\ socket_send_lock' = [socket_send_lock EXCEPT ![s] = thread]
    /\ rest' = [rest EXCEPT ![s] = units]
    /\ UNCHANGED <<receiving, toAcknowledge, flow, packages, dispatched>>

\* reprocess: the pending packages one by one.
SendAgain(s) ==
    /\ ~receiving[s] /\ pending[s] > 0
    /\ TakeLock(s, "connection", PackageSize)
    /\ pending' = [pending EXCEPT ![s] = @ - 1]
    /\ UNCHANGED <<unsent, pings>>

\* process: interrupt_balance keeps the thread out until resume is over.
SendNext(s) ==
    /\ receiving[s] /\ unsent[s] > 0
    /\ TakeLock(s, "sender", PackageSize)
    /\ unsent' = [unsent EXCEPT ![s] = @ - 1]
    /\ UNCHANGED <<pending, pings>>

SendAck(s) ==
    /\ toAcknowledge[s]
    /\ TakeLock(s, "receiver", 1)
    /\ UNCHANGED <<pending, unsent, pings>>

Ping(s) ==
    /\ pings[s] < MaxPings
    /\ TakeLock(s, "heartbeat", 1)
    /\ pings' = [pings EXCEPT ![s] = @ + 1]
    /\ UNCHANGED <<pending, unsent>>

NextUnit(s) ==
    CASE socket_send_lock[s] = "heartbeat" -> "ping"
      [] socket_send_lock[s] = "receiver"  -> "ack"
      [] OTHER -> IF rest[s] = 1 THEN "end" ELSE "part"

(* Mutant: ping has an early return that leaves the lock locked. *)
ReleasedButByPing(s) == rest[s] = 1 /\ socket_send_lock[s] # "heartbeat"

\* The last unit is sent: lock_guard releases the lock.
Released(s) == rest[s] = 1

\* send of the socket, which blocks while there is no room.  A package that
\* is acknowledged is dispatched.
Transfer(s) ==
    /\ rest[s] > 0
    /\ Len(flow[s]) < Capacity
    /\ flow' = [flow EXCEPT ![s] = Append(@, NextUnit(s))]
    /\ rest' = [rest EXCEPT ![s] = @ - 1]
    /\ socket_send_lock' = [socket_send_lock EXCEPT ![s] =
                               IF Released(s) THEN "free" ELSE @]
    /\ IF NextUnit(s) = "ack"
       THEN /\ toAcknowledge' = [toAcknowledge EXCEPT ![s] = FALSE]
            /\ dispatched' = [dispatched EXCEPT ![s] = @ + 1]
       ELSE UNCHANGED <<toAcknowledge, dispatched>>
    /\ UNCHANGED <<pending, unsent, receiving, packages, pings>>

-----------------------------------------------------------------------------
(***************************************************************************)
(* The connection thread, and who puts.                                    *)
(***************************************************************************)
\* resume is over, receiverProc begins.
Resume(s) ==
    /\ ~receiving[s]
    /\ pending[s] = 0 /\ socket_send_lock[s] # "connection"
    /\ receiving' = [receiving EXCEPT ![s] = TRUE]
    /\ UNCHANGED <<pending, unsent, toAcknowledge, socket_send_lock, rest, flow,
                   packages, pings, dispatched>>

\* Receive: acknowledgements and pings are done with by read_header.
Receive(s) ==
    /\ receiving[s] /\ ~toAcknowledge[s]
    /\ flow[Opposite(s)] # <<>>
    /\ flow' = [flow EXCEPT ![Opposite(s)] = Tail(@)]
    /\ toAcknowledge' = [toAcknowledge EXCEPT ![s] = (Head(flow[Opposite(s)]) = "end")]
    /\ UNCHANGED <<pending, unsent, receiving, socket_send_lock, rest, packages, pings,
                   dispatched>>

\* put waits for the lock of the queue, which resume holds while it sends.
PutPackage(s) ==
    /\ receiving[s]
    /\ packages[s] < MaxPackages
    /\ packages' = [packages EXCEPT ![s] = @ + 1]
    /\ unsent' = [unsent EXCEPT ![s] = @ + 1]
    /\ UNCHANGED <<pending, receiving, toAcknowledge, socket_send_lock, rest, flow,
                   pings, dispatched>>

-----------------------------------------------------------------------------
Threads(s) ==
    \/ SendAgain(s) \/ SendNext(s) \/ SendAck(s)
    \/ Transfer(s)
    \/ Resume(s) \/ Receive(s)

DuplexNext == \E s \in Sides : Threads(s) \/ Ping(s) \/ PutPackage(s)

-----------------------------------------------------------------------------
(***************************************************************************)
(* Properties                                                              *)
(***************************************************************************)
\* All that s sends while the connection lasts.
Volume(s) == packages[s] * PackageSize + packages[Opposite(s)] + pings[s]

DuplexTypeOK ==
    /\ pending \in [Sides -> 0 .. MaxPackages]
    /\ unsent \in [Sides -> 0 .. MaxPackages]
    /\ receiving \in [Sides -> BOOLEAN] /\ toAcknowledge \in [Sides -> BOOLEAN]
    /\ \A s \in Sides :
         /\ socket_send_lock[s] \in {"free", "connection", "sender", "receiver", "heartbeat"}
         /\ socket_send_lock[s] = "free" <=> rest[s] = 0
         /\ rest[s] \in 0 .. PackageSize
         /\ flow[s] \in Seq({"part", "end", "ack", "ping"}) /\ Len(flow[s]) <= Capacity
         /\ dispatched[s] \in 0 .. packages[Opposite(s)]
    /\ packages \in [Sides -> 0 .. MaxPackages] /\ pings \in [Sides -> 0 .. MaxPings]

(***************************************************************************)
(* The threads of the two ends wait for each other only when both send     *)
(* more than the sockets of a direction hold: as long as one of them does  *)
(* not, every package is dispatched.  Beyond that they may wait for ever,  *)
(* and nothing in the code times out.                                      *)
(***************************************************************************)
ArrivesUnlessBothFlood ==
    \A s \in Sides :
        packages[s] > dispatched[Opposite(s)]
          ~> \/ packages[s] = dispatched[Opposite(s)]
             \/ \A t \in Sides : Volume(t) > Capacity
=============================================================================
