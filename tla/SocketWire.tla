----------------------------- MODULE SocketWire -----------------------------
(***************************************************************************)
(* One direction of the RD wire: the sending half of a SocketWire (its     *)
(* send queue, send0 and the acknowledgements it reads), the connections   *)
(* made one after the other, and the receiving half of the SocketWire at   *)
(* the other end (read_package, send_ack, read_and_dispatch_message).      *)
(*                                                                         *)
(* A connection is a TCP connection on the local host: two FIFO pipes.     *)
(* When it breaks, what is under way is lost from some point on, each end  *)
(* reads what did arrive before it sees the end of the stream, and a Send  *)
(* may go on succeeding into nowhere until one fails.                      *)
(***************************************************************************)
EXTENDS ByteBufferAsyncProcessor

CONSTANTS
    MaxConnects,    \* bound: how many connections are made
    LaggingSender   \* may the sender thread rest between add_data and process
                    \* until the next connection is there?

ASSUME SocketWireAssumption ==
    /\ MaxConnects \in Nat
    /\ LaggingSender \in BOOLEAN

VARIABLES
    link,               \* "none", "up", "broken", or "dead" once a Send failed
    attached,           \* the new socket is set and not yet resumed upon
    connects,           \* connections made so far
    pipe,               \* packages under way to the receiver
    acks,               \* acknowledgements under way to the sender
    reading,            \* the receiver is in receiverProc
    max_received_seqn,  \* the receiver's greatest number
    stray,              \* bytes of a repeated package taken for a length; at
                        \* 4 the boundaries of the messages are lost
    last,               \* history: the message dispatched last
    top,                \* history: the greatest message dispatched
    turn,               \* history: flips with every dispatch
    ackLost             \* history: an acknowledgement did not arrive

netVars      == <<link, attached, connects, pipe, acks>>
receiverVars == <<reading, max_received_seqn, stray, last, top, turn>>
wireVars     == <<bufferVars, netVars, receiverVars, ackLost>>

LengthSize == 4     \* sizeof(int32_t), the field `sz' is read into

-----------------------------------------------------------------------------
WireInit ==
    /\ Init
    /\ link = "none" /\ attached = FALSE /\ connects = 0
    /\ pipe = <<>> /\ acks = <<>>
    /\ reading = FALSE /\ max_received_seqn = 0 /\ stray = 0
    /\ last = 0 /\ top = 0 /\ turn = FALSE /\ ackLost = FALSE

(***************************************************************************)
(* The connection                                                          *)
(***************************************************************************)
\* The sender thread is not stuck between two connections.
SenderSettled == LaggingSender \/ sender \in {"check", "exited"}

\* connect and accept, and the new socket set at both ends.  Both have left
\* their receiverProc and shut the old socket down.
Connect ==
    /\ conn = "paused" /\ link = "none" /\ ~reading
    /\ state = "AsyncProcessing"
    /\ connects < MaxConnects
    /\ SenderSettled
    /\ link' = "up" /\ attached' = TRUE /\ connects' = connects + 1
    /\ pipe' = <<>> /\ acks' = <<>>
    /\ reading' = TRUE
    /\ UNCHANGED <<bufferVars, max_received_seqn, stray, last, top, turn,
                   ackLost>>

\* A suffix of what is under way is lost.
Cut ==
    /\ link = "up"
    /\ link' = "broken"
    /\ \E i \in 0 .. Len(pipe), j \in 0 .. Len(acks) :
         /\ pipe' = SubSeq(pipe, 1, i)
         /\ acks' = SubSeq(acks, 1, j)
         /\ ackLost' = (ackLost \/ j < Len(acks))
    /\ UNCHANGED <<bufferVars, attached, connects, receiverVars>>

Break == state # "Terminated" /\ Cut

\* After stop, the terminating wire closes its socket.
CloseSocket == state = "Terminated" /\ Cut

\* The end of set_socket_provider, or the Close of a terminated wire.
Shutdown ==
    /\ conn = "paused" /\ ~attached
    /\ link \in {"broken", "dead"}
    /\ link' = "none"
    /\ UNCHANGED <<bufferVars, attached, connects, pipe, acks,
                   receiverVars, ackLost>>

-----------------------------------------------------------------------------
(***************************************************************************)
(* The sender's end                                                        *)
(***************************************************************************)
\* send0: what becomes of a package given to the socket.
Transmit(sent, seqn, msg) ==
    /\ \/ /\ sent /\ link = "up"
          /\ pipe' = Append(pipe, [seqn |-> seqn, msg |-> msg])
          /\ UNCHANGED link
       \/ sent /\ link = "broken" /\ UNCHANGED <<pipe, link>>
       \/ /\ ~sent /\ link # "up"
          /\ link' = IF link = "broken" THEN "dead" ELSE link
          /\ UNCHANGED pipe
    /\ UNCHANGED <<attached, connects, acks, receiverVars, ackLost>>

WireSendFront(sent) ==
    /\ SendFront(sent)
    /\ Transmit(sent, max_sent_seqn + 1, Head(queue))

(* Mutant: the messages sent again are numbered from one too many. *)
WireResendShifted(sent) ==
    /\ Resend(sent)
    /\ Transmit(sent, ResentSeqn + 1, pending_queue[resent + 1])

WireResend(sent) ==
    /\ Resend(sent)
    /\ Transmit(sent, ResentSeqn, pending_queue[resent + 1])

WireResume ==
    /\ Resume /\ attached
    /\ attached' = FALSE
    /\ UNCHANGED <<link, connects, pipe, acks, receiverVars, ackLost>>

ReceiveAck ==
    /\ acks # <<>>
    /\ Acknowledge(Head(acks))
    /\ acks' = Tail(acks)
    /\ UNCHANGED <<link, attached, connects, pipe, receiverVars, ackLost>>

\* receiverProc ends with the stream.
Disconnected ==
    /\ acks = <<>> /\ link # "up"
    /\ Pause
    /\ UNCHANGED <<netVars, receiverVars, ackLost>>

\* The steps of the send queue that touch no socket.
Offline == UNCHANGED <<netVars, receiverVars, ackLost>>

BufferStep ==
    /\ \/ Put \/ TakeBatch \/ Exit \/ EnterProcess \/ LeaveProcess
       \/ Paused \/ StartReprocess \/ FinishResume \/ Stop \/ CleanUp
    /\ Offline

-----------------------------------------------------------------------------
(***************************************************************************)
(* The receiver's end: read_package                                        *)
(***************************************************************************)
\* send_ack, for every package read; if it fails that is only logged.
SendAck(seqn) ==
    IF link = "up" THEN acks' = Append(acks, seqn) /\ UNCHANGED ackLost
                   ELSE ackLost' = TRUE /\ UNCHANGED acks

(* Mutant: the last number received is let through again. *)
RepeatedStrictly(seqn) == seqn < max_received_seqn /\ seqn # 1

Repeated(seqn) == seqn <= max_received_seqn /\ seqn # 1

Received ==
    /\ reading /\ pipe # <<>>
    /\ pipe' = Tail(pipe)
    /\ SendAck(Head(pipe).seqn)
    /\ UNCHANGED <<bufferVars, link, attached, connects, reading>>

\* read_package answers `true', a length of 1: a byte of the package that
\* should be ignored is read as part of the next message's length.
ReadRepeated ==
    /\ Received /\ Repeated(Head(pipe).seqn)
    /\ stray' = IF stray < LengthSize THEN stray + 1 ELSE stray
    /\ UNCHANGED <<max_received_seqn, last, top, turn>>

ReadAndDispatch ==
    /\ Received /\ ~Repeated(Head(pipe).seqn)
    /\ stray = 0
    /\ max_received_seqn' = Head(pipe).seqn
    /\ last' = Head(pipe).msg
    /\ top' = IF Head(pipe).msg > top THEN Head(pipe).msg ELSE top
    /\ turn' = ~turn
    /\ UNCHANGED stray

\* The length is put together from stray bytes and the first bytes of this
\* package.  What is dispatched from here on is not what was sent.
ReadGarbled ==
    /\ Received /\ ~Repeated(Head(pipe).seqn)
    /\ stray > 0
    /\ max_received_seqn' = Head(pipe).seqn
    /\ stray' = LengthSize
    /\ UNCHANGED <<last, top, turn>>

\* The stream ends; an incomplete length is thrown away.
EndOfStream ==
    /\ reading /\ pipe = <<>> /\ link # "up"
    /\ reading' = FALSE
    /\ stray' = IF stray < LengthSize THEN 0 ELSE stray
    /\ UNCHANGED <<bufferVars, netVars, max_received_seqn, last, top, turn,
                   ackLost>>

-----------------------------------------------------------------------------
WireNext ==
    \/ Connect \/ Break \/ CloseSocket \/ Shutdown
    \/ BufferStep \/ WireResume \/ ReceiveAck \/ Disconnected
    \/ \E sent \in BOOLEAN : WireSendFront(sent) \/ WireResend(sent)
    \/ ReadRepeated \/ ReadAndDispatch \/ ReadGarbled \/ EndOfStream

WireSpec == WireInit /\ [][WireNext]_wireVars

\* Threads run and a stream that has ended is noticed.  Nobody has to put, to
\* connect, to break or to stop.
WireFairness ==
    /\ SF_wireVars(TakeBatch /\ Offline)
    /\ SF_wireVars(EnterProcess /\ Offline)
    /\ SF_wireVars(Exit /\ Offline)
    /\ WF_wireVars(CleanUp /\ Offline)
    /\ WF_wireVars(LeaveProcess /\ Offline)
    /\ WF_wireVars(Paused /\ Offline)
    /\ WF_wireVars(StartReprocess /\ Offline)
    /\ WF_wireVars(FinishResume /\ Offline)
    /\ WF_wireVars(\E sent \in BOOLEAN : WireSendFront(sent))
    /\ WF_wireVars(\E sent \in BOOLEAN : WireResend(sent))
    /\ WF_wireVars(WireResume)
    /\ WF_wireVars(ReceiveAck)
    /\ WF_wireVars(Disconnected)
    /\ WF_wireVars(Shutdown)
    /\ WF_wireVars(CloseSocket)
    /\ WF_wireVars(ReadRepeated \/ ReadAndDispatch \/ ReadGarbled)
    /\ WF_wireVars(EndOfStream)

FairWireSpec == WireSpec /\ WireFairness

-----------------------------------------------------------------------------
(***************************************************************************)
(* Properties                                                              *)
(***************************************************************************)
Packages == [seqn : Nat \ {0}, msg : Nat \ {0}]

\* The type of the variables this module adds.
WireTypeOK ==
    /\ link \in {"none", "up", "broken", "dead"}
    /\ attached \in BOOLEAN /\ connects \in 0 .. MaxConnects
    /\ pipe \in Seq(Packages) /\ acks \in Seq(Nat)
    /\ reading \in BOOLEAN /\ max_received_seqn \in Nat
    /\ stray \in 0 .. LengthSize
    /\ last \in Nat /\ top \in Nat /\ turn \in BOOLEAN
    /\ ackLost \in BOOLEAN

\* A package that was sent carries the rank of its message as its number.
Sent(n) == {[seqn |-> k, msg |-> k] : k \in 1 .. n}

(***************************************************************************)
(* Whatever is under way was sent: a package, also one sent again after a  *)
(* reconnection, carries the number its message had the first time, and    *)
(* the peer acknowledges no number that was not used.                      *)
(***************************************************************************)
UnderWay ==
    /\ pipe \in Seq(Sent(max_sent_seqn))
    /\ acks \in Seq(1 .. max_sent_seqn)

(***************************************************************************)
(* As long as no acknowledgement is lost with a connection the receiver    *)
(* reads every message once and keeps the boundaries of the messages:      *)
(* reprocess repeats only what was not received.                           *)
(***************************************************************************)
CleanWithoutLoss == ~ackLost => stray = 0 /\ last = top

(***************************************************************************)
(* What `Acknowledge {} called, while next seqn MUST BE greater than {}'   *)
(* asks for (ByteBufferAsyncProcessor.cpp): of two acknowledgements that   *)
(* arrive the later has the greater number.                                *)
(***************************************************************************)
AcksIncrease ==
    (conn = "running" /\ acks # <<>>) => Head(acks) > acknowledged_seqn

(***************************************************************************)
(* The wire delivers in order and without gaps, starts over at most from   *)
(* the first message, and forgets only what was dispatched, unless the     *)
(* receiver has lost the boundaries of the messages.                       *)
(***************************************************************************)
Delivery == INSTANCE WireDelivery
              WITH accepted  <- puts,
                   forgotten <- current_seqn - 1,
                   garbled   <- stray = LengthSize

ImplementsDelivery == Delivery!Spec

(***************************************************************************)
(* A message waiting for the sender thread while the wire is connected     *)
(* takes everything before it along, also what an earlier connection       *)
(* failed to send: it is all acknowledged, or the connection breaks or the *)
(* wire is stopped.                                                        *)
(***************************************************************************)
Flushes ==
    (conn = "running" /\ link = "up" /\ data # <<>>)
      ~> (acknowledged_seqn = puts \/ link # "up" \/ state # "AsyncProcessing")
=============================================================================
