--------------------------- MODULE SocketWireProofs ---------------------------
(***************************************************************************)
(* Theorems about the send queue, for every number of messages, and about  *)
(* the wire, for every number of messages and connections and also for a   *)
(* sender thread that lags behind.                                         *)
(***************************************************************************)
EXTENDS SocketWire, SequenceTheorems, TLAPS

(***************************************************************************)
(* Sequences of consecutive numbers                                        *)
(***************************************************************************)

\* A consecutive sequence is continued by the number that follows its last.
LEMMA AppendConsecutive ==
    ASSUME NEW s \in Seq(Nat), NEW first \in Nat, Consecutive(s, first)
    PROVE  /\ Append(s, first + Len(s)) \in Seq(Nat)
           /\ Consecutive(Append(s, first + Len(s)), first)
           /\ Len(Append(s, first + Len(s))) = Len(s) + 1
BY DEF Consecutive

\* What is left of a consecutive sequence starts with the next number.
LEMMA TailConsecutive ==
    ASSUME NEW s \in Seq(Nat), NEW first \in Nat, Consecutive(s, first),
           s # <<>>
    PROVE  /\ Head(s) = first
           /\ Tail(s) \in Seq(Nat)
           /\ Consecutive(Tail(s), first + 1)
           /\ Len(Tail(s)) = Len(s) - 1
BY HeadTailProperties DEF Consecutive

\* Two consecutive sequences, one where the other ends, make one.
LEMMA ConcatConsecutive ==
    ASSUME NEW s \in Seq(Nat), NEW t \in Seq(Nat), NEW first \in Nat,
           Consecutive(s, first), Consecutive(t, first + Len(s))
    PROVE  /\ s \o t \in Seq(Nat)
           /\ Consecutive(s \o t, first)
           /\ Len(s \o t) = Len(s) + Len(t)
<1>1. /\ s \o t \in Seq(Nat)
      /\ Len(s \o t) = Len(s) + Len(t)
      /\ \A i \in 1 .. Len(s) + Len(t) :
           (s \o t)[i] = IF i <= Len(s) THEN s[i] ELSE t[i - Len(s)]
  BY ConcatProperties
<1>2. ASSUME NEW i \in 1 .. Len(s) + Len(t)
      PROVE  (s \o t)[i] = first + (i - 1)
  <2>1. CASE i <= Len(s)
    BY <1>1, <2>1 DEF Consecutive
  <2>2. CASE i > Len(s)
    BY <1>1, <2>2 DEF Consecutive
  <2>3. QED
    BY <2>1, <2>2
<1>3. QED
  BY <1>1, <1>2 DEF Consecutive

\* Popping n numbers moves the first one n further.
LEMMA DropConsecutive ==
    ASSUME NEW s \in Seq(Nat), NEW first \in Nat, Consecutive(s, first),
           NEW n \in 0 .. Len(s)
    PROVE  /\ SubSeq(s, n + 1, Len(s)) \in Seq(Nat)
           /\ Consecutive(SubSeq(s, n + 1, Len(s)), first + n)
           /\ Len(SubSeq(s, n + 1, Len(s))) = Len(s) - n
<1>1. \A i \in n + 1 .. Len(s) : s[i] \in Nat
  OBVIOUS
<1>2. /\ SubSeq(s, n + 1, Len(s)) \in Seq(Nat)
      /\ Len(SubSeq(s, n + 1, Len(s))) = Len(s) - n
      /\ \A i \in 1 .. Len(s) - n : SubSeq(s, n + 1, Len(s))[i] = s[n + i]
  BY <1>1, SubSeqProperties
<1>3. QED
  BY <1>2 DEF Consecutive

-----------------------------------------------------------------------------
(***************************************************************************)
(* The inductive invariant.  NumberedInOrder needs to know that what is    *)
(* acknowledged has been sent, or reprocess would move current_seqn past   *)
(* max_sent_seqn; and the type of interrupt_balance that the connection's  *)
(* thread alternates pauses and resumes.                                   *)
(***************************************************************************)
AcknowledgedIsSent == acknowledged_seqn <= max_sent_seqn

PausesAlternate == interrupt_balance = IF conn = "running" THEN 0 ELSE 1

BufferInv ==
    /\ TypeOK
    /\ NumberedInOrder
    /\ AcknowledgedIsSent
    /\ PausesAlternate
    /\ SendersTakeTurns

LEMMA BufferInit == Init => BufferInv
BY MaxPutsAssumption
   DEF Init, BufferInv, TypeOK, NumberedInOrder, Consecutive, AcknowledgedIsSent,
       PausesAlternate, SendersTakeTurns, StateKind, SenderPoints, ConnPoints

\* A step that only moves the threads, and not both into their sends.
LEMMA ThreadStep ==
    ASSUME BufferInv, UNCHANGED queueVars, UNCHANGED acknowledged_seqn,
           state' \in StateKind, sender' \in SenderPoints, conn' \in ConnPoints,
           resent' \in Nat, resent' <= Len(pending_queue),
           PausesAlternate', SendersTakeTurns'
    PROVE  BufferInv'
BY DEF BufferInv, TypeOK, NumberedInOrder, Consecutive, AcknowledgedIsSent,
       PausesAlternate, queueVars

LEMMA PutStep == BufferInv /\ Put => BufferInv'
<1>. SUFFICES ASSUME BufferInv, Put PROVE BufferInv'
  OBVIOUS
<1>. USE MaxPutsAssumption DEF BufferInv, TypeOK
<1>. DEFINE next == max_sent_seqn + Len(queue) + 1
<1>1. next \in Nat /\ puts + 1 = next + Len(data)
  BY DEF NumberedInOrder
<1>2. /\ data' \in Seq(Nat) /\ Consecutive(data', next)
      /\ Len(data') = Len(data) + 1
  <2>1. Consecutive(data, next)
    BY DEF NumberedInOrder
  <2>. HIDE DEF next
  <2>2. QED
    BY <1>1, <2>1, AppendConsecutive DEF Put
<1>3. /\ UNCHANGED <<queue, pending_queue, max_sent_seqn, current_seqn,
                     acknowledged_seqn, threadVars>>
      /\ puts' = puts + 1 /\ puts < MaxPuts
  BY DEF Put
<1>4. NumberedInOrder'
  BY <1>1, <1>2, <1>3 DEF NumberedInOrder, Consecutive
<1>5. QED
  BY <1>2, <1>3, <1>4 DEF threadVars, AcknowledgedIsSent, PausesAlternate,
                    SendersTakeTurns

LEMMA TakeBatchStep == BufferInv /\ TakeBatch => BufferInv'
<1>. SUFFICES ASSUME BufferInv, TakeBatch PROVE BufferInv'
  OBVIOUS
<1>. USE DEF BufferInv, TypeOK
<1>1. /\ queue' \in Seq(Nat) /\ Consecutive(queue', max_sent_seqn + 1)
      /\ Len(queue') = Len(queue) + Len(data)
  <2>1. /\ Consecutive(queue, max_sent_seqn + 1)
        /\ Consecutive(data, (max_sent_seqn + 1) + Len(queue))
        /\ max_sent_seqn + 1 \in Nat
    BY DEF NumberedInOrder
  <2>2. QED
    BY <2>1, ConcatConsecutive DEF TakeBatch
<1>2. data' = <<>> /\ data' \in Seq(Nat) /\ Len(data') = 0
  BY DEF TakeBatch
<1>3. NumberedInOrder'
  BY <1>1, <1>2 DEF TakeBatch, NumberedInOrder, Consecutive
<1>4. QED
  BY <1>1, <1>2, <1>3 DEF TakeBatch, AcknowledgedIsSent, PausesAlternate,
                          SendersTakeTurns, SenderPoints

LEMMA SendFrontStep ==
    ASSUME BufferInv, NEW sent \in BOOLEAN, SendFront(sent)
    PROVE  BufferInv'
<1>. USE DEF BufferInv, TypeOK
<1>1. CASE sent
  <2>1. /\ Consecutive(queue, max_sent_seqn + 1) /\ queue # <<>>
        /\ max_sent_seqn + 1 \in Nat
        /\ Consecutive(pending_queue, current_seqn)
        /\ current_seqn + Len(pending_queue) = max_sent_seqn + 1
    BY DEF NumberedInOrder, SendFront
  <2>2. /\ Head(queue) = max_sent_seqn + 1
        /\ queue' \in Seq(Nat)
        /\ Consecutive(queue', max_sent_seqn + 1 + 1)
        /\ Len(queue') = Len(queue) - 1
    BY <1>1, <2>1, TailConsecutive DEF SendFront
  <2>3. pending_queue' = Append(pending_queue, current_seqn + Len(pending_queue))
    BY <1>1, <2>1, <2>2 DEF SendFront
  <2>4. /\ pending_queue' \in Seq(Nat)
        /\ Consecutive(pending_queue', current_seqn)
        /\ Len(pending_queue') = Len(pending_queue) + 1
    BY <2>1, <2>3, AppendConsecutive
  <2>. DEFINE next == max_sent_seqn + Len(queue) + 1
  <2>5. /\ max_sent_seqn' = max_sent_seqn + 1
        /\ UNCHANGED <<data, current_seqn, puts>>
    BY <1>1 DEF SendFront
  <2>6. /\ Len(queue) \in Nat /\ Len(data) \in Nat /\ Len(pending_queue) \in Nat
        /\ max_sent_seqn \in Nat /\ current_seqn \in Nat
        /\ max_sent_seqn + Len(queue) + Len(data) = puts
    BY DEF NumberedInOrder
  <2>7. /\ max_sent_seqn' + Len(queue') + 1 = next
        /\ current_seqn' + Len(pending_queue') = max_sent_seqn' + 1
        /\ max_sent_seqn' + Len(queue') + Len(data') = puts'
    BY ONLY <2>5, <2>6, <2>1, <2>2, <2>4
  <2>8. Consecutive(data, next)
    BY DEF NumberedInOrder
  <2>. HIDE DEF next
  <2>9. /\ Consecutive(data', max_sent_seqn' + Len(queue') + 1)
        /\ Consecutive(queue', max_sent_seqn' + 1)
        /\ Consecutive(pending_queue', current_seqn')
    BY ONLY <2>5, <2>2, <2>4, <2>7, <2>8, Zenon
  <2>10. NumberedInOrder'
    BY <2>7, <2>9 DEF NumberedInOrder
  <2>11. QED
    BY <1>1, <2>2, <2>4, <2>10 DEF SendFront, AcknowledgedIsSent,
                                  PausesAlternate, SendersTakeTurns
<1>2. CASE ~sent
  BY <1>2, ThreadStep DEF SendFront, queueVars, SenderPoints, PausesAlternate,
                          SendersTakeTurns
<1>3. QED
  BY <1>1, <1>2

LEMMA StartReprocessStep == BufferInv /\ StartReprocess => BufferInv'
<1>. SUFFICES ASSUME BufferInv, StartReprocess PROVE BufferInv'
  OBVIOUS
<1>. USE DEF BufferInv, TypeOK
<1>1. /\ pending_queue' \in Seq(Nat) /\ current_seqn' \in Nat \ {0}
      /\ Consecutive(pending_queue', current_seqn')
      /\ current_seqn' + Len(pending_queue') = current_seqn + Len(pending_queue)
  <2>1. CASE current_seqn <= acknowledged_seqn
    <3>. DEFINE n == acknowledged_seqn - current_seqn + 1
    <3>1. n \in 0 .. Len(pending_queue) /\ n + 1 = acknowledged_seqn - current_seqn + 2
      BY <2>1 DEF AcknowledgedIsSent, NumberedInOrder
    <3>2. Consecutive(pending_queue, current_seqn)
      BY DEF NumberedInOrder
    <3>3. pending_queue' = SubSeq(pending_queue, n + 1, Len(pending_queue))
      BY <2>1, <3>1 DEF StartReprocess, DropAcknowledged
    <3>4. current_seqn' = current_seqn + n
      BY <2>1 DEF StartReprocess, DropAcknowledged
    <3>. HIDE DEF n
    <3>5. /\ SubSeq(pending_queue, n + 1, Len(pending_queue)) \in Seq(Nat)
          /\ Consecutive(SubSeq(pending_queue, n + 1, Len(pending_queue)),
                         current_seqn + n)
          /\ Len(SubSeq(pending_queue, n + 1, Len(pending_queue)))
               = Len(pending_queue) - n
      BY <3>1, <3>2, DropConsecutive
    <3>6. Consecutive(pending_queue', current_seqn')
      BY ONLY <3>3, <3>4, <3>5, Zenon
    <3>7. pending_queue' \in Seq(Nat) /\ Len(pending_queue') = Len(pending_queue) - n
      BY ONLY <3>3, <3>5
    <3>8. QED
      BY <3>1, <3>4, <3>6, <3>7
  <2>2. CASE ~(current_seqn <= acknowledged_seqn)
    BY <2>2 DEF StartReprocess, DropAcknowledged, NumberedInOrder
  <2>3. QED
    BY <2>1, <2>2
<1>2. NumberedInOrder'
  BY <1>1 DEF StartReprocess, NumberedInOrder, Consecutive
<1>3. QED
  BY <1>1, <1>2 DEF StartReprocess, AcknowledgedIsSent, PausesAlternate,
                    SendersTakeTurns, ConnPoints

LEMMA AcknowledgeStep ==
    ASSUME BufferInv, NEW seqn \in 1 .. max_sent_seqn, Acknowledge(seqn)
    PROVE  BufferInv'
BY DEF BufferInv, TypeOK, Acknowledge, queueVars, threadVars, NumberedInOrder,
       Consecutive, AcknowledgedIsSent, PausesAlternate, SendersTakeTurns

LEMMA ResendStep ==
    ASSUME BufferInv, NEW sent \in BOOLEAN, Resend(sent)
    PROVE  BufferInv'
<1>. USE DEF BufferInv, TypeOK
<1>1. CASE sent
  BY <1>1, ThreadStep DEF Resend, PausesAlternate, SendersTakeTurns
<1>2. CASE ~sent
  BY <1>2, ThreadStep DEF Resend, Resumed, PausesAlternate, SendersTakeTurns,
                          ConnPoints
<1>3. QED
  BY <1>1, <1>2

LEMMA BufferStepKeepsInv == BufferInv /\ [Next]_bufferVars => BufferInv'
<1>. SUFFICES ASSUME BufferInv, [Next]_bufferVars PROVE BufferInv'
  OBVIOUS
<1>1. CASE Put
  BY <1>1, PutStep
<1>2. CASE TakeBatch
  BY <1>2, TakeBatchStep
<1>3. CASE Exit \/ EnterProcess \/ LeaveProcess
  BY <1>3, ThreadStep
     DEF Exit, EnterProcess, LeaveProcess, BufferInv, TypeOK, SenderPoints,
         PausesAlternate, SendersTakeTurns
<1>4. ASSUME NEW sent \in BOOLEAN, SendFront(sent) PROVE BufferInv'
  BY <1>4, SendFrontStep
<1>5. ASSUME NEW sent \in BOOLEAN, Resend(sent) PROVE BufferInv'
  BY <1>5, ResendStep
<1>6. CASE Pause \/ Paused \/ Resume \/ FinishResume
  BY <1>6, ThreadStep
     DEF Pause, Paused, Resume, FinishResume, Resumed, BufferInv, TypeOK,
         ConnPoints, PausesAlternate, SendersTakeTurns
<1>7. CASE StartReprocess
  BY <1>7, StartReprocessStep
<1>8. ASSUME NEW seqn \in 1 .. max_sent_seqn, Acknowledge(seqn) PROVE BufferInv'
  BY <1>8, AcknowledgeStep
<1>9. CASE Stop \/ CleanUp
  BY <1>9, ThreadStep DEF Stop, CleanUp, BufferInv, TypeOK, StateKind,
                          PausesAlternate, SendersTakeTurns
<1>10. CASE UNCHANGED bufferVars
  BY <1>10 DEF bufferVars, queueVars, threadVars, BufferInv, TypeOK, NumberedInOrder,
              Consecutive, AcknowledgedIsSent, PausesAlternate, SendersTakeTurns
<1>11. QED
  BY <1>1, <1>2, <1>3, <1>4, <1>5, <1>6, <1>7, <1>8, <1>9, <1>10 DEF Next

THEOREM BufferInvariant == Spec => []BufferInv
BY BufferInit, BufferStepKeepsInv, PTL DEF Spec

-----------------------------------------------------------------------------
\* Every variable of the send queue keeps its type, and at most one pause is
\* outstanding.
THEOREM BufferTypeCorrect == Spec => []TypeOK
BY BufferInvariant, PTL DEF BufferInv

(***************************************************************************)
(* However sends fail, connections come and go and threads interleave, no  *)
(* message is lost, duplicated or overtaken in the send queue, and each    *)
(* keeps its number.                                                       *)
(***************************************************************************)
THEOREM NothingLostInQueues == Spec => []NumberedInOrder
BY BufferInvariant, PTL DEF BufferInv

\* process and reprocess never send at the same time.
THEOREM SendsExclude == Spec => []SendersTakeTurns
BY BufferInvariant, PTL DEF BufferInv

-----------------------------------------------------------------------------
(***************************************************************************)
(* The inductive invariant: that of the send queue, whose assumption that  *)
(* only what was sent is acknowledged is what UnderWay provides.           *)
(***************************************************************************)
WireInv == BufferInv /\ WireTypeOK /\ UnderWay

LEMMA WireInvInit == WireInit => WireInv
<1>. SUFFICES ASSUME WireInit PROVE WireInv
  OBVIOUS
<1>1. BufferInv
  BY BufferInit DEF WireInit
<1>2. WireTypeOK /\ UnderWay
  <2>1. /\ <<>> \in Seq(Sent(max_sent_seqn)) /\ <<>> \in Seq(1 .. max_sent_seqn)
        /\ <<>> \in Seq(Packages) /\ <<>> \in Seq(Nat)
    OBVIOUS
  <2>2. pipe = <<>> /\ acks = <<>>
    BY DEF WireInit
  <2>3. UnderWay
    BY <2>1, <2>2 DEF UnderWay
  <2>4. /\ attached \in BOOLEAN /\ reading \in BOOLEAN /\ ackLost \in BOOLEAN
        /\ turn \in BOOLEAN
    BY DEF WireInit
  <2>5. /\ connects \in 0 .. MaxConnects /\ max_received_seqn \in Nat
        /\ stray \in 0 .. LengthSize /\ last \in Nat /\ top \in Nat
        /\ link = "none"
    BY SocketWireAssumption DEF WireInit, LengthSize
  <2>6. WireTypeOK
    BY <2>1, <2>2, <2>4, <2>5 DEF WireTypeOK
  <2>7. QED
    BY <2>3, <2>6
<1>3. QED
  BY <1>1, <1>2 DEF WireInv

\* What was sent stays sent.
LEMMA SentGrows ==
    ASSUME NEW m \in Nat, NEW n \in Nat, m <= n
    PROVE  Sent(m) \subseteq Sent(n) /\ 1 .. m \subseteq 1 .. n
           /\ Sent(m) \subseteq Packages
BY DEF Sent, Packages

\* Cutting a suffix off a pipe leaves a pipe.
LEMMA CutSeq ==
    ASSUME NEW S, NEW s \in Seq(S), NEW n \in 0 .. Len(s)
    PROVE  SubSeq(s, 1, n) \in Seq(S)
<1>1. \A i \in 1 .. n : s[i] \in S
  OBVIOUS
<1>2. QED
  BY <1>1, SubSeqProperties

\* Every step of the wire is a step of the send queue or leaves it alone.
LEMMA WireStepIsBufferStep ==
    ASSUME WireInv, [WireNext]_wireVars
    PROVE  [Next]_bufferVars
<1>1. CASE Connect \/ Break \/ CloseSocket \/ Shutdown
  BY <1>1 DEF Connect, Break, CloseSocket, Cut, Shutdown
<1>2. CASE BufferStep \/ WireResume \/ Disconnected
  BY <1>2 DEF BufferStep, WireResume, Disconnected, Next
<1>3. CASE ReceiveAck
  <2>1. acks \in Seq(1 .. max_sent_seqn) /\ acks # <<>>
    BY <1>3 DEF ReceiveAck, WireInv, UnderWay
  <2>2. Head(acks) \in 1 .. max_sent_seqn
    BY <2>1, HeadTailProperties
  <2>3. QED
    BY <1>3, <2>2 DEF ReceiveAck, Next
<1>4. CASE \E sent \in BOOLEAN : WireSendFront(sent) \/ WireResend(sent)
  BY <1>4 DEF WireSendFront, WireResend, Next
<1>5. CASE ReadRepeated \/ ReadAndDispatch \/ ReadGarbled \/ EndOfStream
  BY <1>5 DEF ReadRepeated, ReadAndDispatch, ReadGarbled, EndOfStream, Received
<1>6. CASE UNCHANGED wireVars
  BY <1>6 DEF wireVars
<1>7. QED
  BY <1>1, <1>2, <1>3, <1>4, <1>5, <1>6 DEF WireNext

-----------------------------------------------------------------------------
\* The steps of the sender's send queue, which leave the pipes alone.
LEMMA OfflineStep ==
    ASSUME WireInv, BufferInv', max_sent_seqn' = max_sent_seqn,
           pipe' \in Seq(Sent(max_sent_seqn)), acks' \in Seq(1 .. max_sent_seqn),
           link' \in {"none", "up", "broken", "dead"}, attached' \in BOOLEAN,
           connects' \in 0 .. MaxConnects, ackLost' \in BOOLEAN,
           UNCHANGED receiverVars
    PROVE  WireInv'
<1>1. pipe' \in Seq(Packages) /\ acks' \in Seq(Nat)
  <2>1. Sent(max_sent_seqn) \subseteq Packages /\ 1 .. max_sent_seqn \subseteq Nat
    BY SentGrows DEF WireInv, BufferInv, TypeOK
  <2>2. QED
    BY <2>1, SeqMonotonic
<1>2. QED
  BY <1>1 DEF WireInv, WireTypeOK, UnderWay, receiverVars

\* A package handed to the socket under its message's own number.
LEMMA TransmitStep ==
    ASSUME WireInv, BufferInv', max_sent_seqn' \in Nat,
           max_sent_seqn <= max_sent_seqn',
           NEW sent \in BOOLEAN, NEW seqn \in Nat \ {0},
           sent => seqn <= max_sent_seqn',
           Transmit(sent, seqn, seqn)
    PROVE  WireInv'
<1>0. max_sent_seqn \in Nat
  BY DEF WireInv, BufferInv, TypeOK
<1>1. /\ Sent(max_sent_seqn) \subseteq Sent(max_sent_seqn')
      /\ 1 .. max_sent_seqn \subseteq 1 .. max_sent_seqn'
      /\ Sent(max_sent_seqn') \subseteq Packages
  BY ONLY <1>0, max_sent_seqn' \in Nat, max_sent_seqn <= max_sent_seqn', SentGrows
<1>. USE DEF WireInv, WireTypeOK, BufferInv, TypeOK
<1>2. acks' \in Seq(1 .. max_sent_seqn')
  BY <1>1, SeqMonotonic DEF UnderWay, Transmit
<1>3. pipe \in Seq(Sent(max_sent_seqn'))
  BY <1>1, SeqMonotonic DEF UnderWay
<1>4. pipe' \in Seq(Sent(max_sent_seqn'))
  <2>1. CASE sent /\ pipe' = Append(pipe, [seqn |-> seqn, msg |-> seqn])
    <3>1. [seqn |-> seqn, msg |-> seqn] \in Sent(max_sent_seqn')
      BY <2>1 DEF Sent
    <3>2. QED
      BY <1>3, <2>1, <3>1, AppendProperties
  <2>2. CASE UNCHANGED pipe
    BY <1>3, <2>2
  <2>3. QED
    BY <2>1, <2>2 DEF Transmit
<1>5. pipe' \in Seq(Packages) /\ acks' \in Seq(Nat)
  BY <1>1, <1>2, <1>4, SeqMonotonic DEF Transmit
<1>6. QED
  BY <1>2, <1>4, <1>5 DEF UnderWay, Transmit, receiverVars

\* The receiver takes the first package and acknowledges its number.
LEMMA ReceivedStep ==
    ASSUME WireInv, Received, BufferInv',
           max_received_seqn' \in Nat, stray' \in 0 .. LengthSize,
           last' \in Nat, top' \in Nat, turn' \in BOOLEAN
    PROVE  WireInv'
<1>. USE DEF WireInv
<1>1. /\ pipe # <<>> /\ pipe' = Tail(pipe)
      /\ UNCHANGED <<max_sent_seqn, link, attached, connects, reading>>
  BY DEF Received, bufferVars, queueVars
<1>2. Head(pipe).seqn \in 1 .. max_sent_seqn /\ Tail(pipe) \in Seq(Sent(max_sent_seqn))
  <2>1. Head(pipe) \in Sent(max_sent_seqn) /\ Tail(pipe) \in Seq(Sent(max_sent_seqn))
    BY <1>1, HeadTailProperties DEF UnderWay
  <2>2. QED
    BY <2>1 DEF Sent
<1>3. acks' \in Seq(1 .. max_sent_seqn) /\ ackLost' \in BOOLEAN
  <2>1. acks \in Seq(1 .. max_sent_seqn)
    BY DEF UnderWay
  <2>2. Append(acks, Head(pipe).seqn) \in Seq(1 .. max_sent_seqn)
    BY <1>2, <2>1, AppendProperties
  <2>3. SendAck(Head(pipe).seqn)
    BY DEF Received
  <2>4. QED
    BY <2>1, <2>2, <2>3 DEF SendAck, WireTypeOK
<1>4. pipe' \in Seq(Packages) /\ acks' \in Seq(Nat)
  <2>1. Sent(max_sent_seqn) \subseteq Packages /\ 1 .. max_sent_seqn \subseteq Nat
    <3>1. max_sent_seqn \in Nat /\ max_sent_seqn <= max_sent_seqn
      BY DEF BufferInv, TypeOK
    <3>2. QED
      BY <3>1, SentGrows
  <2>2. QED
    BY <1>1, <1>2, <1>3, <2>1, SeqMonotonic
<1>5. QED
  BY <1>1, <1>2, <1>3, <1>4 DEF UnderWay, WireTypeOK

LEMMA WireStepKeepsInv == WireInv /\ [WireNext]_wireVars => WireInv'
<1>. SUFFICES ASSUME WireInv, [WireNext]_wireVars PROVE WireInv'
  OBVIOUS
<1>1. BufferInv'
  BY WireStepIsBufferStep, BufferStepKeepsInv DEF WireInv
<1>2. max_sent_seqn \in Nat /\ max_sent_seqn' \in Nat
  BY <1>1 DEF WireInv, BufferInv, TypeOK
<1>3. CASE Connect
  <2>1. <<>> \in Seq(Sent(max_sent_seqn)) /\ <<>> \in Seq(1 .. max_sent_seqn)
        /\ <<>> \in Seq(Packages) /\ <<>> \in Seq(Nat)
    OBVIOUS
  <2>2. QED
    BY <1>1, <1>3, <2>1, SocketWireAssumption
       DEF Connect, WireInv, WireTypeOK, UnderWay, bufferVars, queueVars
<1>4. CASE Break \/ CloseSocket
  <2>1. PICK i \in 0 .. Len(pipe), j \in 0 .. Len(acks) :
          /\ pipe' = SubSeq(pipe, 1, i)
          /\ acks' = SubSeq(acks, 1, j)
          /\ ackLost' = (ackLost \/ j < Len(acks))
    BY <1>4 DEF Break, CloseSocket, Cut
  <2>2. pipe' \in Seq(Sent(max_sent_seqn)) /\ acks' \in Seq(1 .. max_sent_seqn)
    BY <2>1, CutSeq DEF WireInv, UnderWay
  <2>3. QED
    BY <1>1, <1>4, <2>1, <2>2, OfflineStep
       DEF Break, CloseSocket, Cut, bufferVars, queueVars, WireInv, WireTypeOK
<1>5. CASE Shutdown \/ WireResume \/ Disconnected
  BY <1>1, <1>5, OfflineStep
     DEF Shutdown, WireResume, Disconnected, Resume, Pause, bufferVars,
         queueVars, netVars, WireInv, WireTypeOK, UnderWay
<1>6. CASE BufferStep
  <2>1. UNCHANGED max_sent_seqn
    BY <1>6 DEF BufferStep, Put, TakeBatch, Exit, EnterProcess, LeaveProcess,
                Paused, StartReprocess, FinishResume, Stop, CleanUp, queueVars
  <2>2. QED
    BY <1>1, <1>6, <2>1, OfflineStep
       DEF BufferStep, Offline, netVars, WireInv, WireTypeOK, UnderWay
<1>7. CASE ReceiveAck
  <2>1. acks' \in Seq(1 .. max_sent_seqn)
    BY <1>7, HeadTailProperties DEF ReceiveAck, WireInv, UnderWay
  <2>2. QED
    BY <1>1, <1>7, <2>1, OfflineStep
       DEF ReceiveAck, Acknowledge, queueVars, WireInv, WireTypeOK, UnderWay
<1>8. ASSUME NEW sent \in BOOLEAN, WireSendFront(sent) PROVE WireInv'
  <2>1. Head(queue) = max_sent_seqn + 1
    <3>1. queue \in Seq(Nat) /\ queue # <<>>
      BY <1>8 DEF WireSendFront, SendFront, WireInv, BufferInv, TypeOK
    <3>2. Consecutive(queue, max_sent_seqn + 1)
      BY DEF WireInv, BufferInv, NumberedInOrder
    <3>3. max_sent_seqn + 1 \in Nat
      BY <1>2
    <3>4. QED
      BY ONLY <3>1, <3>2, <3>3, TailConsecutive
  <2>2. /\ max_sent_seqn <= max_sent_seqn'
        /\ sent => max_sent_seqn + 1 <= max_sent_seqn'
    BY <1>2, <1>8 DEF WireSendFront, SendFront
  <2>3. Transmit(sent, max_sent_seqn + 1, max_sent_seqn + 1)
    BY <1>8, <2>1 DEF WireSendFront
  <2>4. max_sent_seqn + 1 \in Nat \ {0}
    BY <1>2
  <2>5. QED
    BY <1>1, <1>2, <2>2, <2>3, <2>4, TransmitStep
<1>9. ASSUME NEW sent \in BOOLEAN, WireResend(sent) PROVE WireInv'
  <2>1. /\ resent \in Nat /\ resent < Len(pending_queue)
        /\ Consecutive(pending_queue, current_seqn)
        /\ current_seqn + Len(pending_queue) = max_sent_seqn + 1
        /\ current_seqn \in Nat \ {0} /\ Len(pending_queue) \in Nat
    BY <1>9 DEF WireResend, Resend, WireInv, BufferInv, TypeOK, NumberedInOrder
  <2>2. /\ pending_queue[resent + 1] = ResentSeqn
        /\ ResentSeqn \in Nat \ {0} /\ ResentSeqn <= max_sent_seqn
    BY <1>2, <2>1 DEF Consecutive, ResentSeqn
  <2>3. max_sent_seqn' = max_sent_seqn /\ Transmit(sent, ResentSeqn, ResentSeqn)
    BY <1>9, <2>2 DEF WireResend, Resend, queueVars
  <2>4. QED
    BY <1>1, <1>2, <2>2, <2>3, TransmitStep
<1>10. CASE ReadRepeated \/ ReadAndDispatch \/ ReadGarbled
  <2>1. Received
    BY <1>10 DEF ReadRepeated, ReadAndDispatch, ReadGarbled
  <2>2. Head(pipe).seqn \in Nat /\ Head(pipe).msg \in Nat
    <3>1. Head(pipe) \in Packages
      BY <2>1, HeadTailProperties DEF Received, WireInv, WireTypeOK
    <3>2. QED
      BY <3>1 DEF Packages
  <2>3. /\ max_received_seqn' \in Nat /\ stray' \in 0 .. LengthSize
        /\ last' \in Nat /\ top' \in Nat
    <3>1. /\ max_received_seqn \in Nat /\ stray \in 0 .. LengthSize
          /\ last \in Nat /\ top \in Nat /\ LengthSize = 4
      BY DEF WireInv, WireTypeOK, LengthSize
    <3>2. CASE ReadRepeated
      BY <2>2, <3>1, <3>2 DEF ReadRepeated
    <3>3. CASE ReadAndDispatch
      BY <2>2, <3>1, <3>3 DEF ReadAndDispatch
    <3>4. CASE ReadGarbled
      BY <2>2, <3>1, <3>4 DEF ReadGarbled
    <3>5. QED
      BY <1>10, <3>2, <3>3, <3>4
  <2>4. turn' \in BOOLEAN
    <3>1. turn' = ~turn \/ turn' = turn
      BY <1>10 DEF ReadRepeated, ReadAndDispatch, ReadGarbled
    <3>2. QED
      BY <3>1 DEF WireInv, WireTypeOK
  <2>5. QED
    BY <1>1, <2>1, <2>3, <2>4, ReceivedStep
<1>11. CASE EndOfStream
  <2>1. /\ UNCHANGED <<max_sent_seqn, link, attached, connects, pipe, acks,
                       max_received_seqn, last, top, turn, ackLost>>
        /\ reading' = FALSE
    BY <1>11 DEF EndOfStream, bufferVars, queueVars, netVars
  <2>2. stray' \in 0 .. LengthSize
    BY <1>11 DEF EndOfStream, WireInv, WireTypeOK, LengthSize
  <2>3. QED
    BY <1>1, <2>1, <2>2 DEF WireInv, WireTypeOK, UnderWay
<1>12. CASE UNCHANGED wireVars
  BY <1>1, <1>12 DEF wireVars, bufferVars, queueVars, netVars, receiverVars,
                     WireInv, WireTypeOK, UnderWay
<1>13. QED
  BY <1>3, <1>4, <1>5, <1>6, <1>7, <1>8, <1>9, <1>10, <1>11, <1>12 DEF WireNext

THEOREM WireInvariant == WireSpec => []WireInv
BY WireInvInit, WireStepKeepsInv, PTL DEF WireSpec

-----------------------------------------------------------------------------
(***************************************************************************)
(* The wire uses its send queue as ByteBufferAsyncProcessor.tla assumes:   *)
(* every acknowledgement it hands over is for a number that was sent.  So  *)
(* all that is proved of the send queue holds in the wire.                 *)
(***************************************************************************)
THEOREM WireImplementsBuffer == WireSpec => Spec
<1>1. WireInit => Init
  BY DEF WireInit
<1>2. WireInv /\ [WireNext]_wireVars => [Next]_bufferVars
  BY WireStepIsBufferStep
<1>3. QED
  BY <1>1, <1>2, WireInvariant, PTL DEF WireSpec, Spec

\* Every variable of the wire keeps its type.
THEOREM WireTypeCorrect == WireSpec => []WireTypeOK
BY WireInvariant, PTL DEF WireInv

(***************************************************************************)
(* Every package under way carries the rank of its message, in every       *)
(* connection, and every acknowledgement is for a number that was sent.    *)
(***************************************************************************)
THEOREM PackagesKeepTheirNumber == WireSpec => []UnderWay
BY WireInvariant, PTL DEF WireInv

(***************************************************************************)
(* reprocess never pops an empty deque, however connections break and      *)
(* however late the sender thread is.                                      *)
(***************************************************************************)
THEOREM NoPopOfEmptyDeque == WireSpec => []PopsAreSafe
<1>1. WireInv => PopsAreSafe
  BY DEF WireInv, BufferInv, TypeOK, NumberedInOrder, AcknowledgedIsSent,
         PopsAreSafe
<1>2. QED
  BY <1>1, WireInvariant, PTL

-----------------------------------------------------------------------------
(***************************************************************************)
(* What follows is about a sender thread that does not lag behind.         *)
(*                                                                         *)
(* The packages under way in one connection carry consecutive numbers, of  *)
(* which the first is FirstSeqn and the one to be sent next is NextSeqn.   *)
(***************************************************************************)
Sending == link = "up" /\ conn \in {"resending", "running"}

NextSeqn == IF conn = "resending" THEN ResentSeqn ELSE max_sent_seqn + 1

FirstSeqn == IF pipe # <<>> THEN pipe[1].seqn ELSE NextSeqn

\* Until the wire is resumed nothing is sent on a new connection, the sender
\* thread rests until reprocess is done, and a connection is left only when
\* its acknowledgements are read.
ConnectionInv ==
    /\ attached => conn = "paused" /\ link # "none"
    /\ attached \/ conn = "resuming" => pipe = <<>> /\ acks = <<>>
    /\ attached \/ conn \in {"resuming", "resending"}
         => sender \in {"check", "exited"}
    /\ ~attached /\ conn \in {"paused", "pausing"} => link # "up" /\ acks = <<>>
    /\ current_seqn <= acknowledged_seqn + 1

\* Acknowledgements are under way in the order of their numbers.
AcksInv ==
    /\ \A i, j \in 1 .. Len(acks) : i < j => acks[i] < acks[j]
    /\ \A i \in 1 .. Len(acks) : acknowledged_seqn < acks[i]

\* Packages are consecutive, the next one to be sent continues them, what has
\* been acknowledged is not under way, and the receiver misses none.
PipeInv ==
    /\ \A i \in 1 .. Len(pipe) : pipe[i].seqn = FirstSeqn + (i - 1)
    /\ Sending => FirstSeqn + Len(pipe) = NextSeqn
    /\ Sending \/ pipe # <<>> =>
         /\ acknowledged_seqn < FirstSeqn
         /\ \A i \in 1 .. Len(acks) : acks[i] < FirstSeqn
         /\ stray < LengthSize => FirstSeqn <= max_received_seqn + 1

\* As long as the receiver knows the boundaries of the messages, it has
\* dispatched what it acknowledges, and only a repeated package other than
\* the first leaves a stray byte.
ReadInv ==
    stray < LengthSize =>
      /\ last = max_received_seqn /\ max_received_seqn <= top
      /\ acknowledged_seqn <= max_received_seqn
      /\ \A i \in 1 .. Len(acks) : acks[i] <= max_received_seqn
      /\ stray > 0 => top > 1

\* While no acknowledgement is lost the last one is for the last message read.
CleanInv ==
    ~ackLost =>
      /\ stray = 0 /\ last = top /\ top = max_received_seqn
      /\ max_received_seqn =
           IF acks = <<>> THEN acknowledged_seqn ELSE acks[Len(acks)]

OrderInv == ConnectionInv /\ AcksInv /\ PipeInv /\ ReadInv /\ CleanInv

LEMMA OrderInvInit == WireInit => OrderInv
<1>. SUFFICES ASSUME WireInit PROVE OrderInv
  OBVIOUS
<1>1. /\ pipe = <<>> /\ acks = <<>> /\ Len(acks) = 0 /\ Len(pipe) = 0
      /\ link = "none" /\ conn = "paused" /\ attached = FALSE
      /\ sender = "check" /\ current_seqn = 1 /\ acknowledged_seqn = 0
      /\ stray = 0 /\ last = 0 /\ top = 0 /\ max_received_seqn = 0
  BY DEF WireInit, Init
<1>2. ~Sending
  BY <1>1 DEF Sending
<1>3. ConnectionInv /\ ReadInv /\ CleanInv /\ AcksInv /\ PipeInv
  BY ONLY <1>1, <1>2
     DEF ConnectionInv, ReadInv, CleanInv, AcksInv, PipeInv
<1>4. QED
  BY <1>3 DEF OrderInv

\* The types the steps below rely on.
WireNumbers ==
    /\ pipe \in Seq(Packages) /\ acks \in Seq(Nat)
    /\ \A i \in 1 .. Len(acks) : acks[i] >= 1
    /\ max_sent_seqn \in Nat /\ current_seqn \in Nat /\ resent \in Nat
    /\ acknowledged_seqn \in Nat /\ max_received_seqn \in Nat
    /\ last \in Nat /\ top \in Nat /\ stray \in 0 .. 4
    /\ ackLost \in BOOLEAN /\ attached \in BOOLEAN

LEMMA WireInvNumbers == WireInv => WireNumbers
<1>. SUFFICES ASSUME WireInv PROVE WireNumbers
  OBVIOUS
<1>1. acks \in Seq(1 .. max_sent_seqn) /\ max_sent_seqn \in Nat
  BY DEF WireInv, UnderWay, BufferInv, TypeOK
<1>2. \A i \in 1 .. Len(acks) : acks[i] >= 1
  BY <1>1
<1>3. QED
  BY <1>1, <1>2 DEF WireInv, WireTypeOK, BufferInv, TypeOK, WireNumbers, LengthSize

\* A step that moves the threads and leaves what is under way alone.
LEMMA PassiveStep ==
    ASSUME OrderInv, WireNumbers, ConnectionInv',
           UNCHANGED <<pipe, acks, max_received_seqn, stray, last, top,
                       acknowledged_seqn, ackLost>>,
           Sending' => Sending /\ NextSeqn' = NextSeqn
    PROVE  OrderInv'
<1>1. AcksInv' /\ ReadInv' /\ CleanInv'
  BY DEF OrderInv, AcksInv, ReadInv, CleanInv
<1>2. PipeInv'
  <2>1. CASE pipe # <<>>
    BY <2>1 DEF OrderInv, PipeInv, FirstSeqn
  <2>2. CASE pipe = <<>>
    BY <2>2 DEF OrderInv, PipeInv, FirstSeqn
  <2>3. QED
    BY <2>1, <2>2
<1>3. QED
  BY <1>1, <1>2 DEF OrderInv

\* A package reaches the pipe under the number that is next.
LEMMA AppendStep ==
    ASSUME OrderInv, WireNumbers, ConnectionInv', Sending, Sending',
           NextSeqn \in Nat \ {0}, NextSeqn' = NextSeqn + 1,
           pipe' = Append(pipe, [seqn |-> NextSeqn, msg |-> NextSeqn]),
           UNCHANGED <<acks, max_received_seqn, stray, last, top,
                       acknowledged_seqn, ackLost>>
    PROVE  OrderInv'
<1>1. AcksInv' /\ ReadInv' /\ CleanInv'
  BY DEF OrderInv, AcksInv, ReadInv, CleanInv
<1>. DEFINE package == [seqn |-> NextSeqn, msg |-> NextSeqn]
<1>2. package \in Packages /\ package.seqn = NextSeqn
  BY DEF Packages
<1>3. /\ Len(pipe') = Len(pipe) + 1 /\ pipe' # <<>>
      /\ \A i \in 1 .. Len(pipe) : pipe'[i] = pipe[i]
      /\ pipe'[Len(pipe) + 1] = package
      /\ Len(pipe) \in Nat
      /\ pipe # <<>> => 1 \in 1 .. Len(pipe)
      /\ pipe = <<>> => Len(pipe) = 0
  BY ONLY <1>2, WireNumbers, pipe' = Append(pipe, package), AppendProperties
     DEF WireNumbers
<1>. HIDE DEF package
<1>4. FirstSeqn + Len(pipe) = NextSeqn
  BY DEF OrderInv, PipeInv
<1>5. FirstSeqn' = FirstSeqn
  <2>1. CASE pipe # <<>>
    BY <1>3, <2>1 DEF FirstSeqn
  <2>2. CASE pipe = <<>>
    BY <1>2, <1>3, <2>2 DEF FirstSeqn
  <2>3. QED
    BY <2>1, <2>2
<1>6. FirstSeqn \in Int
  <2>1. CASE pipe # <<>>
    <3>1. pipe[1] \in Packages
      BY ONLY <1>3, <2>1, WireNumbers DEF WireNumbers
    <3>2. QED
      BY ONLY <3>1, <2>1 DEF FirstSeqn, Packages
  <2>2. QED
    BY <2>1 DEF FirstSeqn
<1>7. ASSUME NEW i \in 1 .. Len(pipe')
      PROVE  pipe'[i].seqn = FirstSeqn + (i - 1)
  <2>1. CASE i = Len(pipe) + 1
    BY <1>2, <1>3, <1>4, <1>6, <2>1
  <2>2. CASE i \in 1 .. Len(pipe)
    BY <1>3, <2>2 DEF OrderInv, PipeInv
  <2>3. QED
    BY <1>3, <2>1, <2>2
<1>8. FirstSeqn' + Len(pipe') = NextSeqn'
  BY ONLY <1>3, <1>4, <1>5, <1>6, NextSeqn' = NextSeqn + 1
<1>9. PipeInv'
  BY <1>5, <1>7, <1>8 DEF OrderInv, PipeInv
<1>10. QED
  BY <1>1, <1>9 DEF OrderInv

-----------------------------------------------------------------------------
(***************************************************************************)
(* The receiver takes the first package.                                   *)
(***************************************************************************)
LEMMA ReadStep ==
    ASSUME OrderInv, WireInv, ReadRepeated \/ ReadAndDispatch \/ ReadGarbled
    PROVE  OrderInv'
<1>. DEFINE n == Head(pipe).seqn
<1>0. WireNumbers
  BY WireInvNumbers
<1>1. Received
  BY DEF ReadRepeated, ReadAndDispatch, ReadGarbled
<1>2. /\ pipe # <<>> /\ pipe' = Tail(pipe) /\ SendAck(n)
      /\ UNCHANGED <<acknowledged_seqn, current_seqn, max_sent_seqn, conn, resent,
                     sender, link, attached>>
  BY <1>1 DEF Received, bufferVars, queueVars, threadVars
<1>3. /\ Head(pipe) = pipe[1] /\ 1 \in 1 .. Len(pipe)
      /\ Len(pipe') = Len(pipe) - 1 /\ Len(pipe) \in Nat
      /\ \A i \in 1 .. Len(pipe') : pipe'[i] = pipe[i + 1]
      /\ IF pipe' = <<>> THEN Len(pipe) = 1 ELSE Len(pipe) > 1
  <2>1. pipe \in Seq(Packages) /\ pipe # <<>> /\ pipe' = Tail(pipe)
    BY ONLY <1>0, <1>2 DEF WireNumbers
  <2>2. /\ Head(pipe) = pipe[1] /\ 1 \in 1 .. Len(pipe)
        /\ Len(pipe') = Len(pipe) - 1 /\ Len(pipe) \in Nat
        /\ \A i \in 1 .. Len(pipe') : pipe'[i] = pipe[i + 1]
    BY ONLY <2>1
  <2>3. pipe' \in Seq(Packages)
    BY ONLY <2>1, HeadTailProperties
  <2>4. IF pipe' = <<>> THEN Len(pipe') = 0 ELSE Len(pipe') > 0
    BY ONLY <2>3
  <2>5. QED
    BY ONLY <2>2, <2>4
<1>4. n = FirstSeqn /\ n \in Nat \ {0} /\ Head(pipe).msg = n
  <2>1. Head(pipe) \in Sent(max_sent_seqn)
    BY <1>2, HeadTailProperties DEF WireInv, UnderWay
  <2>2. max_sent_seqn \in Nat
    BY <1>0 DEF WireNumbers
  <2>3. n \in Nat \ {0} /\ Head(pipe).msg = n
    <3>1. PICK k \in 1 .. max_sent_seqn : Head(pipe) = [seqn |-> k, msg |-> k]
      BY ONLY <2>1 DEF Sent
    <3>2. n = k /\ Head(pipe).msg = k
      BY ONLY <3>1
    <3>3. QED
      BY ONLY <2>2, <3>2
  <2>4. QED
    BY <1>2, <1>3, <2>3 DEF FirstSeqn
<1>. HIDE DEF n
<1>5. /\ acknowledged_seqn < n
      /\ \A i \in 1 .. Len(acks) : acks[i] < n
      /\ stray < 4 => n <= max_received_seqn + 1
  BY <1>2, <1>4 DEF OrderInv, PipeInv, LengthSize
<1>6. Sending' = Sending /\ NextSeqn' = NextSeqn
  BY <1>2 DEF Sending, NextSeqn, ResentSeqn
<1>7. \/ /\ link = "up" /\ acks' = Append(acks, n) /\ ackLost' = ackLost
         /\ Len(acks') = Len(acks) + 1 /\ acks' # <<>>
         /\ \A i \in 1 .. Len(acks) : acks'[i] = acks[i]
         /\ acks'[Len(acks) + 1] = n
      \/ acks' = acks /\ ackLost' = TRUE /\ link # "up"
  <2>1. acks \in Seq(Nat) /\ n \in Nat
    BY ONLY <1>0, <1>4 DEF WireNumbers
  <2>2. /\ Len(Append(acks, n)) = Len(acks) + 1 /\ Append(acks, n) # <<>>
        /\ \A i \in 1 .. Len(acks) : Append(acks, n)[i] = acks[i]
        /\ Append(acks, n)[Len(acks) + 1] = n
    BY ONLY <2>1, AppendProperties
  <2>3. QED
    BY ONLY <1>2, <2>2 DEF SendAck
<1>8. /\ Len(acks) \in Nat /\ acknowledged_seqn \in Nat /\ n \in Nat
      /\ \A i \in 1 .. Len(acks) : acks[i] \in Nat
      /\ max_received_seqn \in Nat /\ top \in Nat /\ last \in Nat
      /\ stray \in 0 .. 4
  BY ONLY <1>0, <1>4 DEF WireNumbers
<1>9. /\ \A i \in 1 .. Len(acks') : acks'[i] <= n /\ acknowledged_seqn < acks'[i]
      /\ \A i, j \in 1 .. Len(acks') : i < j => acks'[i] < acks'[j]
      /\ \A i \in 1 .. Len(acks') :
           \/ i \in 1 .. Len(acks) /\ acks'[i] = acks[i]
           \/ acks'[i] = n
  <2>1. AcksInv
    BY DEF OrderInv
  <2>2. \A i \in 1 .. Len(acks') :
           \/ i \in 1 .. Len(acks) /\ acks'[i] = acks[i]
           \/ i = Len(acks) + 1 /\ acks'[i] = n
    <3>1. CASE acks' = acks
      BY ONLY <3>1
    <3>2. CASE Len(acks') = Len(acks) + 1 /\ acks'[Len(acks) + 1] = n
               /\ \A i \in 1 .. Len(acks) : acks'[i] = acks[i]
      BY ONLY <1>8, <3>2
    <3>3. QED
      BY ONLY <1>7, <3>1, <3>2
  <2>3. \A i \in 1 .. Len(acks') : acks'[i] <= n /\ acknowledged_seqn < acks'[i]
    BY ONLY <1>5, <1>8, <2>1, <2>2 DEF AcksInv
  <2>4. \A i, j \in 1 .. Len(acks') : i < j => acks'[i] < acks'[j]
    <3>1. SUFFICES ASSUME NEW i \in 1 .. Len(acks'), NEW j \in 1 .. Len(acks'), i < j
                   PROVE  acks'[i] < acks'[j]
      OBVIOUS
    <3>2. i \in 1 .. Len(acks) /\ acks'[i] = acks[i]
      BY ONLY <1>7, <1>8, <2>2, <3>1
    <3>3. CASE j \in 1 .. Len(acks) /\ acks'[j] = acks[j]
      BY ONLY <2>1, <3>1, <3>2, <3>3 DEF AcksInv
    <3>4. CASE acks'[j] = n
      BY ONLY <1>5, <3>2, <3>4
    <3>5. QED
      BY <2>2, <3>3, <3>4
  <2>5. QED
    BY ONLY <2>2, <2>3, <2>4
<1>10. AcksInv'
  BY ONLY <1>2, <1>9 DEF AcksInv
<1>11. ConnectionInv'
  BY <1>2, <1>7 DEF OrderInv, ConnectionInv
<1>12. Sending \/ pipe' # <<>> => FirstSeqn' = n + 1
  <2>1. CASE pipe' # <<>>
    <3>1. 2 \in 1 .. Len(pipe) /\ 1 \in 1 .. Len(pipe') /\ pipe'[1] = pipe[2]
      BY ONLY <1>3, <2>1
    <3>2. pipe[2].seqn = FirstSeqn + 1
      BY <3>1 DEF OrderInv, PipeInv
    <3>3. QED
      BY ONLY <1>4, <2>1, <3>1, <3>2 DEF FirstSeqn
  <2>2. CASE pipe' = <<>> /\ Sending
    <3>1. Len(pipe) = 1 /\ FirstSeqn + Len(pipe) = NextSeqn
      BY <1>3, <2>2 DEF OrderInv, PipeInv
    <3>2. QED
      BY ONLY <1>4, <1>6, <2>2, <3>1 DEF FirstSeqn
  <2>3. QED
    BY <2>1, <2>2
<1>13. max_received_seqn' \in Nat /\ (stray' < 4 => n <= max_received_seqn')
  BY <1>4, <1>8
     DEF ReadRepeated, ReadAndDispatch, ReadGarbled, Repeated, LengthSize, n
<1>14. PipeInv'
  <2>1. ASSUME NEW i \in 1 .. Len(pipe') PROVE pipe'[i].seqn = FirstSeqn' + (i - 1)
    <3>1. pipe'[i] = pipe[i + 1] /\ i + 1 \in 1 .. Len(pipe) /\ pipe' # <<>>
      BY <1>3
    <3>2. pipe[i + 1].seqn = FirstSeqn + i
      BY <3>1 DEF OrderInv, PipeInv
    <3>3. QED
      BY ONLY <1>4, <1>12, <3>1, <3>2, i \in 1 .. Len(pipe')
  <2>2. Sending => FirstSeqn' + Len(pipe') = NextSeqn'
    <3>1. Sending => FirstSeqn + Len(pipe) = NextSeqn
      BY DEF OrderInv, PipeInv
    <3>2. QED
      BY ONLY <1>3, <1>4, <1>6, <1>12, <3>1
  <2>3. Sending \/ pipe' # <<>> =>
          /\ acknowledged_seqn < FirstSeqn'
          /\ \A i \in 1 .. Len(acks') : acks'[i] < FirstSeqn'
          /\ stray' < 4 => FirstSeqn' <= max_received_seqn' + 1
    <3>1. \A i \in 1 .. Len(acks') : acks'[i] \in Nat /\ acks'[i] <= n
      BY ONLY <1>9, <1>8
    <3>2. QED
      BY ONLY <3>1, <1>5, <1>8, <1>12, <1>13
  <2>4. acknowledged_seqn' = acknowledged_seqn
    BY <1>2
  <2>5. QED
    BY ONLY <1>6, <2>1, <2>2, <2>3, <2>4 DEF PipeInv, LengthSize
<1>15. CASE ReadRepeated
  <2>1. /\ n <= max_received_seqn /\ n # 1
        /\ UNCHANGED <<max_received_seqn, last, top>>
        /\ stray' = IF stray < 4 THEN stray + 1 ELSE stray
    BY <1>15 DEF ReadRepeated, Repeated, n, LengthSize
  <2>2. ReadInv'
    <3>1. SUFFICES ASSUME stray < 4
                   PROVE  /\ last = max_received_seqn /\ max_received_seqn <= top
                          /\ acknowledged_seqn <= max_received_seqn
                          /\ \A i \in 1 .. Len(acks') : acks'[i] <= max_received_seqn
                          /\ top > 1
      BY <1>2, <1>8, <2>1 DEF ReadInv, LengthSize
    <3>2. /\ last = max_received_seqn /\ max_received_seqn <= top
          /\ acknowledged_seqn <= max_received_seqn
          /\ \A i \in 1 .. Len(acks) : acks[i] <= max_received_seqn
      BY <3>1 DEF OrderInv, ReadInv, LengthSize
    <3>3. \A i \in 1 .. Len(acks') : acks'[i] <= max_received_seqn
      BY ONLY <1>9, <2>1, <3>2
    <3>4. QED
      BY ONLY <1>4, <1>8, <2>1, <3>2, <3>3
  <2>3. ackLost'
    <3>1. ackLost \in BOOLEAN
      BY ONLY <1>0 DEF WireNumbers
    <3>2. ~ackLost => max_received_seqn < n
      <4>1. CASE acks = <<>>
        BY <1>5, <4>1 DEF OrderInv, CleanInv
      <4>2. CASE acks # <<>>
        <5>1. Len(acks) \in 1 .. Len(acks)
          BY ONLY <1>0, <4>2 DEF WireNumbers
        <5>2. QED
          BY <1>5, <4>2, <5>1 DEF OrderInv, CleanInv
      <4>3. QED
        BY <4>1, <4>2
    <3>3. QED
      BY ONLY <1>7, <1>8, <2>1, <3>1, <3>2
  <2>4. QED
    BY <1>10, <1>11, <1>14, <2>2, <2>3 DEF OrderInv, CleanInv
<1>16. CASE ReadAndDispatch
  <2>1. /\ max_received_seqn' = n /\ last' = n /\ stray = 0 /\ stray' = 0
        /\ top' = IF n > top THEN n ELSE top
        /\ ~(n <= max_received_seqn /\ n # 1)
    BY <1>4, <1>16 DEF ReadAndDispatch, Repeated, n
  <2>2. ReadInv'
    <3>1. /\ acknowledged_seqn' <= n /\ n <= top'
          /\ \A i \in 1 .. Len(acks') : acks'[i] <= n
      BY ONLY <1>2, <1>5, <1>8, <1>9, <2>1
    <3>2. QED
      BY ONLY <2>1, <3>1 DEF ReadInv
  <2>3. CleanInv'
    <3>1. SUFFICES ASSUME ~ackLost'
                   PROVE  /\ top' = n
                          /\ n = IF acks' = <<>> THEN acknowledged_seqn'
                                 ELSE acks'[Len(acks')]
      BY <2>1 DEF CleanInv
    <3>2. ~ackLost /\ acks' # <<>> /\ acks'[Len(acks')] = n
      BY ONLY <1>7, <3>1
    <3>3. top < n
      <4>1. CASE acks = <<>>
        BY <1>5, <3>2, <4>1 DEF OrderInv, CleanInv
      <4>2. CASE acks # <<>>
        <5>1. Len(acks) \in 1 .. Len(acks)
          BY ONLY <1>0, <4>2 DEF WireNumbers
        <5>2. QED
          BY <1>5, <3>2, <4>2, <5>1 DEF OrderInv, CleanInv
      <4>3. QED
        BY <4>1, <4>2
    <3>4. QED
      BY ONLY <2>1, <3>2, <3>3
  <2>4. QED
    BY <1>10, <1>11, <1>14, <2>2, <2>3 DEF OrderInv
<1>17. CASE ReadGarbled
  <2>1. stray > 0 /\ stray' = 4
    BY <1>17 DEF ReadGarbled, LengthSize
  <2>2. ReadInv'
    BY <2>1 DEF ReadInv, LengthSize
  <2>3. CleanInv'
    <3>1. ~ackLost => stray = 0
      BY DEF OrderInv, CleanInv
    <3>2. ackLost \in BOOLEAN
      BY ONLY <1>0 DEF WireNumbers
    <3>3. ackLost'
      BY ONLY <1>7, <1>8, <2>1, <3>1, <3>2
    <3>4. QED
      BY <3>3 DEF CleanInv
  <2>4. QED
    BY <1>10, <1>11, <1>14, <2>2, <2>3 DEF OrderInv
<1>18. QED
  BY <1>15, <1>16, <1>17

-----------------------------------------------------------------------------
\* A new connection starts empty.
LEMMA ConnectStep ==
    ASSUME LaggingSender = FALSE, OrderInv, WireInv, Connect
    PROVE  OrderInv'
<1>1. WireNumbers
  BY WireInvNumbers
<1>2. /\ conn = "paused" /\ conn' = conn /\ link = "none" /\ link' = "up"
      /\ sender \in {"check", "exited"} /\ sender' = sender
      /\ attached' = TRUE /\ pipe' = <<>> /\ acks' = <<>>
      /\ UNCHANGED <<current_seqn, acknowledged_seqn, max_received_seqn, stray,
                     last, top, ackLost>>
  BY DEF Connect, SenderSettled, bufferVars, threadVars, queueVars
<1>3. ~attached
  BY <1>2 DEF OrderInv, ConnectionInv
<1>4. acks = <<>> /\ ~Sending'
  BY <1>1, <1>2, <1>3 DEF OrderInv, ConnectionInv, WireNumbers, Sending
<1>5. Len(pipe') = 0 /\ Len(acks') = 0
  BY <1>2
<1>6. ConnectionInv' /\ AcksInv' /\ PipeInv'
  <2>1. current_seqn <= acknowledged_seqn + 1
    BY DEF OrderInv, ConnectionInv
  <2>2. QED
    BY ONLY <1>2, <1>4, <1>5, <2>1 DEF ConnectionInv, AcksInv, PipeInv
<1>7. ReadInv' /\ CleanInv'
  BY <1>2, <1>4, <1>5 DEF OrderInv, ReadInv, CleanInv
<1>8. QED
  BY <1>6, <1>7 DEF OrderInv

\* What a broken connection still holds is the front of what it held.
LEMMA CutStep ==
    ASSUME OrderInv, WireInv, Cut
    PROVE  OrderInv'
<1>0. WireNumbers
  BY WireInvNumbers
<1>1. PICK i \in 0 .. Len(pipe), j \in 0 .. Len(acks) :
        /\ pipe' = SubSeq(pipe, 1, i)
        /\ acks' = SubSeq(acks, 1, j)
        /\ ackLost' = (ackLost \/ j < Len(acks))
  BY DEF Cut
<1>2. /\ link = "up" /\ link' = "broken"
      /\ UNCHANGED <<current_seqn, acknowledged_seqn, max_received_seqn, stray,
                     last, top, conn, sender, attached>>
  BY DEF Cut, bufferVars, threadVars, queueVars, receiverVars
<1>3. /\ Len(pipe') = i /\ \A k \in 1 .. i : pipe'[k] = pipe[k] /\ k \in 1 .. Len(pipe)
      /\ Len(acks') = j /\ \A k \in 1 .. j : acks'[k] = acks[k] /\ k \in 1 .. Len(acks)
      /\ pipe' # <<>> => 1 \in 1 .. i /\ pipe # <<>>
      /\ pipe = <<>> => pipe' = <<>>
      /\ acks = <<>> => acks' = <<>>
      /\ j = Len(acks) => acks' = acks
  <2>1. pipe \in Seq(Packages) /\ acks \in Seq(Nat)
    BY ONLY <1>0 DEF WireNumbers
  <2>2. pipe' \in Seq(Packages) /\ acks' \in Seq(Nat)
    BY ONLY <1>1, <2>1, CutSeq
  <2>3. /\ Len(pipe') = i /\ \A k \in 1 .. i : pipe'[k] = pipe[k]
        /\ Len(acks') = j /\ \A k \in 1 .. j : acks'[k] = acks[k]
    BY ONLY <1>1, <2>1
  <2>4. pipe' # <<>> => i > 0
    BY ONLY <2>2, <2>3
  <2>5. acks' # <<>> => j > 0
    BY ONLY <2>2, <2>3
  <2>6. j = Len(acks) => acks' = acks
    BY ONLY <2>1, <2>2, <2>3, SeqEqual
  <2>7. /\ i \in 0 .. Len(pipe) /\ j \in 0 .. Len(acks)
        /\ Len(pipe) \in Nat /\ Len(acks) \in Nat
        /\ pipe = <<>> => Len(pipe) = 0
        /\ acks = <<>> => Len(acks) = 0
    BY ONLY <2>1, i \in 0 .. Len(pipe), j \in 0 .. Len(acks)
  <2>8. QED
    BY ONLY <2>3, <2>4, <2>5, <2>6, <2>7
<1>4. ConnectionInv'
  BY ONLY <1>2, <1>3, OrderInv DEF OrderInv, ConnectionInv
<1>5. AcksInv'
  <2>1. AcksInv
    BY DEF OrderInv
  <2>2. QED
    BY ONLY <1>2, <1>3, <2>1 DEF AcksInv
<1>6. ReadInv'
  BY ONLY <1>2, <1>3, OrderInv DEF OrderInv, ReadInv
<1>7. PipeInv'
  <2>1. ~Sending'
    BY <1>2 DEF Sending
  <2>2. pipe' # <<>> => FirstSeqn' = FirstSeqn
    BY <1>3 DEF FirstSeqn
  <2>3. ASSUME NEW k \in 1 .. Len(pipe')
        PROVE  pipe'[k].seqn = FirstSeqn' + (k - 1)
    <3>1. pipe' # <<>> /\ pipe'[k] = pipe[k] /\ k \in 1 .. Len(pipe)
      BY <1>3
    <3>2. QED
      BY <2>2, <3>1 DEF OrderInv, PipeInv
  <2>4. pipe' # <<>> =>
          /\ acknowledged_seqn < FirstSeqn
          /\ \A k \in 1 .. Len(acks) : acks[k] < FirstSeqn
          /\ stray < LengthSize => FirstSeqn <= max_received_seqn + 1
    BY <1>3 DEF OrderInv, PipeInv
  <2>5. pipe' # <<>> =>
          /\ acknowledged_seqn' < FirstSeqn'
          /\ \A k \in 1 .. Len(acks') : acks'[k] < FirstSeqn'
          /\ stray' < LengthSize => FirstSeqn' <= max_received_seqn' + 1
    BY ONLY <1>2, <1>3, <2>2, <2>4 DEF LengthSize
  <2>6. QED
    BY ONLY <2>1, <2>3, <2>5 DEF PipeInv
<1>8. CleanInv'
  <2>1. ~ackLost' => ~ackLost /\ acks' = acks
    <3>1. ackLost \in BOOLEAN /\ Len(acks) \in Nat
      BY ONLY <1>0 DEF WireNumbers
    <3>2. ~ackLost' => ~ackLost /\ ~(j < Len(acks))
      BY ONLY <1>1, <3>1
    <3>3. QED
      BY ONLY <1>3, <3>1, <3>2, j \in 0 .. Len(acks)
  <2>2. QED
    BY <1>2, <2>1 DEF OrderInv, CleanInv
<1>9. QED
  BY <1>4, <1>5, <1>6, <1>7, <1>8 DEF OrderInv

LEMMA BoundGrows ==
    ASSUME NEW k \in Nat, NEW m \in Nat, NEW n \in Nat, k <= m + 1, m < n
    PROVE  k <= n + 1
<1>1. k - 1 <= m
  OBVIOUS
<1>2. k - 1 < n
  BY <1>1
<1>3. QED
  BY <1>2

\* The first acknowledgement under way becomes the last one known.
LEMMA ReceiveAckStep ==
    ASSUME OrderInv, WireInv, ReceiveAck
    PROVE  OrderInv'
<1>0. WireNumbers
  BY WireInvNumbers
<1>1. /\ acks # <<>> /\ acks' = Tail(acks) /\ Acknowledge(Head(acks))
      /\ conn = "running"
      /\ UNCHANGED <<link, attached, pipe, conn, sender, current_seqn, resent,
                     max_sent_seqn, max_received_seqn, stray, last, top, ackLost>>
  BY DEF ReceiveAck, Acknowledge, queueVars, threadVars, receiverVars
<1>2. /\ Len(acks) \in Nat /\ Len(acks') = Len(acks) - 1
      /\ \A i \in 1 .. Len(acks') : acks'[i] = acks[i + 1]
      /\ Head(acks) = acks[1] /\ 1 \in 1 .. Len(acks)
      /\ acks' = <<>> => Len(acks) = 1
      /\ acks' # <<>> => Len(acks') \in 1 .. Len(acks')
  <2>1. acks \in Seq(Nat) /\ acks # <<>> /\ acks' = Tail(acks)
    BY ONLY <1>0, <1>1 DEF WireNumbers
  <2>2. acks' \in Seq(Nat)
    BY ONLY <2>1, HeadTailProperties
  <2>3. /\ Len(acks) \in Nat /\ Len(acks') = Len(acks) - 1
        /\ \A i \in 1 .. Len(acks') : acks'[i] = acks[i + 1]
        /\ Head(acks) = acks[1] /\ 1 \in 1 .. Len(acks)
    BY ONLY <2>1
  <2>4. IF acks' = <<>> THEN Len(acks') = 0 ELSE Len(acks') \in 1 .. Len(acks')
    BY ONLY <2>2
  <2>5. QED
    BY ONLY <2>3, <2>4
<1>3. /\ \A i \in 1 .. Len(acks) : acks[i] \in Nat
      /\ acknowledged_seqn \in Nat
  BY ONLY <1>0 DEF WireNumbers
<1>4. AcksInv
  BY DEF OrderInv
<1>5. acknowledged_seqn' = acks[1]
  <2>1. acks[1] > acknowledged_seqn
    BY ONLY <1>2, <1>3, <1>4 DEF AcksInv
  <2>2. QED
    BY ONLY <1>1, <1>2, <2>1 DEF Acknowledge
<1>6. AcksInv'
  <2>1. ASSUME NEW i \in 1 .. Len(acks')
        PROVE  i + 1 \in 1 .. Len(acks) /\ 1 < i + 1 /\ acks'[i] = acks[i + 1]
    BY ONLY <1>2, i \in 1 .. Len(acks')
  <2>2. ASSUME NEW i \in 1 .. Len(acks') PROVE acknowledged_seqn' < acks'[i]
    BY ONLY <1>2, <1>4, <1>5, <2>1, i \in 1 .. Len(acks') DEF AcksInv
  <2>3. ASSUME NEW i \in 1 .. Len(acks'), NEW j \in 1 .. Len(acks'), i < j
        PROVE  acks'[i] < acks'[j]
    <3>1. i + 1 < j + 1
      BY ONLY i \in 1 .. Len(acks'), j \in 1 .. Len(acks'), i < j
    <3>2. QED
      BY ONLY <1>4, <2>1, <3>1, i \in 1 .. Len(acks'), j \in 1 .. Len(acks') DEF AcksInv
  <2>4. QED
    BY ONLY <2>2, <2>3 DEF AcksInv
<1>7. ConnectionInv'
  <2>1. acknowledged_seqn < acknowledged_seqn'
    BY ONLY <1>2, <1>4, <1>5 DEF AcksInv
  <2>2. acknowledged_seqn' \in Nat /\ current_seqn \in Nat
    BY ONLY <1>0, <1>2, <1>3, <1>5 DEF WireNumbers
  <2>3. ConnectionInv
    BY DEF OrderInv
  <2>4. current_seqn' <= acknowledged_seqn' + 1
    <3>1. current_seqn <= acknowledged_seqn + 1
      BY ONLY <2>3 DEF ConnectionInv
    <3>2. current_seqn' = current_seqn
      BY ONLY <1>1
    <3>3. acknowledged_seqn \in Nat
      BY ONLY <1>3
    <3>4. current_seqn <= acknowledged_seqn' + 1
      BY ONLY <2>1, <2>2, <3>1, <3>3, BoundGrows
    <3>5. QED
      BY ONLY <3>2, <3>4, Zenon
  <2>5. QED
    BY ONLY <1>1, <2>3, <2>4 DEF ConnectionInv
<1>8. FirstSeqn' = FirstSeqn /\ Sending' = Sending /\ NextSeqn' = NextSeqn
  BY ONLY <1>1 DEF FirstSeqn, NextSeqn, Sending, ResentSeqn
<1>9. PipeInv'
  <2>1. PipeInv
    BY DEF OrderInv
  <2>2. Sending \/ pipe # <<>> =>
          /\ acknowledged_seqn' < FirstSeqn
          /\ \A i \in 1 .. Len(acks') : acks'[i] < FirstSeqn
    BY ONLY <1>2, <1>5, <2>1 DEF PipeInv
  <2>3. QED
    BY ONLY <1>1, <1>8, <2>1, <2>2 DEF PipeInv
<1>10. ReadInv'
  BY ONLY <1>1, <1>2, <1>5, OrderInv DEF OrderInv, ReadInv
<1>11. CleanInv'
  BY ONLY <1>1, <1>2, <1>5, OrderInv DEF OrderInv, CleanInv
<1>12. QED
  BY <1>6, <1>7, <1>9, <1>10, <1>11 DEF OrderInv

\* reprocess starts to send with the number after the last acknowledged.
LEMMA StartReprocessOrder ==
    ASSUME OrderInv, WireInv, StartReprocess, Offline
    PROVE  OrderInv'
<1>0. WireNumbers
  BY WireInvNumbers
<1>1. /\ conn = "resuming" /\ conn' = "resending" /\ resent' = 0
      /\ sender' = sender
      /\ UNCHANGED <<link, attached, pipe, acks, acknowledged_seqn, ackLost,
                     max_received_seqn, stray, last, top>>
  BY DEF StartReprocess, Offline, netVars, receiverVars
<1>2. ConnectionInv /\ AcksInv /\ ReadInv /\ CleanInv
  BY DEF OrderInv
<1>3. pipe = <<>> /\ acks = <<>> /\ attached = FALSE
  BY <1>0, <1>1, <1>2 DEF ConnectionInv, WireNumbers
<1>4. current_seqn' = acknowledged_seqn + 1
  <2>1. current_seqn' = IF current_seqn <= acknowledged_seqn
                        THEN acknowledged_seqn + 1 ELSE current_seqn
    BY DEF StartReprocess, DropAcknowledged
  <2>2. current_seqn \in Nat /\ acknowledged_seqn \in Nat
    BY <1>0 DEF WireNumbers
  <2>3. QED
    BY ONLY <1>2, <2>1, <2>2 DEF ConnectionInv
<1>5. acknowledged_seqn \in Nat
  BY <1>0 DEF WireNumbers
<1>6. ConnectionInv'
  BY ONLY <1>1, <1>2, <1>3, <1>4, <1>5 DEF ConnectionInv
<1>7. AcksInv' /\ ReadInv' /\ CleanInv'
  BY ONLY <1>1, <1>2 DEF AcksInv, ReadInv, CleanInv
<1>8. FirstSeqn' = acknowledged_seqn + 1 /\ NextSeqn' = acknowledged_seqn + 1
  BY ONLY <1>1, <1>3, <1>4, <1>5 DEF FirstSeqn, NextSeqn, ResentSeqn
<1>9. PipeInv'
  <2>1. Len(pipe') = 0 /\ Len(acks') = 0
    BY <1>1, <1>3
  <2>2. stray' < LengthSize => FirstSeqn' <= max_received_seqn' + 1
    <3>1. max_received_seqn \in Nat
      BY <1>0 DEF WireNumbers
    <3>2. QED
      BY ONLY <1>1, <1>2, <1>5, <1>8, <3>1 DEF ReadInv
  <2>3. QED
    BY ONLY <1>1, <1>5, <1>8, <2>1, <2>2 DEF PipeInv
<1>10. QED
  BY <1>6, <1>7, <1>9 DEF OrderInv

\* The end of the stream clears an incomplete length.
LEMMA EndOfStreamStep ==
    ASSUME OrderInv, WireInv, EndOfStream
    PROVE  OrderInv'
<1>0. WireNumbers
  BY WireInvNumbers
<1>1. /\ pipe = <<>> /\ link # "up"
      /\ stray' = IF stray < LengthSize THEN 0 ELSE stray
      /\ UNCHANGED <<link, attached, pipe, acks, acknowledged_seqn, ackLost,
                     conn, sender, current_seqn, max_received_seqn, last, top>>
  BY DEF EndOfStream, netVars, bufferVars, threadVars, queueVars
<1>2. ConnectionInv' /\ AcksInv'
  BY ONLY <1>1, OrderInv DEF OrderInv, ConnectionInv, AcksInv
<1>3. PipeInv'
  <2>1. ~Sending' /\ Len(pipe') = 0
    BY <1>1 DEF Sending
  <2>2. QED
    BY ONLY <1>1, <2>1 DEF PipeInv
<1>4. ReadInv' /\ CleanInv'
  BY <1>0, <1>1 DEF WireNumbers, OrderInv, ReadInv, CleanInv, LengthSize
<1>5. QED
  BY <1>2, <1>3, <1>4 DEF OrderInv

-----------------------------------------------------------------------------
\* A package handed to the socket under the number that is next reaches the
\* pipe, or there is no connection any more.
LEMMA TransmitOrder ==
    ASSUME OrderInv, WireInv, ConnectionInv', NEW sent \in BOOLEAN,
           Transmit(sent, NextSeqn, NextSeqn), conn \in {"resending", "running"},
           NextSeqn \in Nat \ {0},
           sent => NextSeqn' = NextSeqn + 1 /\ conn' = conn,
           acknowledged_seqn' = acknowledged_seqn
    PROVE  OrderInv'
<1>0. WireNumbers
  BY WireInvNumbers
<1>1. UNCHANGED <<acks, max_received_seqn, stray, last, top, acknowledged_seqn,
                  ackLost>>
  BY DEF Transmit, receiverVars
<1>2. CASE link = "up"
  <2>1. /\ sent /\ link' = "up" /\ conn' = conn /\ NextSeqn' = NextSeqn + 1
        /\ pipe' = Append(pipe, [seqn |-> NextSeqn, msg |-> NextSeqn])
    BY <1>2 DEF Transmit
  <2>2. Sending /\ Sending'
    BY <1>2, <2>1 DEF Sending
  <2>3. QED
    BY <1>0, <1>1, <2>1, <2>2, AppendStep
<1>3. CASE link # "up"
  <2>1. pipe' = pipe /\ link' # "up"
    BY <1>3 DEF Transmit
  <2>2. ~Sending'
    BY <2>1 DEF Sending
  <2>3. QED
    BY <1>0, <1>1, <2>1, <2>2, PassiveStep
<1>4. QED
  BY <1>2, <1>3

LEMMA SendFrontOrder ==
    ASSUME OrderInv, WireInv, NEW sent \in BOOLEAN, WireSendFront(sent)
    PROVE  OrderInv'
<1>0. WireNumbers
  BY WireInvNumbers
<1>1. /\ sender = "processing" /\ queue # <<>>
      /\ sender' \in {"processing", "check"}
      /\ max_sent_seqn' = IF sent THEN max_sent_seqn + 1 ELSE max_sent_seqn
      /\ UNCHANGED <<conn, current_seqn, acknowledged_seqn, resent>>
      /\ Transmit(sent, max_sent_seqn + 1, Head(queue))
  BY DEF WireSendFront, SendFront
<1>2. Head(queue) = max_sent_seqn + 1
  <2>1. /\ queue \in Seq(Nat) /\ Consecutive(queue, max_sent_seqn + 1)
        /\ max_sent_seqn + 1 \in Nat
    BY DEF WireInv, BufferInv, TypeOK, NumberedInOrder
  <2>2. QED
    BY ONLY <1>1, <2>1, TailConsecutive
<1>3. conn \notin {"resuming", "resending"} /\ ~attached
  BY <1>1 DEF OrderInv, ConnectionInv
<1>4. /\ attached' = attached /\ acks' = acks
      /\ link' \in {link, "dead"}
  BY <1>1 DEF Transmit
<1>5. ConnectionInv'
  BY ONLY <1>1, <1>3, <1>4, OrderInv DEF OrderInv, ConnectionInv
<1>6. CASE conn = "running"
  <2>1. NextSeqn = max_sent_seqn + 1 /\ NextSeqn' = max_sent_seqn' + 1
    BY <1>1, <1>6 DEF NextSeqn
  <2>2. NextSeqn \in Nat \ {0} /\ (sent => NextSeqn' = NextSeqn + 1)
    BY <1>0, <1>1, <2>1 DEF WireNumbers
  <2>3. Transmit(sent, NextSeqn, NextSeqn)
    BY <1>1, <1>2, <2>1
  <2>4. QED
    BY <1>1, <1>5, <1>6, <2>2, <2>3, TransmitOrder
<1>7. CASE conn # "running"
  <2>1. ~Sending'
    BY <1>1, <1>3, <1>7 DEF Sending
  <2>2. link # "up"
    <3>1. conn \in ConnPoints
      BY DEF WireInv, BufferInv, TypeOK
    <3>2. QED
      BY <1>3, <1>7, <3>1 DEF OrderInv, ConnectionInv, ConnPoints
  <2>3. UNCHANGED <<pipe, acks, max_received_seqn, stray, last, top,
                    acknowledged_seqn, ackLost>>
    BY <1>1, <2>2 DEF Transmit, receiverVars
  <2>4. QED
    BY <1>0, <1>5, <2>1, <2>3, PassiveStep
<1>8. QED
  BY <1>6, <1>7

LEMMA ResendOrder ==
    ASSUME OrderInv, WireInv, NEW sent \in BOOLEAN, WireResend(sent)
    PROVE  OrderInv'
<1>0. WireNumbers
  BY WireInvNumbers
<1>1. /\ conn = "resending" /\ resent < Len(pending_queue)
      /\ IF sent THEN resent' = resent + 1 /\ conn' = conn
                 ELSE conn' = "running" /\ resent' = resent
      /\ UNCHANGED <<current_seqn, acknowledged_seqn, sender>>
      /\ Transmit(sent, ResentSeqn, pending_queue[resent + 1])
  BY DEF WireResend, Resend, Resumed, queueVars
<1>2. NextSeqn = ResentSeqn /\ NextSeqn \in Nat \ {0} /\ pending_queue[resent + 1] = NextSeqn
  <2>1. /\ resent \in Nat /\ Consecutive(pending_queue, current_seqn)
        /\ current_seqn \in Nat \ {0} /\ Len(pending_queue) \in Nat
    BY DEF WireInv, BufferInv, TypeOK, NumberedInOrder
  <2>2. NextSeqn = current_seqn + resent
    BY <1>1 DEF NextSeqn, ResentSeqn
  <2>3. QED
    BY ONLY <1>1, <2>1, <2>2 DEF Consecutive, ResentSeqn
<1>3. Transmit(sent, NextSeqn, NextSeqn)
  BY <1>1, <1>2
<1>4. /\ attached' = attached /\ acks' = acks
      /\ conn' \in {"resending", "running"}
  BY <1>1 DEF Transmit
<1>5. ConnectionInv'
  <2>1. ConnectionInv /\ attached \in BOOLEAN
    BY <1>0 DEF OrderInv, WireNumbers
  <2>2. ~attached
    BY ONLY <1>1, <2>1 DEF ConnectionInv
  <2>3. sender' \in {"check", "exited"} /\ current_seqn' <= acknowledged_seqn' + 1
    BY ONLY <1>1, <2>1 DEF ConnectionInv
  <2>4. QED
    BY ONLY <1>4, <2>2, <2>3 DEF ConnectionInv
<1>6. sent => NextSeqn' = NextSeqn + 1 /\ conn' = conn
  BY <1>0, <1>1 DEF NextSeqn, ResentSeqn, WireNumbers
<1>7. QED
  BY <1>1, <1>2, <1>3, <1>5, <1>6, TransmitOrder

\* The steps of the send queue that touch no socket.
LEMMA BufferStepOrder ==
    ASSUME OrderInv, WireInv, BufferStep
    PROVE  OrderInv'
<1>0. WireNumbers
  BY WireInvNumbers
<1>1. UNCHANGED <<link, attached, pipe, acks, max_received_seqn, stray, last, top,
                  ackLost>>
  BY DEF BufferStep, Offline, netVars, receiverVars
<1>2. ConnectionInv
  BY DEF OrderInv
<1>3. CASE Put \/ Exit \/ EnterProcess \/ LeaveProcess \/ Stop \/ CleanUp
  <2>1. UNCHANGED <<conn, acknowledged_seqn, current_seqn, resent, max_sent_seqn>>
    BY <1>3 DEF Put, Exit, EnterProcess, LeaveProcess, Stop, CleanUp, queueVars,
                threadVars
  <2>2. \/ sender' \in {sender, "exited"}
        \/ sender \notin {"check", "exited"}
    BY <1>3 DEF Put, Exit, EnterProcess, LeaveProcess, Stop, CleanUp, threadVars
  <2>3. ConnectionInv'
    BY ONLY <1>1, <1>2, <2>1, <2>2 DEF ConnectionInv
  <2>4. Sending' = Sending /\ NextSeqn' = NextSeqn
    BY ONLY <1>1, <2>1 DEF Sending, NextSeqn, ResentSeqn
  <2>5. QED
    BY <1>0, <1>1, <2>1, <2>3, <2>4, PassiveStep
<1>4. CASE TakeBatch
  <2>1. /\ UNCHANGED <<conn, acknowledged_seqn, current_seqn, resent, max_sent_seqn>>
        /\ interrupt_balance = 0
    BY <1>4 DEF TakeBatch
  <2>2. conn = "running"
    BY <2>1 DEF WireInv, BufferInv, PausesAlternate
  <2>3. ConnectionInv'
    BY ONLY <1>1, <1>2, <2>1, <2>2 DEF ConnectionInv
  <2>4. Sending' = Sending /\ NextSeqn' = NextSeqn
    BY ONLY <1>1, <2>1 DEF Sending, NextSeqn, ResentSeqn
  <2>5. QED
    BY <1>0, <1>1, <2>1, <2>3, <2>4, PassiveStep
<1>5. CASE Paused
  <2>1. /\ UNCHANGED <<acknowledged_seqn, current_seqn, sender>>
        /\ conn = "pausing" /\ conn' = "paused"
    BY <1>5 DEF Paused, queueVars
  <2>2. ConnectionInv'
    BY ONLY <1>1, <1>2, <2>1 DEF ConnectionInv
  <2>3. ~Sending'
    BY <2>1 DEF Sending
  <2>4. QED
    BY <1>0, <1>1, <2>1, <2>2, <2>3, PassiveStep
<1>6. CASE StartReprocess
  BY <1>6, StartReprocessOrder DEF BufferStep
<1>7. CASE FinishResume
  <2>1. /\ UNCHANGED <<acknowledged_seqn, current_seqn, max_sent_seqn, sender>>
        /\ conn = "resending" /\ conn' = "running" /\ resent = Len(pending_queue)
    BY <1>7 DEF FinishResume, Resumed, queueVars
  <2>2. ConnectionInv'
    BY ONLY <1>1, <1>2, <2>1 DEF ConnectionInv
  <2>3. current_seqn + Len(pending_queue) = max_sent_seqn + 1
    BY DEF WireInv, BufferInv, NumberedInOrder
  <2>4. NextSeqn' = NextSeqn /\ (Sending' => Sending)
    BY ONLY <1>1, <2>1, <2>3 DEF NextSeqn, ResentSeqn, Sending
  <2>5. QED
    BY <1>0, <1>1, <2>1, <2>2, <2>4, PassiveStep
<1>8. QED
  BY <1>3, <1>4, <1>5, <1>6, <1>7 DEF BufferStep

LEMMA OrderStep ==
    ASSUME LaggingSender = FALSE, OrderInv, WireInv, [WireNext]_wireVars
    PROVE  OrderInv'
<1>0. WireNumbers
  BY WireInvNumbers
<1>1. CASE Connect
  BY <1>1, ConnectStep
<1>2. CASE Break \/ CloseSocket
  BY <1>2, CutStep DEF Break, CloseSocket
<1>3. CASE Shutdown
  <2>1. /\ conn = "paused" /\ conn' = conn /\ ~attached /\ link' = "none"
        /\ UNCHANGED <<attached, pipe, acks, acknowledged_seqn, current_seqn,
                       sender, max_received_seqn, stray, last, top, ackLost>>
    BY <1>3 DEF Shutdown, bufferVars, queueVars, threadVars, receiverVars
  <2>2. ConnectionInv' /\ ~Sending'
    BY ONLY <2>1, OrderInv DEF OrderInv, ConnectionInv, Sending
  <2>3. QED
    BY <1>0, <2>1, <2>2, PassiveStep
<1>4. CASE BufferStep
  BY <1>4, BufferStepOrder
<1>5. CASE WireResume
  <2>1. /\ conn = "paused" /\ conn' = "resuming" /\ attached /\ attached' = FALSE
        /\ UNCHANGED <<link, pipe, acks, acknowledged_seqn, current_seqn,
                       sender, max_received_seqn, stray, last, top, ackLost>>
    BY <1>5 DEF WireResume, Resume, queueVars, receiverVars
  <2>2. ConnectionInv' /\ ~Sending'
    BY ONLY <2>1, OrderInv DEF OrderInv, ConnectionInv, Sending
  <2>3. QED
    BY <1>0, <2>1, <2>2, PassiveStep
<1>6. CASE ReceiveAck
  BY <1>6, ReceiveAckStep
<1>7. CASE Disconnected
  <2>1. /\ conn = "running" /\ conn' = "pausing" /\ acks = <<>> /\ link # "up"
        /\ UNCHANGED <<link, attached, pipe, acks, acknowledged_seqn, current_seqn,
                       sender, max_received_seqn, stray, last, top, ackLost>>
    BY <1>7 DEF Disconnected, Pause, queueVars, receiverVars, netVars
  <2>2. ConnectionInv' /\ ~Sending'
    BY ONLY <2>1, OrderInv DEF OrderInv, ConnectionInv, Sending
  <2>3. QED
    BY <1>0, <2>1, <2>2, PassiveStep
<1>8. ASSUME NEW sent \in BOOLEAN, WireSendFront(sent) \/ WireResend(sent)
      PROVE  OrderInv'
  BY <1>8, SendFrontOrder, ResendOrder
<1>9. CASE ReadRepeated \/ ReadAndDispatch \/ ReadGarbled
  BY <1>9, ReadStep
<1>10. CASE EndOfStream
  BY <1>10, EndOfStreamStep
<1>11. CASE UNCHANGED wireVars
  <2>1. UNCHANGED <<link, attached, pipe, acks, acknowledged_seqn, current_seqn,
                    conn, resent, max_sent_seqn, sender, max_received_seqn, stray,
                    last, top, ackLost>>
    BY <1>11 DEF wireVars, bufferVars, queueVars, threadVars, netVars, receiverVars
  <2>2. ConnectionInv' /\ Sending' = Sending /\ NextSeqn' = NextSeqn
    BY ONLY <2>1, OrderInv DEF OrderInv, ConnectionInv, Sending, NextSeqn, ResentSeqn
  <2>3. QED
    BY <1>0, <2>1, <2>2, PassiveStep
<1>12. QED
  BY <1>1, <1>2, <1>3, <1>4, <1>5, <1>6, <1>7, <1>8, <1>9, <1>10, <1>11 DEF WireNext

LEMMA OrderInvariant ==
    ASSUME LaggingSender = FALSE
    PROVE  WireSpec => [](WireInv /\ OrderInv)
<1>1. WireInv /\ OrderInv /\ [WireNext]_wireVars => (WireInv /\ OrderInv)'
  BY WireStepKeepsInv, OrderStep
<1>2. WireInit => WireInv /\ OrderInv
  BY WireInvInit, OrderInvInit
<1>3. QED
  BY <1>1, <1>2, PTL DEF WireSpec

(***************************************************************************)
(* With a sender thread that does not lag into the next connection,        *)
(* acknowledgements arrive in increasing order: the message "Acknowledge   *)
(* {} called, while next seqn MUST BE greater than {}" is never logged.    *)
(***************************************************************************)
THEOREM AcknowledgementsIncrease ==
    ASSUME LaggingSender = FALSE
    PROVE  WireSpec => []AcksIncrease
<1>1. WireInv /\ OrderInv => AcksIncrease
  <2>1. SUFFICES ASSUME WireInv, OrderInv, acks # <<>>
                 PROVE  Head(acks) > acknowledged_seqn
    BY DEF AcksIncrease
  <2>2. WireNumbers /\ AcksInv
    BY <2>1, WireInvNumbers DEF OrderInv
  <2>3. acks \in Seq(Nat) /\ acknowledged_seqn \in Nat
    BY ONLY <2>2 DEF WireNumbers
  <2>4. Head(acks) = acks[1] /\ 1 \in 1 .. Len(acks) /\ acks[1] \in Nat
    BY ONLY <2>1, <2>3
  <2>5. QED
    BY ONLY <2>2, <2>3, <2>4 DEF AcksInv
<1>2. QED
  BY <1>1, OrderInvariant, PTL

(***************************************************************************)
(* As long as no acknowledgement is lost with a connection, the receiver   *)
(* never takes a byte of a package for a length, and what it dispatched    *)
(* last is the greatest message it ever dispatched.                        *)
(***************************************************************************)
THEOREM NothingRepeatedWithoutLoss ==
    ASSUME LaggingSender = FALSE
    PROVE  WireSpec => []CleanWithoutLoss
<1>1. WireInv /\ OrderInv => CleanWithoutLoss
  BY DEF OrderInv, CleanInv, CleanWithoutLoss
<1>2. QED
  BY <1>1, OrderInvariant, PTL

-----------------------------------------------------------------------------
(***************************************************************************)
(* The refinement of WireDelivery                                          *)
(***************************************************************************)

\* What reprocess forgets is acknowledged, and what is acknowledged was
\* dispatched, unless the receiver has lost the boundaries.
LEMMA ForgetStep ==
    ASSUME WireInv, OrderInv, StartReprocess, Offline
    PROVE  Delivery!Forget \/ UNCHANGED Delivery!vars
<1>1. UNCHANGED <<puts, last, top, turn, stray>>
  BY DEF StartReprocess, Offline, receiverVars
<1>2. WireNumbers
  BY WireInvNumbers
<1>3. CASE current_seqn <= acknowledged_seqn
  <2>1. current_seqn' = acknowledged_seqn + 1
    BY <1>3 DEF StartReprocess, DropAcknowledged
  <2>2. current_seqn' - 1 = acknowledged_seqn
    BY <1>2, <2>1 DEF WireNumbers
  <2>3. acknowledged_seqn <= puts /\ current_seqn - 1 + 1 <= acknowledged_seqn
        /\ acknowledged_seqn \in Nat /\ puts \in Nat /\ current_seqn - 1 + 1 \in Nat
    BY <1>3, MaxPutsAssumption
       DEF WireInv, BufferInv, TypeOK, AcknowledgedIsSent, NumberedInOrder
  <2>4. acknowledged_seqn <= top \/ stray = LengthSize
    <3>1. stray < LengthSize \/ stray = LengthSize
      BY <1>2 DEF WireNumbers, LengthSize
    <3>2. stray < LengthSize =>
            acknowledged_seqn <= max_received_seqn /\ max_received_seqn <= top
      BY DEF OrderInv, ReadInv
    <3>3. acknowledged_seqn \in Nat /\ max_received_seqn \in Nat /\ top \in Nat
      BY <1>2 DEF WireNumbers
    <3>4. QED
      BY ONLY <3>1, <3>2, <3>3
  <2>5. acknowledged_seqn \in current_seqn - 1 + 1 .. puts
    BY ONLY <2>3
  <2>6. Delivery!Forget
    BY ONLY <1>1, <2>2, <2>4, <2>5 DEF Delivery!Forget
  <2>7. QED
    BY <2>6
<1>4. CASE ~(current_seqn <= acknowledged_seqn)
  <2>1. current_seqn' = current_seqn
    BY <1>4 DEF StartReprocess, DropAcknowledged
  <2>2. QED
    BY <1>1, <2>1 DEF Delivery!vars
<1>5. QED
  BY <1>3, <1>4

\* What the receiver reads is the next message, or the first one again, or
\* costs it the boundaries.
LEMMA DeliverStep ==
    ASSUME WireInv, OrderInv, ReadRepeated \/ ReadAndDispatch \/ ReadGarbled
    PROVE  Delivery!Next \/ UNCHANGED Delivery!vars
<1>. DEFINE n == Head(pipe).seqn
<1>1. WireNumbers
  BY WireInvNumbers
<1>2. pipe # <<>> /\ puts' = puts /\ current_seqn' = current_seqn
  BY DEF ReadRepeated, ReadAndDispatch, ReadGarbled, Received, bufferVars,
         queueVars
<1>3. n \in Nat \ {0} /\ Head(pipe).msg = n /\ n <= max_sent_seqn
  <2>1. Head(pipe) \in Sent(max_sent_seqn)
    BY <1>2, HeadTailProperties DEF WireInv, UnderWay
  <2>2. max_sent_seqn \in Nat
    BY <1>1 DEF WireNumbers
  <2>3. PICK k \in 1 .. max_sent_seqn : Head(pipe) = [seqn |-> k, msg |-> k]
    BY ONLY <2>1 DEF Sent
  <2>4. n = k /\ Head(pipe).msg = k
    BY ONLY <2>3
  <2>5. QED
    BY ONLY <2>2, <2>4
<1>4. n = FirstSeqn
  <2>1. Head(pipe) = pipe[1]
    BY <1>1, <1>2 DEF WireNumbers
  <2>2. QED
    BY <1>2, <2>1 DEF FirstSeqn
<1>5. n <= puts /\ puts \in Nat
  <2>1. /\ max_sent_seqn + Len(queue) + Len(data) = puts
        /\ Len(queue) \in Nat /\ Len(data) \in Nat /\ puts \in Nat
        /\ max_sent_seqn \in Nat
    BY MaxPutsAssumption DEF WireInv, BufferInv, TypeOK, NumberedInOrder
  <2>. HIDE DEF n
  <2>2. QED
    BY ONLY <1>3, <2>1
<1>6. /\ last \in Nat /\ top \in Nat /\ max_received_seqn \in Nat
      /\ stray \in 0 .. 4
  BY <1>1 DEF WireNumbers
<1>7. stray < 4 =>
        /\ n <= max_received_seqn + 1
        /\ last = max_received_seqn /\ max_received_seqn <= top
        /\ stray > 0 => top > 1
  BY <1>2, <1>4 DEF OrderInv, PipeInv, ReadInv, LengthSize
<1>8. CASE ReadRepeated
  <2>1. /\ n <= max_received_seqn /\ n # 1
        /\ UNCHANGED <<last, top, turn>>
        /\ stray' = IF stray < 4 THEN stray + 1 ELSE stray
    BY <1>8 DEF ReadRepeated, Repeated, LengthSize
  <2>. HIDE DEF n
  <2>2. CASE stray = 3
    <3>1. top > 1 /\ stray' = 4
      BY ONLY <1>3, <1>6, <1>7, <2>1, <2>2
    <3>2. Delivery!Garble
      BY ONLY <1>2, <2>1, <3>1 DEF Delivery!Garble, LengthSize
    <3>3. QED
      BY <3>2 DEF Delivery!Next
  <2>3. CASE stray # 3
    <3>1. (stray' = LengthSize) = (stray = LengthSize)
      BY ONLY <1>6, <2>1, <2>3 DEF LengthSize
    <3>2. QED
      BY ONLY <1>2, <2>1, <3>1 DEF Delivery!vars
  <2>4. QED
    BY <2>2, <2>3
<1>9. CASE ReadAndDispatch
  <2>1. /\ ~(n <= max_received_seqn /\ n # 1)
        /\ last' = n /\ turn' = ~turn /\ stray = 0 /\ stray' = stray
        /\ top' = IF n > top THEN n ELSE top
    BY <1>3, <1>9 DEF ReadAndDispatch, Repeated
  <2>. HIDE DEF n
  <2>2. ~(stray = LengthSize) /\ (stray' = LengthSize) = (stray = LengthSize)
    BY ONLY <2>1 DEF LengthSize
  <2>3. CASE n = last + 1
    <3>1. last < puts /\ last' = last + 1
          /\ top' = IF last + 1 > top THEN last + 1 ELSE top
      BY ONLY <1>5, <1>6, <2>1, <2>3
    <3>2. Delivery!Deliver
      BY ONLY <1>2, <2>1, <2>2, <3>1 DEF Delivery!Deliver
    <3>3. QED
      BY <3>2 DEF Delivery!Next
  <2>4. CASE n # last + 1
    <3>1. n = 1 /\ last > 0 /\ top' = top
      BY ONLY <1>3, <1>6, <1>7, <2>1, <2>4
    <3>2. Delivery!StartOver
      BY ONLY <1>2, <2>1, <2>2, <3>1 DEF Delivery!StartOver
    <3>3. QED
      BY <3>2 DEF Delivery!Next
  <2>5. QED
    BY <2>3, <2>4
<1>10. CASE ReadGarbled
  <2>1. stray > 0 /\ stray' = 4 /\ UNCHANGED <<last, top, turn>>
    BY <1>10 DEF ReadGarbled, LengthSize
  <2>. HIDE DEF n
  <2>2. CASE stray < 4
    <3>1. top > 1
      BY ONLY <1>7, <2>1, <2>2
    <3>2. Delivery!Garble
      BY ONLY <1>2, <2>1, <3>1 DEF Delivery!Garble, LengthSize
    <3>3. QED
      BY <3>2 DEF Delivery!Next
  <2>3. CASE stray = 4
    BY ONLY <1>2, <2>1, <2>3 DEF Delivery!vars, LengthSize
  <2>4. QED
    BY <1>6, <2>2, <2>3
<1>11. QED
  BY <1>8, <1>9, <1>10

LEMMA WireStepIsDelivery ==
    ASSUME WireInv, OrderInv, [WireNext]_wireVars
    PROVE  Delivery!Next \/ UNCHANGED Delivery!vars
<1>1. CASE UNCHANGED <<puts, last, top, turn, current_seqn, stray>>
  BY ONLY <1>1 DEF Delivery!vars
<1>2. CASE BufferStep
  <2>1. CASE Put
    <3>1. /\ puts' = puts + 1
          /\ UNCHANGED <<last, top, turn, current_seqn, stray>>
      BY <1>2, <2>1 DEF BufferStep, Put, Offline, receiverVars
    <3>2. Delivery!Accept
      BY ONLY <3>1 DEF Delivery!Accept
    <3>3. QED
      BY <3>2 DEF Delivery!Next
  <2>2. CASE StartReprocess
    BY <1>2, <2>2, ForgetStep DEF BufferStep, Delivery!Next
  <2>3. CASE ~Put /\ ~StartReprocess
    <3>1. UNCHANGED <<puts, last, top, turn, current_seqn, stray>>
      BY <1>2, <2>3 DEF BufferStep, TakeBatch, Exit, EnterProcess, LeaveProcess,
           Paused, FinishResume, Stop, CleanUp, Offline, receiverVars, queueVars
    <3>2. QED
      BY <1>1, <3>1
  <2>4. QED
    BY <2>1, <2>2, <2>3
<1>3. CASE ReadRepeated \/ ReadAndDispatch \/ ReadGarbled
  BY <1>3, DeliverStep
<1>4. CASE EndOfStream
  <2>1. /\ UNCHANGED <<puts, last, top, turn, current_seqn>>
        /\ stray' = IF stray < LengthSize THEN 0 ELSE stray
    BY <1>4 DEF EndOfStream, bufferVars, queueVars
  <2>2. (stray' = LengthSize) = (stray = LengthSize)
    BY <2>1 DEF LengthSize
  <2>3. QED
    BY ONLY <2>1, <2>2 DEF Delivery!vars
<1>5. CASE Connect \/ Break \/ CloseSocket \/ Shutdown \/ WireResume
             \/ ReceiveAck \/ Disconnected
  <2>1. UNCHANGED <<puts, last, top, turn, current_seqn, stray>>
    BY <1>5 DEF Connect, Break, CloseSocket, Cut, Shutdown, WireResume, Resume,
                ReceiveAck, Acknowledge, Disconnected, Pause, bufferVars,
                queueVars, receiverVars
  <2>2. QED
    BY <1>1, <2>1
<1>6. ASSUME NEW sent \in BOOLEAN, WireSendFront(sent) \/ WireResend(sent)
      PROVE  UNCHANGED Delivery!vars
  <2>1. UNCHANGED <<puts, last, top, turn, current_seqn, stray>>
    BY <1>6 DEF WireSendFront, SendFront, WireResend, Resend, Transmit, queueVars,
                receiverVars
  <2>2. QED
    BY ONLY <2>1 DEF Delivery!vars
<1>7. CASE UNCHANGED wireVars
  <2>1. UNCHANGED <<puts, last, top, turn, current_seqn, stray>>
    BY <1>7 DEF wireVars, bufferVars, queueVars, receiverVars
  <2>2. QED
    BY <1>1, <2>1
<1>8. QED
  BY <1>2, <1>3, <1>4, <1>5, <1>6, <1>7 DEF WireNext

(***************************************************************************)
(* The wire keeps what WireDelivery promises, over every number of         *)
(* connections and however they break: messages are dispatched in order    *)
(* and without gaps, start over at most from the first, and none is        *)
(* forgotten that was not dispatched, unless a repeated package has cost   *)
(* the receiver the boundaries of the messages.                            *)
(***************************************************************************)
THEOREM WireImplementsDelivery ==
    ASSUME LaggingSender = FALSE
    PROVE  WireSpec => ImplementsDelivery
<1>1. WireInit => Delivery!Init
  BY DEF WireInit, Init, Delivery!Init, LengthSize
<1>2. WireInv /\ OrderInv /\ [WireNext]_wireVars =>
        [Delivery!Next]_(Delivery!vars)
  BY WireStepIsDelivery
<1>3. QED
  BY <1>1, <1>2, OrderInvariant, PTL DEF WireSpec, ImplementsDelivery, Delivery!Spec
=============================================================================
