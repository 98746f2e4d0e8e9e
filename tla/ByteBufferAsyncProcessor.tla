---------------------- MODULE ByteBufferAsyncProcessor ----------------------
(***************************************************************************)
(* The send queue of the RD wire (ByteBufferAsyncProcessor.{h,cpp}).       *)
(* Threads put messages, one thread of its own (ThreadProc) sends them,    *)
(* the thread of the connection pauses and resumes it around connections   *)
(* and hands it the acknowledgements, and another thread stops it.         *)
(*                                                                         *)
(* Three mutexes order them.  `lock' is held by pause and resume from      *)
(* their first line to their last, and for one step by everybody else;     *)
(* `queue_lock' and `processing_lock' are held by process while it sends,  *)
(* `queue_lock' by reprocess while it sends again.  So the program         *)
(* counters below say who holds what, and a step is what a thread does     *)
(* between two points where another thread can act.  A wait on a condition *)
(* variable is a guard: each change of a condition is followed by a notify.*)
(*                                                                         *)
(* A message is its rank among the messages accepted.  What the processor  *)
(* function (SocketWire::send0) answers is `sent', the environment's       *)
(* choice here and the socket's in SocketWire.tla.                         *)
(***************************************************************************)
EXTENDS Naturals, Sequences

CONSTANT MaxPuts    \* bound: how many messages are put

ASSUME MaxPutsAssumption == MaxPuts \in Nat

\* stop() is the only caller of terminate0, and start() follows the first
\* pause() in the constructor of the wire: the states Initialized and
\* Terminating do not occur.
StateKind == {"AsyncProcessing", "Stopping", "Terminated"}

VARIABLES
    state,              \* the StateKind
    data,               \* messages put and not yet taken by the sender thread
    queue,              \* messages taken, not sent
    pending_queue,      \* messages sent, not known to be acknowledged
    max_sent_seqn,      \* number of the last message sent
    current_seqn,       \* number of the first message of pending_queue
    acknowledged_seqn,  \* greatest number acknowledged
    interrupt_balance,  \* pauses that are not yet resumed
    sender,             \* where the sender thread is in ThreadProc
    conn,               \* where the connection's thread is in pause and resume
    resent,             \* how many of pending_queue reprocess has sent again
    puts                \* messages accepted so far

queueVars  == <<data, queue, pending_queue, max_sent_seqn, current_seqn, puts>>
threadVars == <<sender, conn, resent, interrupt_balance, state>>
bufferVars == <<queueVars, threadVars, acknowledged_seqn>>

\* "check"      under `lock', deciding whether to take, wait or leave
\* "taken"      messages moved to queue, `lock' released, process not entered
\* "processing" in process, holding queue_lock and processing_lock
\* "exited"     ThreadProc has returned
SenderPoints == {"check", "taken", "processing", "exited"}

\* "paused"     between a pause and the next resume
\* "resuming"   in resume, holding `lock', waiting for queue_lock
\* "resending"  in reprocess, holding `lock' and queue_lock
\* "running"    between a resume and the next pause
\* "pausing"    in pause, holding `lock', waiting for processing_lock
ConnPoints == {"paused", "resuming", "resending", "running", "pausing"}

LockIsFree == conn \in {"paused", "running"}

-----------------------------------------------------------------------------
\* The wire has been built: paused once, sender thread started.
Init ==
    /\ state = "AsyncProcessing"
    /\ data = <<>> /\ queue = <<>> /\ pending_queue = <<>>
    /\ max_sent_seqn = 0 /\ current_seqn = 1 /\ acknowledged_seqn = 0
    /\ interrupt_balance = 1
    /\ sender = "check" /\ conn = "paused" /\ resent = 0
    /\ puts = 0

\* A message put after the stop is dropped.
Put ==
    /\ LockIsFree
    /\ state = "AsyncProcessing"
    /\ puts < MaxPuts
    /\ puts' = puts + 1
    /\ data' = Append(data, puts + 1)
    /\ UNCHANGED <<queue, pending_queue, max_sent_seqn, current_seqn,
                   acknowledged_seqn, threadVars>>

-----------------------------------------------------------------------------
(***************************************************************************)
(* ThreadProc                                                              *)
(***************************************************************************)
TakeBatch ==
    /\ sender = "check" /\ LockIsFree
    /\ state # "Terminated"
    /\ data # <<>> /\ interrupt_balance = 0
    /\ queue' = queue \o data
    /\ data' = <<>>
    /\ sender' = "taken"
    /\ UNCHANGED <<pending_queue, max_sent_seqn, current_seqn, puts,
                   acknowledged_seqn, conn, resent, interrupt_balance, state>>

\* The loop ends at the top when terminated, or instead of waiting.
MayExit ==
    \/ state = "Terminated"
    \/ state = "Stopping" /\ (data = <<>> \/ interrupt_balance # 0)

Exit ==
    /\ sender = "check" /\ LockIsFree
    /\ MayExit
    /\ sender' = "exited"
    /\ UNCHANGED <<queueVars, acknowledged_seqn,
                   conn, resent, interrupt_balance, state>>

EnterProcess ==
    /\ sender = "taken"
    /\ conn # "resending"
    /\ sender' = "processing"
    /\ UNCHANGED <<queueVars, acknowledged_seqn,
                   conn, resent, interrupt_balance, state>>

(* Mutant: a message that could not be sent is dropped. *)
SendFrontDropping(sent) ==
    /\ sender = "processing" /\ queue # <<>>
    /\ queue' = Tail(queue)
    /\ IF sent
       THEN /\ max_sent_seqn' = max_sent_seqn + 1
            /\ pending_queue' = Append(pending_queue, Head(queue))
       ELSE UNCHANGED <<max_sent_seqn, pending_queue>>
    /\ UNCHANGED <<data, current_seqn, puts, acknowledged_seqn, threadVars>>

(* Mutant: one message is sent per call of process. *)
SendFrontOnce(sent) ==
    /\ sender = "processing" /\ queue # <<>>
    /\ sender' = "check"
    /\ IF sent
       THEN /\ max_sent_seqn' = max_sent_seqn + 1
            /\ pending_queue' = Append(pending_queue, Head(queue))
            /\ queue' = Tail(queue)
       ELSE UNCHANGED <<max_sent_seqn, pending_queue, queue>>
    /\ UNCHANGED <<data, current_seqn, puts, acknowledged_seqn,
                   conn, resent, interrupt_balance, state>>

\* One turn of the loop of process.  A message that was not sent stays in
\* front and ends the loop.
SendFront(sent) ==
    /\ sender = "processing" /\ queue # <<>>
    /\ IF sent
       THEN /\ max_sent_seqn' = max_sent_seqn + 1
            /\ pending_queue' = Append(pending_queue, Head(queue))
            /\ queue' = Tail(queue)
            /\ UNCHANGED sender
       ELSE /\ sender' = "check"
            /\ UNCHANGED <<max_sent_seqn, pending_queue, queue>>
    /\ UNCHANGED <<data, current_seqn, puts, acknowledged_seqn,
                   conn, resent, interrupt_balance, state>>

LeaveProcess ==
    /\ sender = "processing" /\ queue = <<>>
    /\ sender' = "check"
    /\ UNCHANGED <<queueVars, acknowledged_seqn,
                   conn, resent, interrupt_balance, state>>

-----------------------------------------------------------------------------
(***************************************************************************)
(* pause, resume and acknowledge, on the connection's thread               *)
(***************************************************************************)
Pause ==
    /\ conn = "running"
    /\ interrupt_balance' = interrupt_balance + 1
    /\ conn' = "pausing"
    /\ UNCHANGED <<queueVars, acknowledged_seqn, sender, resent, state>>

(* Mutant: pause also waits for the queue to be sent. *)
PausedWhenEmpty ==
    /\ conn = "pausing"
    /\ sender # "processing" /\ queue = <<>>
    /\ conn' = "paused"
    /\ UNCHANGED <<queueVars, acknowledged_seqn,
                   sender, resent, interrupt_balance, state>>

Paused ==
    /\ conn = "pausing"
    /\ sender # "processing"
    /\ conn' = "paused"
    /\ UNCHANGED <<queueVars, acknowledged_seqn,
                   sender, resent, interrupt_balance, state>>

Resume ==
    /\ conn = "paused"
    /\ conn' = "resuming"
    /\ UNCHANGED <<queueVars, acknowledged_seqn,
                   sender, resent, interrupt_balance, state>>

(* Mutant: what was acknowledged is kept and sent again. *)
DropNothing == UNCHANGED <<pending_queue, current_seqn>>

(* Mutant: the message acknowledged last is kept and sent again. *)
DropAllButLast ==
    IF current_seqn < acknowledged_seqn
    THEN /\ pending_queue' =
              SubSeq(pending_queue, acknowledged_seqn - current_seqn + 1,
                     Len(pending_queue))
         /\ current_seqn' = acknowledged_seqn
    ELSE UNCHANGED <<pending_queue, current_seqn>>

\* The pops of reprocess.
DropAcknowledged ==
    IF current_seqn <= acknowledged_seqn
    THEN /\ pending_queue' =
              SubSeq(pending_queue, acknowledged_seqn - current_seqn + 2,
                     Len(pending_queue))
         /\ current_seqn' = acknowledged_seqn + 1
    ELSE UNCHANGED <<pending_queue, current_seqn>>

StartReprocess ==
    /\ conn = "resuming"
    /\ sender # "processing"
    /\ DropAcknowledged
    /\ conn' = "resending" /\ resent' = 0
    /\ UNCHANGED <<data, queue, max_sent_seqn, puts, acknowledged_seqn,
                   sender, interrupt_balance, state>>

\* The end of resume, with its locks released.
Resumed ==
    /\ conn' = "running"
    /\ interrupt_balance' = interrupt_balance - 1

\* The number under which reprocess sends its next message again.
ResentSeqn == current_seqn + resent

Resend(sent) ==
    /\ conn = "resending" /\ resent < Len(pending_queue)
    /\ IF sent
       THEN resent' = resent + 1 /\ UNCHANGED <<conn, interrupt_balance>>
       ELSE Resumed /\ UNCHANGED resent
    /\ UNCHANGED <<queueVars, acknowledged_seqn, sender, state>>

FinishResume ==
    /\ conn = "resending" /\ resent = Len(pending_queue)
    /\ Resumed
    /\ UNCHANGED <<queueVars, acknowledged_seqn, sender, resent, state>>

\* Another number is only logged.
Acknowledge(seqn) ==
    /\ conn = "running"
    /\ acknowledged_seqn' = IF seqn > acknowledged_seqn THEN seqn
                                                       ELSE acknowledged_seqn
    /\ UNCHANGED <<queueVars, threadVars>>

-----------------------------------------------------------------------------
(***************************************************************************)
(* stop: terminate0 up to its wait for the sender thread, and what follows *)
(* the wait, which ends with the thread or with the timeout                *)
(***************************************************************************)
Stop ==
    /\ LockIsFree
    /\ state = "AsyncProcessing"
    /\ state' = "Stopping"
    /\ UNCHANGED <<queueVars, acknowledged_seqn,
                   sender, conn, resent, interrupt_balance>>

CleanUp ==
    /\ LockIsFree
    /\ state = "Stopping"
    /\ state' = "Terminated"
    /\ UNCHANGED <<queueVars, acknowledged_seqn,
                   sender, conn, resent, interrupt_balance>>

-----------------------------------------------------------------------------
Next ==
    \/ Put \/ TakeBatch \/ Exit \/ EnterProcess \/ LeaveProcess
    \/ \E sent \in BOOLEAN : SendFront(sent) \/ Resend(sent)
    \/ Pause \/ Paused \/ Resume \/ StartReprocess \/ FinishResume
    \/ \E seqn \in 1 .. max_sent_seqn : Acknowledge(seqn)
    \/ Stop \/ CleanUp

Spec == Init /\ [][Next]_bufferVars

\* The operating system runs every thread, and a call of Send returns: the
\* peer reads, or the socket breaks.  The sender thread gets a mutex that is
\* free again and again (strong fairness): a pause and the next resume are
\* blocking calls, up to half a second each, apart.  Nobody has to put,
\* pause, resume or stop.
ThreadsRun ==
    /\ SF_bufferVars(TakeBatch)
    /\ SF_bufferVars(Exit)
    /\ SF_bufferVars(EnterProcess)
    /\ WF_bufferVars(LeaveProcess)
    /\ WF_bufferVars(\E sent \in BOOLEAN : SendFront(sent))
    /\ WF_bufferVars(\E sent \in BOOLEAN : Resend(sent))
    /\ WF_bufferVars(Paused)
    /\ WF_bufferVars(StartReprocess)
    /\ WF_bufferVars(FinishResume)
    /\ WF_bufferVars(CleanUp)

FairSpec == Spec /\ ThreadsRun

-----------------------------------------------------------------------------
(***************************************************************************)
(* Properties                                                              *)
(***************************************************************************)
\* The type of every variable; interrupt_balance is 0 or 1 because one
\* thread pauses and resumes in turn.
TypeOK ==
    /\ state \in StateKind
    /\ data \in Seq(Nat) /\ queue \in Seq(Nat) /\ pending_queue \in Seq(Nat)
    /\ max_sent_seqn \in Nat /\ current_seqn \in Nat \ {0}
    /\ acknowledged_seqn \in Nat
    /\ interrupt_balance \in {0, 1}
    /\ sender \in SenderPoints /\ conn \in ConnPoints
    /\ resent \in Nat /\ resent <= Len(pending_queue)
    /\ puts \in 0 .. MaxPuts

\* s holds the messages first, first + 1, ... in order.
Consecutive(s, first) == \A i \in 1 .. Len(s) : s[i] = first + (i - 1)

(***************************************************************************)
(* Across add_data, process, reprocess and every failed send no message is *)
(* lost, duplicated or overtaken: those not yet forgotten stand in the     *)
(* three queues in the order they were put, and the number under which     *)
(* process first sends a message is the one reprocess sends it with again. *)
(***************************************************************************)
NumberedInOrder ==
    /\ Consecutive(pending_queue, current_seqn)
    /\ Consecutive(queue, max_sent_seqn + 1)
    /\ Consecutive(data, max_sent_seqn + Len(queue) + 1)
    /\ current_seqn + Len(pending_queue) = max_sent_seqn + 1
    /\ max_sent_seqn + Len(queue) + Len(data) = puts

(***************************************************************************)
(* reprocess pops pending_queue once per number up to acknowledged_seqn    *)
(* without asking whether the deque is empty: it never is, because nothing *)
(* is acknowledged that was not sent.                                      *)
(***************************************************************************)
PopsAreSafe == acknowledged_seqn < current_seqn + Len(pending_queue)

(***************************************************************************)
(* process and reprocess, which call send0 under the same header buffers   *)
(* and number the messages from the same fields, never run together.       *)
(***************************************************************************)
SendersTakeTurns == ~ (sender = "processing" /\ conn = "resending")

(***************************************************************************)
(* No thread waits for ever.  pause and resume hold `lock', on which put,  *)
(* and with it the game thread, waits, while they wait for the other two   *)
(* mutexes: there is no deadlock among the three.  After stop the sender   *)
(* thread ends, whether stop has waited for it or timed out, whatever is   *)
(* still queued and in whatever state the connection is: the object that   *)
(* it uses may then be destroyed.                                          *)
(***************************************************************************)
ThreadsGoOn ==
    /\ ~LockIsFree ~> LockIsFree
    /\ state # "AsyncProcessing" ~> sender = "exited"
=============================================================================
