---------------------------- MODULE WifiReceiver ----------------------------
(***************************************************************************)
(* The receiving half of a Wifi manager: the receiver object, its UDP      *)
(* socket and unlock pipe, the thread that calls ARNETWORKAL_WifiNetwork   *)
(* _Receive and then pops frames, and the passing of time.                 *)
(*                                                                         *)
(* Time is kept as ages (time since an event), saturated just above the    *)
(* disconnection timeout, because the code only ever compares an age with  *)
(* that timeout.  The thread may be preempted anywhere: Tick is possible   *)
(* at every program counter.                                               *)
(***************************************************************************)
EXTENDS Integers, Sequences

CONSTANTS
  Frames,         \* the frames a peer may put in a datagram
  Malformed,      \* trailing bytes PopFrame reports as a BAD_FRAME
  Corrupt,        \* a datagram select reports and recv then fails on
  Datagrams,      \* the datagrams that may arrive (sequences of frames)
  Timeout,        \* ARNETWORKAL_WIFINETWORK_DISCONNECT_TIMEOUT_MS
  SelectTimeout,  \* recvTimeoutSec of ARNETWORKAL_Manager_InitWifiNetwork
  QueueCap,       \* datagrams the kernel keeps for the socket
  FifoCap,        \* bytes the kernel keeps for the pipe
  ClientDrains    \* the client pops until PopFrame fails before it receives

Items == Frames \cup {Malformed}

ASSUME ReceiverAssumption ==
  /\ Malformed \notin Frames
  /\ Datagrams \subseteq Seq(Items)
  /\ Corrupt \notin Datagrams
  /\ Timeout \in Nat \ {0}
  /\ SelectTimeout \in Nat
  /\ QueueCap \in Nat \ {0}
  /\ FifoCap \in Nat \ {0}
  /\ ClientDrains \in BOOLEAN

VARIABLES
  rcvBuffer,         \* what the receive buffer physically holds
  size,              \* how much of it the last read filled
  currentFrame,      \* how much of that has been popped
  dateSet,           \* lastDataReceivedDate is not zero any more
  dateAge,           \* age of lastDataReceivedDate
  recvIsFlushed,
  isDisconnected,    \* the receiver's own flag
  socketQueue,       \* datagrams waiting in the socket
  fifo,              \* bytes waiting in the unlock pipe
  rcvPc,             \* where the receiving thread is
  waited,            \* how long it has been in select
  fifoReady,         \* FD_ISSET(fifo[0]) of the last select
  result,            \* what the last Receive returns
  onDisconnect,      \* the callback registered in the receiver object
  senderSeen,        \* the sender's isDisconnected as this thread reads it
  calls,             \* the callback invocations so far
  sinceData,         \* history: age of the last datagram handed over
  gap,               \* history: sinceData has exceeded Timeout
  dropped            \* history: positions of rcvBuffer holding flushed data

object   == <<rcvBuffer, size, currentFrame, dateSet, dateAge, recvIsFlushed,
              isDisconnected>>
kernel   == <<socketQueue, fifo>>
thread   == <<rcvPc, waited, fifoReady, result>>
shared   == <<onDisconnect, senderSeen, calls>>
history  == <<sinceData, gap, dropped>>
rcvVars  == <<object, kernel, thread, shared, history>>

NoCallback == [set |-> FALSE, data |-> FALSE]

Ages == 0 .. Timeout + 1

Results == {"DEFAULT", "NO_DATA_AVAILABLE", "NETWORK_ERROR"}

PCs == {"idle", "select", "checkAge", "flush", "recv", "account", "save",
        "noData", "notify", "dump", "pop"}

Init ==
  /\ rcvBuffer = <<>> /\ size = 0 /\ currentFrame = 0
  /\ dateSet = FALSE /\ dateAge = Timeout + 1
  /\ recvIsFlushed = FALSE /\ isDisconnected = FALSE
  /\ socketQueue = <<>> /\ fifo = 0
  /\ rcvPc = "idle" /\ waited = 0 /\ fifoReady = FALSE /\ result = "DEFAULT"
  /\ onDisconnect \in {NoCallback, [set |-> TRUE, data |-> TRUE]}
  /\ senderSeen = FALSE /\ calls = <<>>
  /\ sinceData = 0 /\ gap = FALSE /\ dropped = {}
-----------------------------------------------------------------------------
TooLongWithoutReceive == dateAge > Timeout

Goto(from, to) == rcvPc = from /\ rcvPc' = to

\* A read of the datagram d overwrites the start of the buffer only.
Overwrite(buffer, d) == d \o SubSeq(buffer, Len(d) + 1, Len(buffer))

(* Faulty variants of some actions: each is a plausible slip in the code,   *)
(* kept to show which property notices it.                                  *)

\* The first call forgets to initialise lastDataReceivedDate.
EnterWithoutDate ==
  /\ \/ Goto("idle", "select")
     \/ ~ClientDrains /\ Goto("pop", "select")
  /\ result' = "DEFAULT" /\ waited' = 0 /\ dateSet' = TRUE
  /\ UNCHANGED <<rcvBuffer, size, currentFrame, dateAge, recvIsFlushed,
                 isDisconnected, kernel, fifoReady, shared, history>>

\* The pipe is left out of the fd_set.
SelectReadySocketOnly ==
  /\ Goto("select", "checkAge")
  /\ socketQueue # <<>>
  /\ fifoReady' = FALSE
  /\ UNCHANGED <<object, kernel, waited, result, shared, history>>

\* The flush loop breaks out without setting recvIsFlushed.
FlushDoneUnmarked ==
  /\ Goto("flush", "dump")
  /\ socketQueue = <<>>
  /\ UNCHANGED <<object, kernel, waited, fifoReady, result, shared, history>>

\* The date is saved after every Receive, not after a read only.
NoDataSavesDate ==
  /\ Goto("noData", "dump")
  /\ result' = "NO_DATA_AVAILABLE" /\ size' = 0 /\ dateAge' = 0
  /\ UNCHANGED <<rcvBuffer, currentFrame, dateSet, recvIsFlushed, kernel,
                 isDisconnected, waited, fifoReady, shared, history>>

\* The size is taken from the buffer, not from what this read returned.
RecvDataWholeBuffer ==
  /\ Goto("recv", "account")
  /\ socketQueue # <<>> /\ Head(socketQueue) \in Datagrams \ {<<>>}
  /\ LET d == Head(socketQueue) IN
       /\ rcvBuffer' = Overwrite(rcvBuffer, d)
       /\ size' = Len(rcvBuffer')
       /\ dropped' = dropped \ 1 .. size'
  /\ socketQueue' = Tail(socketQueue)
  /\ recvIsFlushed' = FALSE
  /\ UNCHANGED <<currentFrame, dateSet, dateAge, isDisconnected, fifo, waited,
                 fifoReady, result, shared, sinceData, gap>>

\* A failed pop rewinds the cursor and leaves the size.
PopFailsKeepsSize ==
  /\ Goto("pop", "idle")
  /\ currentFrame < size => rcvBuffer[currentFrame + 1] = Malformed
  /\ currentFrame' = 0
  /\ UNCHANGED <<rcvBuffer, size, dateSet, dateAge, recvIsFlushed, kernel,
                 isDisconnected, waited, fifoReady, result, shared, history>>
-----------------------------------------------------------------------------
(* The steps of Receive and PopFrame.                                      *)

\* The thread calls Receive; the very first call starts the clock.
Enter ==
  /\ \/ Goto("idle", "select")
     \/ ~ClientDrains /\ Goto("pop", "select")
  /\ result' = "DEFAULT"
  /\ waited' = 0
  /\ dateSet' = TRUE
  /\ dateAge' = IF dateSet THEN dateAge ELSE 0
  /\ UNCHANGED <<rcvBuffer, size, currentFrame, recvIsFlushed, isDisconnected,
                 kernel, fifoReady, shared, history>>

SelectReady ==
  /\ rcvPc = "select"
  /\ socketQueue # <<>> \/ fifo > 0
  /\ rcvPc' = IF socketQueue # <<>> THEN "checkAge" ELSE "noData"
  /\ fifoReady' = (fifo > 0)
  /\ UNCHANGED <<object, kernel, waited, result, shared, history>>

SelectTimesOut ==
  /\ Goto("select", "noData")
  /\ socketQueue = <<>> /\ fifo = 0
  /\ waited >= SelectTimeout
  /\ fifoReady' = FALSE
  /\ UNCHANGED <<object, kernel, waited, result, shared, history>>

\* select fails (EINTR for one): nothing is read, not even the pipe.
SelectFails ==
  /\ Goto("select", "idle")
  /\ result' = "NETWORK_ERROR"
  /\ size' = 0 /\ currentFrame' = 0
  /\ UNCHANGED <<rcvBuffer, dateSet, dateAge, recvIsFlushed, isDisconnected,
                 kernel, waited, fifoReady, shared, history>>

CheckAge ==
  /\ rcvPc = "checkAge"
  /\ rcvPc' = IF ~recvIsFlushed /\ TooLongWithoutReceive THEN "flush" ELSE "recv"
  /\ UNCHANGED <<object, kernel, waited, fifoReady, result, shared, history>>

\* One turn of the loop of FlushReceiveSocket: a datagram is overwritten by
\* the next one and lost; size stays what it was.
FlushOne ==
  /\ rcvPc = "flush"
  /\ socketQueue # <<>> /\ Head(socketQueue) \in Datagrams \ {<<>>}
  /\ socketQueue' = Tail(socketQueue)
  /\ rcvBuffer' = Overwrite(rcvBuffer, Head(socketQueue))
  /\ dropped' = dropped \cup 1 .. Len(Head(socketQueue))
  /\ UNCHANGED <<size, currentFrame, dateSet, dateAge, recvIsFlushed,
                 isDisconnected, fifo, thread, shared, sinceData, gap>>

\* EAGAIN, or an empty datagram taken for a shutdown, ends the flush.
FlushDone ==
  /\ Goto("flush", "dump")
  /\ \/ socketQueue = <<>> /\ UNCHANGED socketQueue
     \/ /\ socketQueue # <<>> /\ Head(socketQueue) \in {<<>>, Corrupt}
        /\ socketQueue' = Tail(socketQueue)
  /\ recvIsFlushed' = TRUE
  /\ UNCHANGED <<rcvBuffer, size, currentFrame, dateSet, dateAge, fifo,
                 isDisconnected, waited, fifoReady, result, shared, history>>

\* Any other errno gives the flush up and leaves it to be done again.
FlushFails ==
  /\ Goto("flush", "dump")
  /\ socketQueue # <<>> /\ Head(socketQueue) = Corrupt
  /\ socketQueue' = Tail(socketQueue)
  /\ UNCHANGED <<object, fifo, waited, fifoReady, result, shared, history>>

RecvData ==
  /\ Goto("recv", "account")
  /\ socketQueue # <<>> /\ Head(socketQueue) \in Datagrams \ {<<>>}
  /\ LET d == Head(socketQueue) IN
       /\ rcvBuffer' = Overwrite(rcvBuffer, d)
       /\ size' = Len(d)
       /\ dropped' = dropped \ 1 .. Len(d)
  /\ socketQueue' = Tail(socketQueue)
  /\ recvIsFlushed' = FALSE
  /\ UNCHANGED <<currentFrame, dateSet, dateAge, isDisconnected, fifo, waited,
                 fifoReady, result, shared, sinceData, gap>>

RecvNothing ==
  /\ Goto("recv", "account")
  /\ socketQueue # <<>> /\ Head(socketQueue) \in {<<>>, Corrupt}
  /\ result' = IF Head(socketQueue) = <<>> THEN "NO_DATA_AVAILABLE"
                                           ELSE "NETWORK_ERROR"
  /\ size' = 0
  /\ socketQueue' = Tail(socketQueue)
  /\ UNCHANGED <<rcvBuffer, currentFrame, dateSet, dateAge, recvIsFlushed,
                 isDisconnected, fifo, waited, fifoReady, shared, history>>

\* The second age check, made after the read: a date that is already too old
\* is not refreshed.  The datagram counts as handed over from here on.
Account ==
  /\ rcvPc = "account"
  /\ rcvPc' = IF TooLongWithoutReceive THEN "dump" ELSE "save"
  /\ sinceData' = IF result = "DEFAULT" THEN 0 ELSE sinceData
  /\ UNCHANGED <<object, kernel, waited, fifoReady, result, shared, gap,
                 dropped>>

SaveDate ==
  /\ Goto("save", "dump")
  /\ dateAge' = 0
  /\ UNCHANGED <<rcvBuffer, size, currentFrame, dateSet, recvIsFlushed,
                 isDisconnected, kernel, waited, fifoReady, result, shared,
                 history>>

\* Select returned without data: timeout, or a byte in the pipe.
NoData ==
  /\ rcvPc = "noData"
  /\ result' = "NO_DATA_AVAILABLE"
  /\ size' = 0
  /\ IF ~isDisconnected /\ ~fifoReady /\ TooLongWithoutReceive
     THEN rcvPc' = "notify" /\ isDisconnected' = TRUE
     ELSE rcvPc' = "dump" /\ UNCHANGED isDisconnected
  /\ UNCHANGED <<rcvBuffer, currentFrame, dateSet, dateAge, recvIsFlushed,
                 kernel, waited, fifoReady, shared, history>>

Notify ==
  /\ Goto("notify", "dump")
  /\ calls' = IF onDisconnect.set /\ ~senderSeen
              THEN Append(calls, [by |-> "receiver",
                                  data |-> onDisconnect.data])
              ELSE calls
  /\ UNCHANGED <<object, kernel, waited, fifoReady, result, onDisconnect,
                 senderSeen, history>>

\* At most ten pending bytes are read, then Receive returns.
Return ==
  /\ rcvPc = "dump"
  /\ fifo' = IF ~fifoReady THEN fifo ELSE IF fifo > 10 THEN fifo - 10 ELSE 0
  /\ currentFrame' = 0
  /\ rcvPc' = IF result = "DEFAULT" THEN "pop" ELSE "idle"
  /\ UNCHANGED <<rcvBuffer, size, dateSet, dateAge, recvIsFlushed,
                 isDisconnected, socketQueue, waited, fifoReady, result,
                 shared, history>>

PopFrame(f) ==
  /\ rcvPc = "pop"
  /\ currentFrame < size /\ rcvBuffer[currentFrame + 1] = f
  /\ currentFrame' = currentFrame + 1
  /\ UNCHANGED <<rcvBuffer, size, dateSet, dateAge, recvIsFlushed,
                 isDisconnected, kernel, thread, shared, history>>

\* BUFFER_EMPTY or BAD_FRAME: what is left of the buffer is given up.
PopFails ==
  /\ Goto("pop", "idle")
  /\ currentFrame < size => rcvBuffer[currentFrame + 1] = Malformed
  /\ currentFrame' = 0 /\ size' = 0
  /\ UNCHANGED <<rcvBuffer, dateSet, dateAge, recvIsFlushed, isDisconnected,
                 kernel, waited, fifoReady, result, shared, history>>

ThreadStep ==
  \/ SelectReady \/ SelectTimesOut \/ CheckAge \/ FlushOne \/ FlushDone
  \/ FlushFails \/ RecvData \/ RecvNothing \/ Account \/ SaveDate \/ NoData
  \/ Notify \/ Return

ClientStep == Enter \/ PopFails \/ \E f \in Frames : PopFrame(f)
-----------------------------------------------------------------------------
(* What happens around the thread.                                         *)

\* The socket gets a datagram; a full socket drops it.
Arrive(d) ==
  /\ Len(socketQueue) < QueueCap
  /\ socketQueue' = Append(socketQueue, d)
  /\ UNCHANGED <<object, fifo, thread, shared, history>>

Arrival == \E d \in Datagrams \cup {Corrupt} : Arrive(d)

\* Signal writes one byte to the receiver's pipe.
Unlock ==
  /\ fifo < FifoCap
  /\ fifo' = fifo + 1
  /\ UNCHANGED <<object, socketQueue, thread, shared, history>>

Older(age) == IF age > Timeout THEN age ELSE age + 1

Tick ==
  /\ dateAge' = Older(dateAge)
  /\ sinceData' = IF dateSet THEN Older(sinceData) ELSE sinceData
  /\ gap' = (gap \/ sinceData' > Timeout)
  /\ waited' = IF rcvPc = "select" /\ waited < SelectTimeout
               THEN waited + 1 ELSE waited
  /\ UNCHANGED <<rcvBuffer, size, currentFrame, dateSet, recvIsFlushed,
                 isDisconnected, kernel, rcvPc, fifoReady, result, shared,
                 dropped>>

\* The sender reports a disconnection of its own.
SenderDown ==
  /\ senderSeen' = TRUE
  /\ UNCHANGED <<object, kernel, thread, onDisconnect, calls, history>>

Next ==
  \/ ThreadStep \/ SelectFails \/ ClientStep
  \/ Arrival \/ Unlock \/ Tick \/ SenderDown

Spec == Init /\ [][Next]_rcvVars

\* Inside a manager (WifiNetwork) other threads store the callback ...
StoreCallback ==
  /\ onDisconnect' \in {[onDisconnect EXCEPT !.set = TRUE],
                         [onDisconnect EXCEPT !.data = TRUE]}
  /\ UNCHANGED <<object, kernel, thread, senderSeen, calls, history>>

\* ... and run it for the sender.
SenderCalls ==
  /\ \E d \in BOOLEAN : calls' = Append(calls, [by |-> "sender", data |-> d])
  /\ UNCHANGED <<object, kernel, thread, onDisconnect, senderSeen, history>>

Others == SenderDown \/ StoreCallback \/ SenderCalls

\* The receiver among other threads: what WifiNetwork is shown to implement.
OpenNext == Next \/ Others

OpenSpec == Init /\ [][OpenNext]_rcvVars

\* The receiving thread is scheduled and keeps calling Receive and popping;
\* under a finite load a flush does find the socket empty.  Time may stop.
ThreadFairness ==
  WF_rcvVars(ThreadStep) /\ WF_rcvVars(ClientStep) /\ SF_rcvVars(FlushDone)

FairSpec == Spec /\ ThreadFairness
-----------------------------------------------------------------------------
TypeOK ==
  /\ rcvBuffer \in Seq(Items) /\ size \in 0 .. Len(rcvBuffer)
  /\ currentFrame \in Nat
  /\ dateSet \in BOOLEAN /\ dateAge \in Ages
  /\ recvIsFlushed \in BOOLEAN /\ isDisconnected \in BOOLEAN
  /\ socketQueue \in Seq(Datagrams \cup {Corrupt}) /\ fifo \in 0 .. FifoCap
  /\ rcvPc \in PCs /\ waited \in 0 .. SelectTimeout
  /\ fifoReady \in BOOLEAN /\ result \in Results
  /\ onDisconnect \in [set : BOOLEAN, data : BOOLEAN]
  /\ senderSeen \in BOOLEAN
  /\ calls \in Seq([by : {"sender", "receiver"}, data : BOOLEAN])
  /\ sinceData \in Ages /\ gap \in BOOLEAN /\ dropped \subseteq Nat

(***************************************************************************)
(* A receiver is only ever declared disconnected if, at some moment, more  *)
(* than Timeout went by without a datagram handed over: neither a first    *)
(* call, nor wake-ups by Unlock, nor failed reads, nor a thread preempted  *)
(* at a bad point make it so (c:828, c:854, c:893, c:908-914).              *)
(***************************************************************************)
DisconnectNeedsSilence == isDisconnected => gap

(***************************************************************************)
(* What the flush drops stays dropped: no frame the client can still pop   *)
(* lies in a part of the buffer that a flush overwrote.  FlushReceive      *)
(* Socket reads into the buffer PopFrame parses and leaves size alone.     *)
(***************************************************************************)
NoDroppedFramePopped ==
  \A i \in currentFrame + 1 .. size : i \notin dropped

(***************************************************************************)
(* The receiver is a queue of datagrams: one at a time is read, in order,  *)
(* and popped frame by frame to its end, and what the flush or a failed    *)
(* read loses is a whole datagram that nothing has been popped of, however *)
(* the buffer was filled before (c:672-747, c:844-877, c:1169-1222).       *)
(***************************************************************************)
Queue == INSTANCE DatagramQueue WITH
           Arrivals <- Datagrams \cup {Corrupt},
           Readable <- Datagrams \ {<<>>},
           waiting  <- socketQueue,
           reading  <- SubSeq(rcvBuffer, currentFrame + 1, size)

ImplementsDatagrams == Queue!Spec

(***************************************************************************)
(* Silence is noticed: if time passes, and from some moment on nothing     *)
(* arrives, nobody unlocks and select does not fail, the disconnection is  *)
(* flagged.                                                                *)
(***************************************************************************)
SilenceDetected ==
  (/\ WF_rcvVars(Tick)
   /\ <>[][~Arrival]_rcvVars
   /\ <>[][~Unlock]_rcvVars
   /\ <>[][~SelectFails]_rcvVars) => <>isDisconnected

(***************************************************************************)
(* A byte in the pipe gets a thread blocked in select out of Receive, even *)
(* if no datagram ever comes and the clock stands still.                   *)
(***************************************************************************)
UnlockReturns == (rcvPc = "select" /\ fifo > 0) ~> rcvPc \in {"idle", "pop"}

(***************************************************************************)
(* However often the age check flushes the socket, a peer that keeps       *)
(* sending is heard again and again (flushes failing or select failing     *)
(* time after time apart).                                                 *)
(***************************************************************************)
DataGetsThrough ==
  (/\ []<><<\E d \in Datagrams \ {<<>>} : Arrive(d)>>_rcvVars
   /\ <>[][~FlushFails /\ ~SelectFails]_rcvVars) => []<>(rcvPc = "account" /\ result = "DEFAULT")

(***************************************************************************)
(* The disconnection is flagged only when no datagram has been handed over *)
(* for longer than the timeout ("connection lost (too long time without    *)
(* reception)", c:918).                                                    *)
(***************************************************************************)
LostOnlyAfterTimeout ==
  [][isDisconnected' /\ ~isDisconnected => sinceData > Timeout]_rcvVars
=============================================================================
