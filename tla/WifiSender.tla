----------------------------- MODULE WifiSender -----------------------------
(***************************************************************************)
(* The sending half of a Wifi manager: the sender object, its connected    *)
(* UDP socket, and the thread that pushes frames into the batch buffer and *)
(* calls ARNETWORKAL_WifiNetwork_Send, which sends the batch as a single   *)
(* datagram.                                                               *)
(***************************************************************************)
EXTENDS Integers, Sequences

CONSTANTS
  Frames,        \* frames to send, each of them pushed once
  FrameSize,     \* frame->size of each frame, header included
  HeaderSize,    \* offsetof (ARNETWORKAL_Frame_t, dataPtr)
  BufferSize,    \* ARNETWORKAL_WIFINETWORK_SENDING_BUFFER_SIZE
  UdpMax,        \* the longest payload the kernel sends in a UDP datagram
  DefaultSndBuf, \* SO_SNDBUF of a new socket, as getsockopt reports it
  SendSizes,     \* sizes SetSendBufferSize is called with
  Leftovers      \* amounts of data the device may leave in the socket

ASSUME SenderAssumption ==
  /\ FrameSize \in [Frames -> HeaderSize .. BufferSize]
  /\ HeaderSize \in Nat \ {0}
  /\ BufferSize \in Nat
  /\ UdpMax \in Nat
  /\ DefaultSndBuf \in Nat
  /\ SendSizes \subseteq Nat
  /\ Leftovers \subseteq Nat

VARIABLES
  sndBuffer,         \* the frames written into the batch buffer
  sndSize,           \* senderObject->size
  sndCurrentFrame,   \* where the next frame is written (currentFrame - buffer)
  socketBufferSize,  \* -1: unknown
  sndIsDisconnected, \* the sender's own flag
  sndBuf,            \* what the kernel accepts in the socket
  outq,              \* bytes the kernel has not given to the device (TIOCOUTQ)
  sndPc,             \* "notify" between the flag and the callback
  linkUp,            \* sends succeed when it is
  onDisconnect,      \* the callback registered in the sender object
  receiverSeen,      \* the receiver's isDisconnected as this thread reads it
  calls,             \* the callback invocations so far
  pushed,            \* history: the frames accepted, in order
  onWire,            \* history: the frames sent, in order
  faulty,            \* history: the network has failed
  batchLost,         \* history: a batch was discarded on EAGAIN
  sizeKnown          \* history: socketBufferSize has always held since Connect

object   == <<sndBuffer, sndSize, sndCurrentFrame, socketBufferSize,
              sndIsDisconnected>>
kernel   == <<sndBuf, outq>>
shared   == <<onDisconnect, receiverSeen, calls>>
history  == <<pushed, onWire, faulty, batchLost, sizeKnown>>
sndVars  == <<object, kernel, sndPc, linkUp, shared, history>>

\* A manager that ARNETWORKAL_WifiNetwork_Connect has just connected.
Init ==
  /\ sndBuffer = <<>> /\ sndSize = 0 /\ sndCurrentFrame = 0
  /\ socketBufferSize = DefaultSndBuf /\ sndIsDisconnected = FALSE
  /\ sndBuf = DefaultSndBuf /\ outq = 0
  /\ sndPc = "idle" /\ linkUp = TRUE
  /\ onDisconnect \in [set : {TRUE}, data : {TRUE}]
                        \cup [set : {FALSE}, data : {FALSE}]
  /\ receiverSeen = FALSE /\ calls = <<>>
  /\ pushed = <<>> /\ onWire = <<>>
  /\ faulty = FALSE /\ batchLost = FALSE /\ sizeKnown = TRUE
-----------------------------------------------------------------------------
InSeq(f, s) == \E i \in 1 .. Len(s) : s[i] = f

\* GetAvailableSendSize when TIOCOUTQ works: -1 if the size is unknown, and
\* no room is reported as 0.
AvailableSendSize ==
  IF socketBufferSize < 0 THEN -1
  ELSE IF socketBufferSize > outq THEN socketBufferSize - outq ELSE 0

\* Faulty: the room is compared with the frame, not with the whole batch.
HasRoomForFrame(n, available) ==
  /\ sndSize + n <= BufferSize
  /\ available < 0 \/ n <= available

\* PushFrame's two BUFFER_FULL conditions, turned round.
HasRoom(n, available) ==
  /\ sndSize + n <= BufferSize
  /\ available < 0 \/ sndSize + n <= available

\* Faulty: the frame is written at the start of the buffer.
WriteOverBatch(f) ==
  /\ sndBuffer' = <<f>>
  /\ sndSize' = sndSize + FrameSize[f]
  /\ sndCurrentFrame' = sndCurrentFrame + FrameSize[f]
  /\ pushed' = Append(pushed, f)
  /\ UNCHANGED <<sndIsDisconnected, kernel, sndPc, linkUp, shared, onWire,
                 faulty, batchLost>>

\* The frame is written at the cursor; cursor and size advance together.
Write(f) ==
  /\ sndBuffer' = Append(sndBuffer, f)
  /\ sndSize' = sndSize + FrameSize[f]
  /\ sndCurrentFrame' = sndCurrentFrame + FrameSize[f]
  /\ pushed' = Append(pushed, f)
  /\ UNCHANGED <<sndIsDisconnected, kernel, sndPc, linkUp, shared, onWire,
                 faulty, batchLost>>

\* Faulty: the write position is not rewound.
EmptyBatchKeepsCursor ==
  sndBuffer' = <<>> /\ sndSize' = 0 /\ UNCHANGED sndCurrentFrame

EmptyBatch == sndBuffer' = <<>> /\ sndSize' = 0 /\ sndCurrentFrame' = 0

PushFrame(f) ==
  /\ sndPc = "idle" /\ ~InSeq(f, pushed)
  /\ HasRoom(FrameSize[f], AvailableSendSize)
  /\ Write(f)
  /\ UNCHANGED <<socketBufferSize, sizeKnown>>

\* TIOCOUTQ fails: the frame is accepted without a room check, and after
\* ENXIO no later push asks for the room again.
PushFrameUnchecked(f) ==
  /\ sndPc = "idle" /\ ~InSeq(f, pushed)
  /\ socketBufferSize >= 0
  /\ HasRoom(FrameSize[f], -1)
  /\ Write(f)
  /\ socketBufferSize' \in {-1, socketBufferSize}
  /\ sizeKnown' = FALSE

\* Faulty: a successful send leaves the batch in the buffer.
SendSucceedsKeepsBatch ==
  /\ sndPc = "idle" /\ sndSize # 0
  /\ linkUp /\ sndSize <= UdpMax /\ outq + sndSize <= sndBuf
  /\ Len(onWire) < 4
  /\ onWire' = onWire \o sndBuffer
  /\ outq' = outq + sndSize
  /\ UNCHANGED <<object, sndBuf, sndPc, linkUp, shared, pushed, faulty,
                 batchLost, sizeKnown>>

\* Faulty: a sender once disconnected does not try again.
SendSucceedsIfConnected ==
  /\ sndPc = "idle" /\ sndSize # 0 /\ ~sndIsDisconnected
  /\ linkUp /\ sndSize <= UdpMax /\ outq + sndSize <= sndBuf
  /\ EmptyBatch
  /\ onWire' = onWire \o sndBuffer
  /\ outq' = outq + sndSize
  /\ UNCHANGED <<socketBufferSize, sndIsDisconnected, sndBuf, sndPc, linkUp,
                 shared, pushed, faulty, batchLost, sizeKnown>>

SendSucceeds ==
  /\ sndPc = "idle" /\ sndSize # 0
  /\ linkUp /\ sndSize <= UdpMax /\ outq + sndSize <= sndBuf
  /\ EmptyBatch
  /\ onWire' = onWire \o sndBuffer
  /\ outq' = outq + sndSize
  /\ UNCHANGED <<socketBufferSize, sndIsDisconnected, sndBuf, sndPc, linkUp,
                 shared, pushed, faulty, batchLost, sizeKnown>>

\* Faulty: a full socket is taken for a disconnection.
SendWouldBlockDisconnects ==
  /\ sndPc = "idle" /\ sndSize # 0
  /\ sndSize <= UdpMax /\ outq + sndSize > sndBuf
  /\ EmptyBatch
  /\ batchLost' = TRUE
  /\ sndIsDisconnected' = TRUE
  /\ sndPc' = IF sndIsDisconnected THEN "idle" ELSE "notify"
  /\ UNCHANGED <<socketBufferSize, kernel, linkUp, shared, pushed, onWire,
                 faulty, sizeKnown>>

\* EAGAIN: the socket is full and the batch is thrown away.
SendWouldBlock ==
  /\ sndPc = "idle" /\ sndSize # 0
  /\ sndSize <= UdpMax /\ outq + sndSize > sndBuf
  /\ EmptyBatch
  /\ batchLost' = TRUE
  /\ UNCHANGED <<socketBufferSize, sndIsDisconnected, kernel, sndPc, linkUp,
                 shared, pushed, onWire, faulty, sizeKnown>>

\* Faulty: every failed send counts as a new disconnection.
SendFailsEachTime ==
  /\ sndPc = "idle" /\ sndSize # 0
  /\ ~linkUp \/ sndSize > UdpMax
  /\ sndIsDisconnected' = TRUE
  /\ sndPc' = "notify"
  /\ UNCHANGED <<sndBuffer, sndSize, sndCurrentFrame, socketBufferSize, kernel,
                 linkUp, shared, history>>

\* Any other errno: the batch stays, and the first time is a disconnection.
SendFails ==
  /\ sndPc = "idle" /\ sndSize # 0
  /\ ~linkUp \/ sndSize > UdpMax
  /\ sndIsDisconnected' = TRUE
  /\ sndPc' = IF sndIsDisconnected THEN "idle" ELSE "notify"
  /\ UNCHANGED <<sndBuffer, sndSize, sndCurrentFrame, socketBufferSize, kernel,
                 linkUp, shared, history>>

\* Faulty: the test of the receiver's flag is turned round.
NotifyIfReceiverDown ==
  /\ sndPc = "notify" /\ sndPc' = "idle"
  /\ calls' = IF onDisconnect.set /\ receiverSeen
              THEN Append(calls, [by |-> "sender", data |-> onDisconnect.data])
              ELSE calls
  /\ UNCHANGED <<object, kernel, linkUp, onDisconnect, receiverSeen, history>>

Notify ==
  /\ sndPc = "notify" /\ sndPc' = "idle"
  /\ calls' = IF onDisconnect.set /\ ~receiverSeen
              THEN Append(calls, [by |-> "sender", data |-> onDisconnect.data])
              ELSE calls
  /\ UNCHANGED <<object, kernel, linkUp, onDisconnect, receiverSeen, history>>

Send == SendSucceeds \/ SendWouldBlock \/ SendFails \/ Notify

\* setsockopt doubles the size; GetSendBufferSize halves what it reads back.
SetSendBufferSize(n) ==
  /\ sndPc = "idle"
  /\ sndBuf' = 2 * n
  /\ socketBufferSize' = n
  /\ sizeKnown' = FALSE
  /\ UNCHANGED <<sndBuffer, sndSize, sndCurrentFrame, sndIsDisconnected, outq,
                 sndPc, linkUp, shared, pushed, onWire, faulty, batchLost>>
-----------------------------------------------------------------------------
\* The device takes data out of the socket.
Transmit ==
  /\ \E n \in Leftovers \cup {0} : n < outq /\ outq' = n
  /\ UNCHANGED <<object, sndBuf, sndPc, linkUp, shared, history>>

LinkFails ==
  /\ linkUp /\ linkUp' = FALSE /\ faulty' = TRUE
  /\ UNCHANGED <<object, kernel, sndPc, shared, pushed, onWire, batchLost,
                 sizeKnown>>

LinkRecovers ==
  /\ ~linkUp /\ linkUp' = TRUE
  /\ UNCHANGED <<object, kernel, sndPc, shared, history>>

\* The receiver reports a disconnection of its own.
ReceiverDown ==
  /\ receiverSeen' = TRUE
  /\ UNCHANGED <<object, kernel, sndPc, linkUp, onDisconnect, calls, history>>

Next ==
  \/ \E f \in Frames : PushFrame(f) \/ PushFrameUnchecked(f)
  \/ Send
  \/ \E n \in SendSizes : SetSendBufferSize(n)
  \/ Transmit \/ LinkFails \/ LinkRecovers \/ ReceiverDown

Spec == Init /\ [][Next]_sndVars

\* Inside a manager (WifiNetwork) other threads store the callback ...
StoreCallback ==
  /\ onDisconnect' \in {[onDisconnect EXCEPT !.set = TRUE],
                         [onDisconnect EXCEPT !.data = TRUE]}
  /\ UNCHANGED <<object, kernel, sndPc, linkUp, receiverSeen, calls, history>>

\* ... and run it for the receiver.
ReceiverCalls ==
  /\ \E d \in BOOLEAN : calls' = Append(calls, [by |-> "receiver", data |-> d])
  /\ UNCHANGED <<object, kernel, sndPc, linkUp, onDisconnect, receiverSeen,
                 history>>

Others == ReceiverDown \/ StoreCallback \/ ReceiverCalls

\* The sender among other threads: what WifiNetwork is shown to implement.
OpenNext == Next \/ Others

OpenSpec == Init /\ [][OpenNext]_sndVars

\* The sending thread calls Send again and again; the device drains the socket.
FairSpec == Spec /\ WF_sndVars(Send) /\ WF_sndVars(Transmit)
-----------------------------------------------------------------------------
TypeOK ==
  /\ sndBuffer \in Seq(Frames) /\ sndSize \in Nat /\ sndCurrentFrame \in Nat
  /\ socketBufferSize \in Nat \cup {-1} /\ sndIsDisconnected \in BOOLEAN
  /\ sndBuf \in Nat /\ outq \in Nat
  /\ sndPc \in {"idle", "notify"} /\ linkUp \in BOOLEAN
  /\ onDisconnect \in [set : BOOLEAN, data : BOOLEAN]
  /\ receiverSeen \in BOOLEAN
  /\ calls \in Seq([by : {"sender", "receiver"}, data : BOOLEAN])
  /\ pushed \in Seq(Frames) /\ onWire \in Seq(Frames)
  /\ faulty \in BOOLEAN /\ batchLost \in BOOLEAN /\ sizeKnown \in BOOLEAN

(***************************************************************************)
(* PushFrame always writes inside the buffer, and right behind the frames  *)
(* it holds, over any mix of pushes, successful sends, full sockets and    *)
(* failed sends that keep the batch (c:611-661, c:765-766, c:776-777).     *)
(***************************************************************************)
WritesInsideBuffer ==
  /\ sndCurrentFrame = sndSize
  /\ sndSize <= BufferSize
  /\ sndSize = 0 <=> sndBuffer = <<>>

(***************************************************************************)
(* What goes on the wire are frames the client pushed, in the order it     *)
(* pushed them and none of them twice, whatever sends were refused or      *)
(* failed in between.                                                      *)
(***************************************************************************)
Before(f, g) ==
  \E i, j \in 1 .. Len(pushed) : i < j /\ pushed[i] = f /\ pushed[j] = g

SentOnceInOrder ==
  LET sent == onWire \o sndBuffer IN
  \A i, j \in 1 .. Len(sent) :
    /\ InSeq(sent[i], pushed)
    /\ i < j => Before(sent[i], sent[j])

(***************************************************************************)
(* The sender is a channel for whole batches: a refused push changes       *)
(* nothing, and what a Send takes out of the buffer has gone to the wire   *)
(* as it was accepted or is lost as a whole, never in part (c:607-670,     *)
(* c:749-801).                                                             *)
(***************************************************************************)
Channel == INSTANCE BatchChannel WITH accepted <- pushed,
                                      waiting <- sndBuffer,
                                      sent <- onWire

ImplementsChannel == Channel!Spec

(***************************************************************************)
(* The room check of PushFrame is enough: as long as the socket's size is  *)
(* known and not changed, no accepted batch is thrown away on EAGAIN.      *)
(***************************************************************************)
RoomCheckSuffices == batchLost => ~sizeKnown

(***************************************************************************)
(* "The maximum amount of data you can put in a single ARNetwork packet    *)
(* over IP" (WifiNetwork.h:57): what the batch buffer takes can be sent,   *)
(* so that only a failure of the network disconnects a sender.             *)
(***************************************************************************)
DisconnectNeedsFault == sndIsDisconnected => faulty

\* A batch that PushFrame accepted and no UDP datagram carries (EMSGSIZE).
Oversize == sndSize > UdpMax

(***************************************************************************)
(* What disconnects a sender is a failure of the network or an oversize    *)
(* batch, and such a batch is never got rid of: it is still in the buffer  *)
(* as long as the network has not failed.  A full socket, a changed one or *)
(* an ioctl that fails is never taken for a disconnection (c:771-785).     *)
(***************************************************************************)
DisconnectNeedsCause == sndIsDisconnected => faulty \/ Oversize

(***************************************************************************)
(* A sender recovers with its network: when sends can succeed again the    *)
(* batch kept by the failed ones goes out and makes room for new frames.   *)
(* An oversize one does not: every Send fails on it.                       *)
(***************************************************************************)
BatchGoesOut == <>[]linkUp => []<>(sndSize = 0 \/ Oversize)
=============================================================================
