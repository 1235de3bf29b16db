----------------------------- MODULE WifiNetwork -----------------------------
(***************************************************************************)
(* One Wifi manager at work: the sending thread (WifiSender), the          *)
(* receiving thread (WifiReceiver), and the thread that calls              *)
(* SetOnDisconnectCallback and Unlock.  The threads share the two          *)
(* isDisconnected flags, the callback fields and the unlock pipes, without *)
(* a lock.  A flag is a plain byte, so a thread may go on reading the old  *)
(* value of the other thread's flag for a while after it was stored:       *)
(* senderSeen and receiverSeen lag behind the flags until Publish.         *)
(***************************************************************************)
EXTENDS Integers, Sequences

CONSTANTS
  SendFrames, FrameSize, HeaderSize, BufferSize, UdpMax, DefaultSndBuf,
  SendSizes, Leftovers,
  RecvFrames, Malformed, Corrupt, Datagrams, Timeout, SelectTimeout, QueueCap,
  FifoCap, ClientDrains,
  MaxSignals         \* bound on the calls of Unlock

ASSUME NetworkAssumption == MaxSignals \in Nat /\ FifoCap \in Nat

VARIABLES
  sndBuffer, sndSize, sndCurrentFrame, socketBufferSize, sndIsDisconnected,
  sndBuf, outq, sndPc, linkUp, sndOnDisconnect, receiverSeen,
  pushed, onWire, faulty, batchLost, sizeKnown,
  rcvBuffer, rcvSize, rcvCurrentFrame, dateSet, dateAge, recvIsFlushed,
  rcvIsDisconnected, socketQueue, fifo, rcvPc, waited, fifoReady, result,
  rcvOnDisconnect, senderSeen, sinceData, gap, dropped,
  calls,
  sndFifo,     \* bytes in the sender's pipe, which nothing ever reads
  signalPc,    \* where a call of Signal is
  signals,     \* number of calls of Signal so far
  setPc,       \* where SetOnDisconnectCallback is; "first" if the callback
               \* was registered before the threads ran
  raced        \* history: the two threads' detections have overlapped

sndOnly == <<sndBuffer, sndSize, sndCurrentFrame, socketBufferSize,
             sndIsDisconnected, sndBuf, outq, sndPc, linkUp, pushed, onWire,
             faulty, batchLost, sizeKnown>>
rcvOnly == <<rcvBuffer, rcvSize, rcvCurrentFrame, dateSet, dateAge,
             recvIsFlushed, rcvIsDisconnected, socketQueue, rcvPc, waited,
             fifoReady, result, sinceData, gap, dropped>>
callbacks == <<sndOnDisconnect, rcvOnDisconnect>>
seen      == <<senderSeen, receiverSeen>>
control   == <<sndFifo, signalPc, signals, setPc>>
vars      == <<sndOnly, rcvOnly, callbacks, seen, control, fifo, calls, raced>>

S == INSTANCE WifiSender WITH Frames <- SendFrames,
                              onDisconnect <- sndOnDisconnect

R == INSTANCE WifiReceiver WITH Frames <- RecvFrames,
                                size <- rcvSize,
                                currentFrame <- rcvCurrentFrame,
                                isDisconnected <- rcvIsDisconnected,
                                onDisconnect <- rcvOnDisconnect

Init ==
  /\ S!Init /\ R!Init
  /\ sndOnDisconnect = rcvOnDisconnect
  /\ sndFifo = 0 /\ signalPc = "idle" /\ signals = 0
  /\ setPc = IF rcvOnDisconnect.set THEN "first" ELSE "idle"
  /\ raced = FALSE

RegisteredFirst == setPc = "first"
-----------------------------------------------------------------------------
(* The two threads of the client.                                          *)

\* A detection overlaps the other thread's as long as the latter's flag has
\* not come through or its callback decision has not been taken.
SenderThread ==
  /\ \/ \E f \in SendFrames : S!PushFrame(f) \/ S!PushFrameUnchecked(f)
     \/ S!Send
     \/ \E n \in SendSizes : S!SetSendBufferSize(n)
  /\ raced' = (raced \/ /\ sndIsDisconnected' # sndIsDisconnected
                        /\ rcvPc = "notify" \/ receiverSeen # rcvIsDisconnected)
  /\ UNCHANGED <<rcvOnly, rcvOnDisconnect, seen, control, fifo>>

ReceiverThread ==
  /\ R!ThreadStep \/ R!ClientStep \/ R!SelectFails
  /\ raced' = (raced \/ /\ rcvIsDisconnected' # rcvIsDisconnected
                        /\ sndPc = "notify" \/ senderSeen # sndIsDisconnected)
  /\ UNCHANGED <<sndOnly, sndOnDisconnect, seen, control>>

\* A stored flag reaches the other thread.
PublishSender ==
  /\ senderSeen' = sndIsDisconnected
  /\ UNCHANGED <<sndOnly, rcvOnly, callbacks, receiverSeen, control, fifo,
                 calls, raced>>

PublishReceiver ==
  /\ receiverSeen' = rcvIsDisconnected
  /\ UNCHANGED <<sndOnly, rcvOnly, callbacks, senderSeen, control, fifo, calls,
                 raced>>
-----------------------------------------------------------------------------
(* SetOnDisconnectCallback: four stores in this order.                     *)

SetStep(from, to) ==
  /\ setPc = from /\ setPc' = to
  /\ UNCHANGED <<sndOnly, rcvOnly, seen, fifo, calls, raced, sndFifo, signalPc,
                 signals>>

SetOnDisconnectCallback ==
  \/ /\ SetStep("idle", "receiverData")
     /\ rcvOnDisconnect' = [rcvOnDisconnect EXCEPT !.set = TRUE]
     /\ UNCHANGED sndOnDisconnect
  \/ /\ SetStep("receiverData", "sender")
     /\ rcvOnDisconnect' = [rcvOnDisconnect EXCEPT !.data = TRUE]
     /\ UNCHANGED sndOnDisconnect
  \/ /\ SetStep("sender", "senderData")
     /\ sndOnDisconnect' = [sndOnDisconnect EXCEPT !.set = TRUE]
     /\ UNCHANGED rcvOnDisconnect
  \/ /\ SetStep("senderData", "done")
     /\ sndOnDisconnect' = [sndOnDisconnect EXCEPT !.data = TRUE]
     /\ UNCHANGED rcvOnDisconnect
-----------------------------------------------------------------------------
(* Unlock (ARNETWORKAL_WifiNetwork_Signal): a byte into the sender's pipe, *)
(* then one into the receiver's; a write into a full pipe blocks.          *)

CallSignal ==
  /\ signalPc = "idle" /\ signals < MaxSignals
  /\ signalPc' = "sender" /\ signals' = signals + 1
  /\ UNCHANGED <<sndOnly, rcvOnly, callbacks, seen, fifo, calls, raced,
                 sndFifo, setPc>>

\* Faulty: a full sender's pipe is passed over.
WriteSenderFifoNonBlocking ==
  /\ signalPc = "sender" /\ signalPc' = "receiver"
  /\ sndFifo' = IF sndFifo < FifoCap THEN sndFifo + 1 ELSE sndFifo
  /\ UNCHANGED <<sndOnly, rcvOnly, callbacks, seen, fifo, calls, raced,
                 signals, setPc>>

WriteSenderFifo ==
  /\ signalPc = "sender" /\ signalPc' = "receiver"
  /\ sndFifo < FifoCap /\ sndFifo' = sndFifo + 1
  /\ UNCHANGED <<sndOnly, rcvOnly, callbacks, seen, fifo, calls, raced,
                 signals, setPc>>

WriteReceiverFifo ==
  /\ signalPc = "receiver" /\ signalPc' = "idle"
  /\ R!Unlock
  /\ UNCHANGED <<sndOnly, sndOnDisconnect, receiverSeen, raced, sndFifo,
                 signals, setPc>>

Signal == WriteSenderFifo \/ WriteReceiverFifo
-----------------------------------------------------------------------------
Environment ==
  \/ /\ S!Transmit \/ S!LinkFails \/ S!LinkRecovers
     /\ UNCHANGED <<rcvOnly, rcvOnDisconnect, seen, control, fifo, raced>>
  \/ /\ R!Arrival \/ R!Tick
     /\ UNCHANGED <<sndOnly, sndOnDisconnect, seen, control, raced>>

Next ==
  \/ SenderThread \/ ReceiverThread \/ PublishSender \/ PublishReceiver
  \/ SetOnDisconnectCallback \/ CallSignal \/ Signal \/ Environment

Spec == Init /\ [][Next]_vars

\* Every thread is scheduled and a store comes through in the end.
FairSpec ==
  /\ Spec
  /\ WF_vars(S!Send /\ SenderThread)
  /\ WF_vars(R!ThreadStep /\ ReceiverThread)
  /\ WF_vars(R!ClientStep /\ ReceiverThread)
  /\ SF_vars(R!FlushDone /\ ReceiverThread)
  /\ WF_vars(PublishSender) /\ WF_vars(PublishReceiver)
  /\ WF_vars(Signal)
-----------------------------------------------------------------------------
\* The state of the manager's own; S!TypeOK and R!TypeOK type the halves.
TypeOK ==
  /\ sndFifo \in 0 .. FifoCap /\ signalPc \in {"idle", "sender", "receiver"}
  /\ signals \in 0 .. MaxSignals /\ raced \in BOOLEAN
  /\ setPc \in {"idle", "receiverData", "sender", "senderData",
              "done", "first"}

(***************************************************************************)
(* One callback per disconnection: as long as the two threads have not     *)
(* detected it at the same time, a callback registered in time has run     *)
(* exactly once when the detecting thread is through, the other thread's   *)
(* later detection adds none, and one registered late, between two         *)
(* detections or inside of one, runs at most once (c:782-792, c:908-922).  *)
(***************************************************************************)
NotifiedOnce ==
  ~raced =>
    /\ Len(calls) <= 1
    /\ (/\ RegisteredFirst
        /\ sndIsDisconnected \/ rcvIsDisconnected
        /\ sndPc = "idle" /\ rcvPc # "notify") => Len(calls) = 1

(***************************************************************************)
(* Even when the detections overlap, and through any number of failed      *)
(* sends, recoveries and silences, neither object runs the callback twice. *)
(***************************************************************************)
NoObjectNotifiesTwice ==
  \A i, j \in 1 .. Len(calls) : i # j => calls[i].by # calls[j].by

(***************************************************************************)
(* Unlock gets through to the receiver, whom a byte in its pipe wakes      *)
(* (UnlockReturns): a call is held up only at the sender's pipe, which     *)
(* nothing reads, and only after FifoCap calls; past that write there is   *)
(* room for its byte in the receiver's pipe, however slow the receiving    *)
(* thread is to empty it (c:248-271, c:926-937).                           *)
(***************************************************************************)
WritesSucceed ==
  /\ signalPc = "sender" /\ signals <= FifoCap => sndFifo < FifoCap
  /\ signalPc = "receiver" => fifo < FifoCap

(***************************************************************************)
(* A disconnection is reported ("function called on disconnect",           *)
(* Manager.h:167) whichever thread notices it.                             *)
(***************************************************************************)
DisconnectNotified ==
  RegisteredFirst =>
    ((sndIsDisconnected \/ rcvIsDisconnected) ~> calls # <<>>)
=============================================================================
