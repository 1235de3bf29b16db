------------------------- MODULE WifiReceiver_proofs -------------------------
(***************************************************************************)
(* Theorems about WifiReceiver, for every timeout, queue and pipe size and *)
(* every set of datagrams.                                                 *)
(***************************************************************************)
EXTENDS WifiReceiver, SequenceTheorems, TLAPS

USE DEF Goto

(***************************************************************************)
(* Reading a datagram into the buffer never shortens what the buffer       *)
(* physically holds, and what it holds is still a sequence of items.       *)
(***************************************************************************)
LEMMA OverwriteProperties ==
  ASSUME NEW buffer \in Seq(Items), NEW d \in Seq(Items)
  PROVE  /\ Overwrite(buffer, d) \in Seq(Items)
         /\ Len(Overwrite(buffer, d)) >= Len(buffer)
         /\ Len(Overwrite(buffer, d)) >= Len(d)
<1> DEFINE rest == SubSeq(buffer, Len(d) + 1, Len(buffer))
<1>1. Len(d) \in Nat /\ Len(buffer) \in Nat
  BY LenProperties
<1>2. \A i \in Len(d) + 1 .. Len(buffer) : buffer[i] \in Items
  BY <1>1, ElementOfSeq
<1>3. /\ rest \in Seq(Items)
      /\ Len(rest) = IF Len(d) + 1 <= Len(buffer) THEN Len(buffer) - Len(d) ELSE 0
  BY <1>1, <1>2, SubSeqProperties
<1>4. /\ d \o rest \in Seq(Items)
      /\ Len(d \o rest) = Len(d) + Len(rest)
  BY <1>3, ConcatProperties
<1>5. QED
  BY <1>1, <1>3, <1>4 DEF Overwrite

(***************************************************************************)
(* What the head of a non-empty socket queue is, and what is left of it.   *)
(***************************************************************************)
LEMMA QueueProperties ==
  ASSUME socketQueue \in Seq(Datagrams \cup {Corrupt}), socketQueue # <<>>
  PROVE  /\ Head(socketQueue) \in Datagrams \cup {Corrupt}
         /\ Tail(socketQueue) \in Seq(Datagrams \cup {Corrupt})
BY HeadTailProperties

(***************************************************************************)
(* Type correctness of the receiver.                                       *)
(***************************************************************************)
THEOREM TypeCorrect == OpenSpec => []TypeOK
<1> USE ReceiverAssumption DEF TypeOK, Ages, Results, PCs
<1>1. Init => TypeOK
  <2> SUFFICES ASSUME Init PROVE TypeOK
    OBVIOUS
  <2>1. /\ rcvBuffer \in Seq(Items) /\ Len(rcvBuffer) = 0
        /\ socketQueue \in Seq(Datagrams \cup {Corrupt})
        /\ calls \in Seq([by : {"sender", "receiver"}, data : BOOLEAN])
    BY EmptySeq DEF Init
  <2>2. onDisconnect \in [set : BOOLEAN, data : BOOLEAN]
    <3>1. [set |-> FALSE, data |-> FALSE] \in [set : BOOLEAN, data : BOOLEAN]
      OBVIOUS
    <3>2. [set |-> TRUE, data |-> TRUE] \in [set : BOOLEAN, data : BOOLEAN]
      OBVIOUS
    <3>3. QED
      BY <3>1, <3>2, Zenon DEF Init, NoCallback
  <2>3. /\ size \in 0 .. Len(rcvBuffer) /\ currentFrame \in Nat
        /\ dateAge \in Ages /\ fifo \in 0 .. FifoCap
        /\ waited \in 0 .. SelectTimeout /\ sinceData \in Ages
    BY <2>1 DEF Init
  <2>4. QED
    BY <2>1, <2>2, <2>3, Zenon DEF Init
<1>2. TypeOK /\ [OpenNext]_rcvVars => TypeOK'
  <2> SUFFICES ASSUME TypeOK, [OpenNext]_rcvVars PROVE TypeOK'
    OBVIOUS
  <2> USE DEF object, kernel, thread, shared, history
  <2>1. CASE Enter
    BY <2>1 DEF Enter
  <2>2. CASE SelectReady
    BY <2>2 DEF SelectReady
  <2>3. CASE SelectTimesOut
    BY <2>3 DEF SelectTimesOut
  <2>4. CASE SelectFails
    BY <2>4, LenProperties DEF SelectFails
  <2>5. CASE CheckAge
    BY <2>5 DEF CheckAge
  <2>6. CASE FlushOne
    <3>1. Head(socketQueue) \in Seq(Items) /\ Tail(socketQueue) \in Seq(Datagrams \cup {Corrupt})
      BY <2>6, QueueProperties DEF FlushOne
    <3>2. /\ rcvBuffer' \in Seq(Items)
          /\ Len(rcvBuffer') >= Len(rcvBuffer)
          /\ Len(rcvBuffer') \in Nat /\ Len(rcvBuffer) \in Nat
      BY <2>6, <3>1, OverwriteProperties, LenProperties DEF FlushOne
    <3>3. size' \in 0 .. Len(rcvBuffer')
      BY <2>6, <3>2 DEF FlushOne
    <3>4. dropped' \subseteq Nat
      <4>1. Len(Head(socketQueue)) \in Nat
        BY <3>1, LenProperties
      <4>2. 1 .. Len(Head(socketQueue)) \subseteq Nat
        BY <4>1
      <4>3. QED
        BY <2>6, <4>2 DEF FlushOne
    <3>5. QED
      BY <2>6, <3>1, <3>2, <3>3, <3>4 DEF FlushOne
  <2>7. CASE FlushDone
    BY <2>7, QueueProperties DEF FlushDone
  <2>8. CASE FlushFails
    BY <2>8, QueueProperties DEF FlushFails
  <2>9. CASE RecvData
    <3>1. Head(socketQueue) \in Seq(Items) /\ Tail(socketQueue) \in Seq(Datagrams \cup {Corrupt})
      BY <2>9, QueueProperties DEF RecvData
    <3>2. /\ rcvBuffer' \in Seq(Items)
          /\ Len(rcvBuffer') >= Len(Head(socketQueue))
          /\ Len(rcvBuffer') \in Nat /\ Len(Head(socketQueue)) \in Nat
      BY <2>9, <3>1, OverwriteProperties, LenProperties DEF RecvData
    <3>3. size' \in 0 .. Len(rcvBuffer')
      BY <2>9, <3>2 DEF RecvData
    <3>4. dropped' \subseteq Nat
      BY <2>9 DEF RecvData
    <3>5. QED
      BY <2>9, <3>1, <3>2, <3>3, <3>4 DEF RecvData
  <2>10. CASE RecvNothing
    BY <2>10, QueueProperties, LenProperties DEF RecvNothing
  <2>11. CASE Account
    BY <2>11 DEF Account
  <2>12. CASE SaveDate
    BY <2>12 DEF SaveDate
  <2>13. CASE NoData
    <3>1. size' = 0 /\ rcvBuffer' = rcvBuffer /\ Len(rcvBuffer) \in Nat
      BY <2>13, LenProperties DEF NoData
    <3>2. rcvPc' \in PCs /\ isDisconnected' \in BOOLEAN
      BY <2>13 DEF NoData
    <3>3. QED
      BY <2>13, <3>1, <3>2 DEF NoData
  <2>14. CASE Notify
    <3> DEFINE call == [by |-> "receiver", data |-> onDisconnect.data]
               CallType == [by : {"sender", "receiver"}, data : BOOLEAN]
    <3>1. onDisconnect.data \in BOOLEAN
      OBVIOUS
    <3>2. call \in CallType
      BY <3>1
    <3>3. Append(calls, call) \in Seq(CallType)
      BY <3>2, AppendProperties
    <3>4. calls' \in {calls, Append(calls, call)}
      BY <2>14 DEF Notify
    <3>5. QED
      BY <2>14, <3>3, <3>4 DEF Notify
  <2>15. CASE Return
    BY <2>15 DEF Return
  <2>16. CASE \E f \in Frames : PopFrame(f)
    BY <2>16 DEF PopFrame
  <2>17. CASE PopFails
    BY <2>17, LenProperties DEF PopFails
  <2>18. CASE Arrival
    <3>1. PICK d \in Datagrams \cup {Corrupt} : Arrive(d)
      BY <2>18 DEF Arrival
    <3>2. QED
      BY <3>1 DEF Arrive
  <2>19. CASE Unlock
    BY <2>19 DEF Unlock
  <2>20. CASE Tick
    BY <2>20 DEF Tick, Older
  <2>21. CASE SenderDown
    BY <2>21 DEF SenderDown
  <2>22. CASE StoreCallback
    <3>1. onDisconnect' \in [set : BOOLEAN, data : BOOLEAN]
      BY <2>22 DEF StoreCallback
    <3>2. QED
      BY <2>22, <3>1 DEF StoreCallback
  <2>23. CASE SenderCalls
    <3> DEFINE CallType == [by : {"sender", "receiver"}, data : BOOLEAN]
    <3>1. PICK d \in BOOLEAN : calls' = Append(calls, [by |-> "sender", data |-> d])
      BY <2>23 DEF SenderCalls
    <3>2. [by |-> "sender", data |-> d] \in CallType
      OBVIOUS
    <3>3. calls' \in Seq(CallType)
      BY <3>1, <3>2, AppendProperties
    <3>4. QED
      BY <2>23, <3>3 DEF SenderCalls
  <2>24. CASE UNCHANGED rcvVars
    BY <2>24 DEF rcvVars
  <2>25. QED
    BY <2>1, <2>2, <2>3, <2>4, <2>5, <2>6, <2>7, <2>8, <2>9, <2>10, <2>11,
       <2>12, <2>13, <2>14, <2>15, <2>16, <2>17, <2>18, <2>19, <2>20, <2>21,
       <2>22, <2>23, <2>24 DEF OpenNext, Others, Next, ThreadStep, ClientStep
<1>3. QED
  BY <1>1, <1>2, PTL DEF OpenSpec
-----------------------------------------------------------------------------
(***************************************************************************)
(* Why DisconnectNeedsSilence holds: as long as there has been no gap, the *)
(* saved date is at least as recent as the last datagram handed over, save *)
(* for the moment between the second age check and SaveDate; and before    *)
(* the first call of Receive no clock runs.                                *)
(***************************************************************************)
SilenceInv ==
  /\ ~dateSet => rcvPc = "idle" /\ sinceData = 0
  /\ ~gap => sinceData <= Timeout
  /\ dateSet /\ ~gap /\ rcvPc # "save" => dateAge <= sinceData
  /\ isDisconnected => gap

(***************************************************************************)
(* A receiver is flagged disconnected only after a real gap, whatever the  *)
(* timeouts, the load and the preemptions (c:803-942).                     *)
(***************************************************************************)
THEOREM DisconnectNeedsSilenceHolds == OpenSpec => []DisconnectNeedsSilence
<1> USE ReceiverAssumption DEF SilenceInv, TooLongWithoutReceive
<1>1. Init => SilenceInv
  BY DEF Init
<1>2. TypeOK /\ SilenceInv /\ [OpenNext]_rcvVars => SilenceInv'
  <2> SUFFICES ASSUME TypeOK, SilenceInv, [OpenNext]_rcvVars PROVE SilenceInv'
    OBVIOUS
  <2> USE DEF object, kernel, thread, shared, history
  <2>0. /\ dateAge \in 0 .. Timeout + 1 /\ sinceData \in 0 .. Timeout + 1
        /\ dateSet \in BOOLEAN /\ gap \in BOOLEAN /\ isDisconnected \in BOOLEAN
    BY DEF TypeOK, Ages
  <2>1. CASE Enter
    BY <2>0, <2>1 DEF Enter
  <2>2. CASE SelectReady \/ SelectTimesOut \/ SelectFails \/ CheckAge
    BY <2>2 DEF SelectReady, SelectTimesOut, SelectFails, CheckAge
  <2>3. CASE FlushOne \/ FlushDone \/ FlushFails \/ RecvData \/ RecvNothing
    BY <2>3 DEF FlushOne, FlushDone, FlushFails, RecvData, RecvNothing
  <2>4. CASE Account
    BY <2>0, <2>4 DEF Account
  <2>5. CASE SaveDate
    BY <2>0, <2>5 DEF SaveDate
  <2>6. CASE NoData
    BY <2>0, <2>6 DEF NoData
  <2>7. CASE Notify \/ Return \/ PopFails \/ \E f \in Frames : PopFrame(f)
    BY <2>7 DEF Notify, Return, PopFails, PopFrame
  <2>8. CASE Arrival \/ Unlock \/ Others
    BY <2>8 DEF Arrival, Arrive, Unlock, Others, SenderDown, StoreCallback,
                SenderCalls
  <2>9. CASE Tick
    BY <2>0, <2>9 DEF Tick, Older
  <2>10. CASE UNCHANGED rcvVars
    BY <2>10 DEF rcvVars
  <2>11. QED
    BY <2>1, <2>2, <2>3, <2>4, <2>5, <2>6, <2>7, <2>8, <2>9, <2>10
       DEF OpenNext, Others, Next, ThreadStep, ClientStep
<1>3. SilenceInv => DisconnectNeedsSilence
  BY DEF DisconnectNeedsSilence
<1>4. QED
  BY <1>1, <1>2, <1>3, TypeCorrect, PTL DEF OpenSpec
-----------------------------------------------------------------------------
(***************************************************************************)
(* Why a client that drains the buffer gets whole datagrams: the size is   *)
(* zero whenever a flush may overwrite the buffer, and a read that sets    *)
(* the size also replaces everything up to that size.  Receive returns     *)
(* something else than DEFAULT only with a size of zero, and nothing is    *)
(* popped before it has returned.                                          *)
(***************************************************************************)
DrainInv ==
  /\ rcvPc \in {"idle", "select", "checkAge", "flush", "recv", "noData",
                "notify"} => size = 0
  /\ rcvPc \in {"select", "checkAge", "flush", "recv"} => result = "DEFAULT"
  /\ rcvPc \in {"account", "save", "dump"} /\ result # "DEFAULT" => size = 0
  /\ rcvPc # "pop" => currentFrame = 0
  /\ \A i \in 1 .. size : i \notin dropped

LEMMA DrainInvariant == ASSUME ClientDrains PROVE OpenSpec => []DrainInv
<1> USE ReceiverAssumption DEF DrainInv
<1>1. Init => DrainInv
  BY DEF Init
<1>2. TypeOK /\ DrainInv /\ [OpenNext]_rcvVars => DrainInv'
  <2> SUFFICES ASSUME TypeOK, DrainInv, [OpenNext]_rcvVars PROVE DrainInv'
    OBVIOUS
  <2> USE DEF object, kernel, thread, shared, history
  <2>1. CASE Enter
    BY <2>1 DEF Enter
  <2>2. CASE SelectReady \/ SelectTimesOut \/ SelectFails \/ CheckAge
    BY <2>2 DEF SelectReady, SelectTimesOut, SelectFails, CheckAge
  <2>3. CASE FlushOne \/ FlushDone \/ FlushFails
    BY <2>3 DEF FlushOne, FlushDone, FlushFails
  <2>4. CASE RecvData
    BY <2>4 DEF RecvData
  <2>5. CASE RecvNothing
    BY <2>5 DEF RecvNothing
  <2>6. CASE Account \/ SaveDate \/ NoData \/ Notify
    BY <2>6 DEF Account, SaveDate, NoData, Notify
  <2>7. CASE Return
    BY <2>7 DEF Return
  <2>8. CASE PopFails \/ \E f \in Frames : PopFrame(f)
    BY <2>8 DEF PopFails, PopFrame
  <2>9. CASE Arrival \/ Unlock \/ Tick \/ Others
    BY <2>9 DEF Arrival, Arrive, Unlock, Tick, Others, SenderDown,
                StoreCallback, SenderCalls
  <2>10. CASE UNCHANGED rcvVars
    BY <2>10 DEF rcvVars
  <2>11. QED
    BY <2>1, <2>2, <2>3, <2>4, <2>5, <2>6, <2>7, <2>8, <2>9, <2>10
       DEF OpenNext, Others, Next, ThreadStep, ClientStep
<1>3. QED
  BY <1>1, <1>2, TypeCorrect, PTL DEF OpenSpec

(***************************************************************************)
(* With a client that pops until PopFrame fails, no frame the flush        *)
(* dropped is ever handed over (c:672-747, c:1169-1222).                   *)
(***************************************************************************)
THEOREM NoDroppedFramePoppedHolds ==
  ASSUME ClientDrains PROVE OpenSpec => []NoDroppedFramePopped
<1>1. TypeOK /\ DrainInv => NoDroppedFramePopped
  <2> SUFFICES ASSUME TypeOK, DrainInv, NEW i \in currentFrame + 1 .. size
               PROVE i \notin dropped
    BY DEF NoDroppedFramePopped
  <2>1. size \in Int /\ currentFrame \in Nat
    BY LenProperties DEF TypeOK
  <2>2. i \in 1 .. size
    BY <2>1
  <2>3. QED
    BY <2>2 DEF DrainInv
<1>2. QED
  BY <1>1, DrainInvariant, TypeCorrect, PTL
-----------------------------------------------------------------------------
\* What was just read into the buffer is what its start holds.
LEMMA ReadBack ==
  ASSUME NEW buffer \in Seq(Items), NEW d \in Seq(Items), d # <<>>
  PROVE  SubSeq(Overwrite(buffer, d), 1, Len(d)) = d
<1> DEFINE rest == SubSeq(buffer, Len(d) + 1, Len(buffer))
<1>1. Len(d) \in Nat \ {0} /\ Len(buffer) \in Nat
  BY LenProperties, EmptySeq
<1>2. \A i \in Len(d) + 1 .. Len(buffer) : buffer[i] \in Items
  BY <1>1, ElementOfSeq
<1>3. rest \in Seq(Items)
  BY <1>1, <1>2, SubSeqProperties
<1>4. 1 \in 1 .. Len(d) /\ Len(d) \in 1 .. Len(d)
  BY <1>1
<1>5. SubSeq(d \o rest, 1, Len(d)) = SubSeq(d, 1, Len(d))
  BY <1>3, <1>4, SubSeqOfConcat1
<1> QED
  BY <1>5, SubSeqFull DEF Overwrite

\* What is left to pop, and how a pop shortens it.
Left == SubSeq(rcvBuffer, currentFrame + 1, size)

LEMMA LeftProperties ==
  ASSUME TypeOK
  PROVE  /\ currentFrame >= size => Left = <<>>
         /\ currentFrame < size =>
              /\ Left # <<>>
              /\ Head(Left) = rcvBuffer[currentFrame + 1]
              /\ Tail(Left) = SubSeq(rcvBuffer, currentFrame + 2, size)
<1>1. /\ rcvBuffer \in Seq(Items) /\ Len(rcvBuffer) \in Nat
      /\ size \in 0 .. Len(rcvBuffer) /\ currentFrame \in Nat
  BY LenProperties DEF TypeOK
<1>2. ASSUME currentFrame >= size PROVE Left = <<>>
  BY <1>1, <1>2, SubSeqEmpty DEF Left
<1>3. ASSUME currentFrame < size
      PROVE  /\ Left # <<>>
             /\ Head(Left) = rcvBuffer[currentFrame + 1]
             /\ Tail(Left) = SubSeq(rcvBuffer, currentFrame + 2, size)
  <2>1. /\ currentFrame + 1 \in 1 .. Len(rcvBuffer)
        /\ size \in currentFrame + 1 .. Len(rcvBuffer)
        /\ (currentFrame + 1) + 1 = currentFrame + 2
    BY <1>1, <1>3
  <2>2. \A i \in currentFrame + 1 .. size : rcvBuffer[i] \in Items
    BY <1>1, <2>1, ElementOfSeq
  <2>3. Len(Left) = size - (currentFrame + 1) + 1
    BY <1>1, <2>1, <2>2, SubSeqProperties DEF Left
  <2>4. Left # <<>>
    BY <1>1, <1>3, <2>3
  <2> QED
    BY <1>1, <2>1, <2>4, HeadTailOfSubSeq DEF Left
<1> QED
  BY <1>2, <1>3

\* A step that leaves the buffer alone while it is empty leaves it empty.
LEMMA NothingLeft ==
  ASSUME TypeOK, size = 0, TypeOK', size' = 0
  PROVE  Left = <<>> /\ Left' = <<>>
<1>1. \A b, n : n \in Nat => SubSeq(b, n + 1, 0) = <<>>
  BY SubSeqEmpty
<1>2. currentFrame \in Nat /\ currentFrame' \in Nat
  BY DEF TypeOK
<1> QED
  BY <1>1, <1>2 DEF Left

(***************************************************************************)
(* A receiver whose client drains it implements the queue of datagrams,    *)
(* over any interleaving of flushes, failed reads, timeouts and unlocks    *)
(* (c:672-747, c:803-942, c:1169-1222).                                    *)
(***************************************************************************)
THEOREM ImplementsDatagramsHolds ==
  ASSUME ClientDrains PROVE OpenSpec => ImplementsDatagrams
<1> USE ReceiverAssumption
<1>1. Init => Queue!Init
  <2> SUFFICES ASSUME Init PROVE Queue!Init
    OBVIOUS
  <2>1. SubSeq(rcvBuffer, currentFrame + 1, size) = <<>>
    BY SubSeqEmpty DEF Init
  <2> QED
    BY <2>1 DEF Init, Queue!Init
<1>2. TypeOK /\ TypeOK' /\ DrainInv /\ [OpenNext]_rcvVars
        => [Queue!Next]_Queue!vars
  <2> SUFFICES ASSUME TypeOK, TypeOK', DrainInv, [OpenNext]_rcvVars
               PROVE  [Queue!Next]_Queue!vars
    OBVIOUS
  <2> USE DEF object, kernel, thread, shared, history, Queue!vars
  <2>1. ASSUME UNCHANGED <<rcvBuffer, currentFrame, size, socketQueue>>
        PROVE  UNCHANGED Queue!vars
    BY <2>1
  <2>2. CASE Enter \/ SelectReady \/ SelectTimesOut \/ CheckAge \/ FlushFails
    <3>1. CASE FlushFails
      <4>1. size = 0 /\ size' = 0
        BY <3>1 DEF FlushFails, DrainInv
      <4>2. Left = <<>> /\ UNCHANGED Left
        BY <4>1, NothingLeft
      <4> QED
        BY <3>1, <4>2 DEF FlushFails, Left, Queue!Next, Queue!Lose
    <3> QED
      BY <2>1, <2>2, <3>1 DEF Enter, SelectReady, SelectTimesOut, CheckAge
  <2>3. CASE SelectFails \/ NoData
    <3>1. size = 0 /\ size' = 0 /\ UNCHANGED socketQueue
      BY <2>3 DEF SelectFails, NoData, DrainInv
    <3> QED
      BY <3>1, NothingLeft DEF Left
  <2>4. CASE FlushOne \/ FlushDone \/ RecvNothing
    <3>1. size = 0 /\ size' = 0
      BY <2>4 DEF FlushOne, FlushDone, RecvNothing, DrainInv
    <3>2. \/ UNCHANGED socketQueue
          \/ socketQueue # <<>> /\ socketQueue' = Tail(socketQueue)
      BY <2>4 DEF FlushOne, FlushDone, RecvNothing
    <3> QED
      BY <3>1, <3>2, NothingLeft DEF Left, Queue!Next, Queue!Lose
  <2>5. CASE RecvData
    <3> DEFINE d == Head(socketQueue)
    <3>1. /\ size = 0 /\ currentFrame = 0 /\ currentFrame' = 0
          /\ rcvBuffer' = Overwrite(rcvBuffer, d) /\ size' = Len(d)
          /\ d \in Datagrams \ {<<>>} /\ d \in Seq(Items)
      BY <2>5 DEF RecvData, DrainInv
    <3>2. Left = <<>>
      BY <3>1, SubSeqEmpty DEF Left
    <3>3. Left' = d
      BY <3>1, ReadBack DEF Left, TypeOK
    <3> QED
      BY <2>5, <3>1, <3>2, <3>3 DEF RecvData, Left, Queue!Next, Queue!Take
  <2>6. CASE Account \/ SaveDate \/ Notify
    BY <2>1, <2>6 DEF Account, SaveDate, Notify
  <2>7. CASE Return
    BY <2>1, <2>7 DEF Return, DrainInv
  <2>8. ASSUME NEW f \in Frames, PopFrame(f) PROVE Queue!HandOver
    <3>1. currentFrame < size /\ rcvBuffer[currentFrame + 1] # Malformed
      BY <2>8 DEF PopFrame
    <3>2. Left' = SubSeq(rcvBuffer, currentFrame + 2, size)
      <4>1. (currentFrame + 1) + 1 = currentFrame + 2
        BY DEF TypeOK
      <4> QED
        BY <2>8, <4>1 DEF PopFrame, Left
    <3> QED
      BY <2>8, <3>1, <3>2, LeftProperties DEF PopFrame, Left, Queue!HandOver
  <2>9. CASE PopFails
    <3>1. Left' = <<>> /\ UNCHANGED socketQueue
      <4>1. currentFrame' = 0 /\ size' = 0
        BY <2>9 DEF PopFails
      <4> QED
        BY <2>9, <4>1, SubSeqEmpty DEF PopFails, Left
    <3>2. CASE currentFrame < size
      BY <2>9, <3>1, <3>2, LeftProperties
         DEF PopFails, Left, Queue!Next, Queue!GiveUp
    <3>3. CASE currentFrame >= size
      BY <3>1, <3>3, LeftProperties DEF Left
    <3>4. currentFrame < size \/ currentFrame >= size
      BY LenProperties DEF TypeOK
    <3> QED
      BY <3>2, <3>3, <3>4
  <2>10. CASE Arrival
    BY <2>10 DEF Arrival, Arrive, Queue!Next, Queue!Arrive
  <2>11. CASE Unlock \/ Tick \/ Others
    BY <2>1, <2>11 DEF Unlock, Tick, Others, SenderDown, StoreCallback,
                       SenderCalls
  <2>12. CASE UNCHANGED rcvVars
    BY <2>1, <2>12 DEF rcvVars
  <2> QED
    BY <2>2, <2>3, <2>4, <2>5, <2>6, <2>7, <2>8, <2>9, <2>10, <2>11, <2>12
       DEF OpenNext, Others, Next, ThreadStep, ClientStep, Queue!Next
<1> QED
  BY <1>1, <1>2, TypeCorrect, DrainInvariant, PTL
     DEF OpenSpec, ImplementsDatagrams, Queue!Spec
-----------------------------------------------------------------------------
(***************************************************************************)
(* The receiver inside of a manager: N is WifiNetwork, with the state of   *)
(* this module for its receiving half and the one declared here for the    *)
(* rest.                                                                   *)
(***************************************************************************)
CONSTANTS SendFrames, FrameSize, HeaderSize, BufferSize, UdpMax, DefaultSndBuf,
          SendSizes, Leftovers, MaxSignals

VARIABLES sndBuffer, sndSize, sndCurrentFrame, socketBufferSize,
          sndIsDisconnected, sndBuf, outq, sndPc, linkUp, sndOnDisconnect,
          receiverSeen, pushed, onWire, faulty, batchLost, sizeKnown,
          sndFifo, signalPc, signals, setPc, raced

N == INSTANCE WifiNetwork WITH RecvFrames <- Frames,
                               rcvSize <- size,
                               rcvCurrentFrame <- currentFrame,
                               rcvIsDisconnected <- isDisconnected,
                               rcvOnDisconnect <- onDisconnect

(***************************************************************************)
(* What the other threads rely on: the sender's flag is never taken back,  *)
(* so what of it has come through to the receiver still holds.             *)
(***************************************************************************)
PeerInv ==
  /\ sndIsDisconnected \in BOOLEAN /\ senderSeen \in BOOLEAN
  /\ senderSeen => sndIsDisconnected
  /\ sndOnDisconnect \in [set : BOOLEAN, data : BOOLEAN]

\* The actions the manager's threads perform are those of this module.
LEMMA SameActions ==
  /\ N!R!ThreadStep => ThreadStep
  /\ N!R!ClientStep => ClientStep
  /\ N!R!SelectFails => SelectFails
  /\ N!R!Unlock => Unlock
  /\ N!R!Arrival \/ N!R!Tick => Arrival \/ Tick
<1> USE DEF N!R!object, N!R!kernel, N!R!thread, N!R!shared, N!R!history,
            object, kernel, thread, shared, history, N!R!Goto
<1>1. N!R!SelectReady \/ N!R!SelectTimesOut \/ N!R!CheckAge => ThreadStep
  BY DEF N!R!SelectReady, N!R!SelectTimesOut, N!R!CheckAge, SelectReady,
         SelectTimesOut, CheckAge, ThreadStep, N!R!TooLongWithoutReceive,
         TooLongWithoutReceive
<1>2. N!R!FlushOne \/ N!R!FlushDone \/ N!R!FlushFails => ThreadStep
  BY DEF N!R!FlushOne, N!R!FlushDone, N!R!FlushFails, FlushOne, FlushDone,
         FlushFails, ThreadStep, N!R!Overwrite, Overwrite
<1>3. N!R!RecvData \/ N!R!RecvNothing => ThreadStep
  BY DEF N!R!RecvData, N!R!RecvNothing, RecvData, RecvNothing, ThreadStep,
         N!R!Overwrite, Overwrite
<1>4. N!R!Account \/ N!R!SaveDate => ThreadStep
  BY DEF N!R!Account, N!R!SaveDate, Account, SaveDate, ThreadStep,
         N!R!TooLongWithoutReceive, TooLongWithoutReceive
<1>5. N!R!NoData \/ N!R!Notify \/ N!R!Return => ThreadStep
  BY DEF N!R!NoData, N!R!Notify, N!R!Return, NoData, Notify, Return, ThreadStep,
         N!R!TooLongWithoutReceive, TooLongWithoutReceive
<1>6. N!R!ThreadStep => ThreadStep
  BY <1>1, <1>2, <1>3, <1>4, <1>5 DEF N!R!ThreadStep
<1>7. N!R!ClientStep => ClientStep
  BY DEF N!R!ClientStep, ClientStep, N!R!Enter, Enter, N!R!PopFails, PopFails,
         N!R!PopFrame, PopFrame
<1>8. N!R!SelectFails => SelectFails
  BY DEF N!R!SelectFails, SelectFails
<1>9. N!R!Unlock => Unlock
  BY DEF N!R!Unlock, Unlock
<1>10. N!R!Arrival \/ N!R!Tick => Arrival \/ Tick
  BY DEF N!R!Arrival, Arrival, N!R!Arrive, Arrive, N!R!Tick, Tick, N!R!Older,
         Older
<1> QED
  BY <1>6, <1>7, <1>8, <1>9, <1>10

\* Of the receiver's state the sender's steps change the calls at most.
LEMMA SenderSteps ==
  ASSUME N!SenderThread
  PROVE  /\ UNCHANGED <<object, kernel, thread, onDisconnect, senderSeen,
                        history, sndOnDisconnect>>
         /\ \/ UNCHANGED calls
            \/ calls' = Append(calls, [by |-> "sender",
                                       data |-> sndOnDisconnect.data])
         /\ UNCHANGED sndIsDisconnected \/ sndIsDisconnected' = TRUE
<1> USE DEF N!S!object, N!S!kernel, N!S!shared, N!S!history
<1>1. UNCHANGED <<object, kernel, thread, onDisconnect, senderSeen, history>>
  BY DEF N!SenderThread, N!rcvOnly, N!seen, object, kernel, thread, history
<1> DEFINE Quiet == UNCHANGED <<calls, sndIsDisconnected, sndOnDisconnect>>
<1>2. ASSUME NEW f \in SendFrames, N!S!PushFrame(f) \/ N!S!PushFrameUnchecked(f)
      PROVE  Quiet
  BY <1>2 DEF N!S!PushFrame, N!S!PushFrameUnchecked, N!S!Write
<1>3. ASSUME NEW n \in SendSizes, N!S!SetSendBufferSize(n) PROVE Quiet
  BY <1>3 DEF N!S!SetSendBufferSize
<1>4. N!S!SendSucceeds \/ N!S!SendWouldBlock => Quiet
  BY DEF N!S!SendSucceeds, N!S!SendWouldBlock
<1>5. CASE N!S!SendFails
  BY <1>1, <1>5 DEF N!S!SendFails
<1>6. CASE N!S!Notify
  BY <1>1, <1>6 DEF N!S!Notify
<1>7. Quiet \/ N!S!SendFails \/ N!S!Notify
  BY <1>2, <1>3, <1>4 DEF N!SenderThread, N!S!Send
<1> QED
  BY <1>1, <1>5, <1>6, <1>7

(***************************************************************************)
(* A manager's threads do to the receiver what OpenSpec allows them to do. *)
(***************************************************************************)
THEOREM ReceiverInsideManager == N!Spec => OpenSpec
<1>1. N!Init => Init /\ PeerInv
  <2>1. N!Init => Init
    BY DEF N!Init, N!R!Init, Init, N!R!NoCallback, NoCallback
  <2>2. N!Init => PeerInv
    <3> SUFFICES ASSUME N!Init PROVE PeerInv
      OBVIOUS
    <3>1. sndOnDisconnect \in [set : {TRUE}, data : {TRUE}]
                               \cup [set : {FALSE}, data : {FALSE}]
      BY DEF N!Init, N!S!Init
    <3>2. sndOnDisconnect \in [set : BOOLEAN, data : BOOLEAN]
      BY <3>1
    <3> QED
      BY <3>2 DEF N!Init, N!R!Init, N!S!Init, PeerInv
  <2> QED
    BY <2>1, <2>2
<1>2. PeerInv /\ [N!Next]_N!vars => PeerInv' /\ [OpenNext]_rcvVars
  <2> SUFFICES ASSUME PeerInv, [N!Next]_N!vars
               PROVE  PeerInv' /\ [OpenNext]_rcvVars
    OBVIOUS
  <2> USE DEF PeerInv, OpenNext, Others, rcvVars, shared
  <2>1. CASE N!ReceiverThread
    <3>1. ThreadStep \/ ClientStep \/ SelectFails
      BY <2>1, SameActions DEF N!ReceiverThread
    <3>2. UNCHANGED <<sndIsDisconnected, senderSeen, sndOnDisconnect>>
      BY <2>1 DEF N!ReceiverThread, N!sndOnly, N!seen
    <3> QED
      BY <3>1, <3>2 DEF Next
  <2>2. CASE N!SenderThread
    <3>1. sndOnDisconnect.data \in BOOLEAN
      OBVIOUS
    <3>2. SenderCalls \/ UNCHANGED calls
      BY <2>2, <3>1, SenderSteps DEF SenderCalls
    <3>3. /\ UNCHANGED <<senderSeen, sndOnDisconnect>>
          /\ sndIsDisconnected => sndIsDisconnected'
          /\ sndIsDisconnected' \in BOOLEAN
      BY <2>2, SenderSteps
    <3>4. PeerInv'
      BY <3>3
    <3> QED
      BY <2>2, <3>2, <3>4, SenderSteps
  <2>3. CASE N!PublishSender
    <3>1. UNCHANGED <<sndIsDisconnected, sndOnDisconnect>>
      BY <2>3 DEF N!PublishSender, N!sndOnly, N!callbacks
    <3>2. PeerInv'
      BY <2>3, <3>1 DEF N!PublishSender
    <3>3. SenderDown \/ UNCHANGED rcvVars
      BY <2>3 DEF N!PublishSender, N!rcvOnly, N!callbacks, SenderDown,
                  object, kernel, thread, history
    <3> QED
      BY <3>2, <3>3
  <2>4. CASE N!PublishReceiver \/ N!CallSignal \/ N!WriteSenderFifo \/ UNCHANGED N!vars
    <3>1. UNCHANGED <<N!rcvOnly, N!callbacks, fifo, sndIsDisconnected,
                      senderSeen, calls>>
      BY <2>4 DEF N!PublishReceiver, N!CallSignal, N!WriteSenderFifo, N!sndOnly,
                  N!callbacks, N!seen, N!vars
    <3> QED
      BY <3>1 DEF N!rcvOnly, N!callbacks, object, kernel, thread, history
  <2>5. CASE N!WriteReceiverFifo
    <3>1. Unlock
      BY <2>5, SameActions DEF N!WriteReceiverFifo
    <3>2. UNCHANGED <<sndIsDisconnected, senderSeen, sndOnDisconnect>>
      BY <2>5, <3>1 DEF N!WriteReceiverFifo, N!sndOnly, Unlock
    <3> QED
      BY <3>1, <3>2 DEF Next
  <2>6. CASE N!SetOnDisconnectCallback
    <3>1. UNCHANGED <<object, kernel, thread, senderSeen, calls, history,
                      sndIsDisconnected>>
      BY <2>6 DEF N!SetOnDisconnectCallback, N!SetStep, N!sndOnly, N!rcvOnly,
                  N!seen, object, kernel, thread, history
    <3>2. sndOnDisconnect' \in [set : BOOLEAN, data : BOOLEAN]
      BY <2>6 DEF N!SetOnDisconnectCallback
    <3>3. UNCHANGED onDisconnect \/ StoreCallback
      BY <2>6, <3>1 DEF N!SetOnDisconnectCallback, StoreCallback
    <3> QED
      BY <3>1, <3>2, <3>3
  <2>7. CASE N!Environment
    <3>1. ASSUME N!S!Transmit \/ N!S!LinkFails \/ N!S!LinkRecovers,
                 UNCHANGED <<N!rcvOnly, onDisconnect, N!seen, fifo>>
          PROVE  UNCHANGED <<rcvVars, sndIsDisconnected, sndOnDisconnect>>
      <4>1. UNCHANGED <<calls, sndIsDisconnected, sndOnDisconnect>>
        BY <3>1 DEF N!S!Transmit, N!S!LinkFails, N!S!LinkRecovers, N!S!shared,
                    N!S!object
      <4> QED
        BY <3>1, <4>1 DEF N!rcvOnly, N!seen, object, kernel, thread, history
    <3>2. ASSUME N!R!Arrival \/ N!R!Tick,
                 UNCHANGED <<N!sndOnly, sndOnDisconnect, N!seen>>
          PROVE  Next /\ UNCHANGED <<sndIsDisconnected, sndOnDisconnect, senderSeen>>
      BY <3>2, SameActions DEF Next, N!sndOnly, N!seen
    <3>3. UNCHANGED <<sndIsDisconnected, sndOnDisconnect, senderSeen>>
      BY <2>7, <3>1, <3>2 DEF N!Environment
    <3>4. Next \/ UNCHANGED rcvVars
      BY <2>7, <3>1, <3>2 DEF N!Environment
    <3> QED
      BY <3>3, <3>4
  <2> QED
    BY <2>1, <2>2, <2>3, <2>4, <2>5, <2>6, <2>7 DEF N!Next, N!Signal
<1> QED
  BY <1>1, <1>2, PTL DEF N!Spec, OpenSpec

(***************************************************************************)
(* So what is proved of the receiver alone holds inside of every manager,  *)
(* whatever its sender does and whenever Unlock is called.                 *)
(***************************************************************************)
THEOREM ManagerReceivesSafely ==
  N!Spec => /\ [](TypeOK /\ DisconnectNeedsSilence)
            /\ ClientDrains => []NoDroppedFramePopped /\ ImplementsDatagrams
<1>1. CASE ClientDrains
  BY <1>1, ReceiverInsideManager, TypeCorrect, DisconnectNeedsSilenceHolds,
     NoDroppedFramePoppedHolds, ImplementsDatagramsHolds, PTL
<1>2. CASE ~ClientDrains
  BY <1>2, ReceiverInsideManager, TypeCorrect, DisconnectNeedsSilenceHolds, PTL
<1> QED
  BY <1>1, <1>2
=============================================================================
