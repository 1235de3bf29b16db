-------------------------- MODULE WifiSender_proofs --------------------------
(***************************************************************************)
(* Theorems about WifiSender, for every buffer size, datagram limit, set   *)
(* of frames and size of the kernel's buffer.                              *)
(***************************************************************************)
EXTENDS WifiSender, SequenceTheorems, TLAPS

USE DEF EmptyBatch

(***************************************************************************)
(* Type correctness of the sender.                                         *)
(***************************************************************************)
THEOREM TypeCorrect == OpenSpec => []TypeOK
<1> USE SenderAssumption DEF TypeOK
<1> DEFINE CallType == [by : {"sender", "receiver"}, data : BOOLEAN]
<1>1. Init => TypeOK
  <2> SUFFICES ASSUME Init PROVE TypeOK
    OBVIOUS
  <2>1. /\ sndBuffer \in Seq(Frames) /\ pushed \in Seq(Frames)
        /\ onWire \in Seq(Frames) /\ calls \in Seq(CallType)
    BY EmptySeq DEF Init
  <2>2. onDisconnect \in [set : BOOLEAN, data : BOOLEAN]
    BY DEF Init
  <2>3. QED
    BY <2>1, <2>2 DEF Init
<1>2. TypeOK /\ [OpenNext]_sndVars => TypeOK'
  <2> SUFFICES ASSUME TypeOK, [OpenNext]_sndVars PROVE TypeOK'
    OBVIOUS
  <2> USE DEF object, kernel, shared, history
  <2>1. ASSUME NEW f \in Frames, Write(f)
        PROVE  /\ sndBuffer' \in Seq(Frames) /\ pushed' \in Seq(Frames)
               /\ sndSize' \in Nat /\ sndCurrentFrame' \in Nat
    <3>1. FrameSize[f] \in Nat
      OBVIOUS
    <3>2. QED
      BY <2>1, <3>1, AppendProperties DEF Write
  <2>2. ASSUME NEW f \in Frames, PushFrame(f) PROVE TypeOK'
    BY <2>1, <2>2 DEF PushFrame, Write
  <2>3. ASSUME NEW f \in Frames, PushFrameUnchecked(f) PROVE TypeOK'
    BY <2>1, <2>3 DEF PushFrameUnchecked, Write
  <2>4. CASE SendSucceeds
    <3>1. sndBuffer' \in Seq(Frames) /\ onWire' \in Seq(Frames)
      BY <2>4, ConcatProperties, EmptySeq DEF SendSucceeds
    <3>2. QED
      BY <2>4, <3>1 DEF SendSucceeds
  <2>5. CASE SendWouldBlock
    <3>1. sndBuffer' \in Seq(Frames)
      BY <2>5, EmptySeq DEF SendWouldBlock
    <3>2. QED
      BY <2>5, <3>1 DEF SendWouldBlock
  <2>6. CASE SendFails
    BY <2>6 DEF SendFails
  <2>7. CASE Notify
    <3> DEFINE call == [by |-> "sender", data |-> onDisconnect.data]
    <3>1. onDisconnect.data \in BOOLEAN
      OBVIOUS
    <3>2. call \in CallType
      BY <3>1
    <3>3. Append(calls, call) \in Seq(CallType)
      BY <3>2, AppendProperties
    <3>4. calls' \in {calls, Append(calls, call)}
      BY <2>7 DEF Notify
    <3>5. QED
      BY <2>7, <3>3, <3>4 DEF Notify
  <2>8. ASSUME NEW n \in SendSizes, SetSendBufferSize(n) PROVE TypeOK'
    <3>1. n \in Nat /\ 2 * n \in Nat
      OBVIOUS
    <3>2. sndBuf' \in Nat /\ socketBufferSize' \in Nat \cup {-1} /\ sizeKnown' \in BOOLEAN
      BY <2>8, <3>1 DEF SetSendBufferSize
    <3>3. QED
      BY <2>8, <3>2 DEF SetSendBufferSize
  <2>9. CASE Transmit
    BY <2>9 DEF Transmit
  <2>10. CASE LinkFails \/ LinkRecovers \/ ReceiverDown
    BY <2>10 DEF LinkFails, LinkRecovers, ReceiverDown
  <2>11. CASE StoreCallback
    <3>1. onDisconnect' \in [set : BOOLEAN, data : BOOLEAN]
      BY <2>11 DEF StoreCallback
    <3>2. QED
      BY <2>11, <3>1 DEF StoreCallback
  <2>12. CASE ReceiverCalls
    <3>1. PICK d \in BOOLEAN : calls' = Append(calls, [by |-> "receiver", data |-> d])
      BY <2>12 DEF ReceiverCalls
    <3>2. [by |-> "receiver", data |-> d] \in CallType
      OBVIOUS
    <3>3. calls' \in Seq(CallType)
      BY <3>1, <3>2, AppendProperties
    <3>4. QED
      BY <2>12, <3>3 DEF ReceiverCalls
  <2>13. CASE UNCHANGED sndVars
    BY <2>13 DEF sndVars
  <2>14. QED
    BY <2>2, <2>3, <2>4, <2>5, <2>6, <2>7, <2>8, <2>9, <2>10, <2>11, <2>12,
       <2>13
       DEF OpenNext, Others, Next, Send
<1>3. QED
  BY <1>1, <1>2, PTL DEF OpenSpec
-----------------------------------------------------------------------------
(***************************************************************************)
(* PushFrame never writes outside the buffer nor leaves a hole in it:      *)
(* WritesInsideBuffer is inductive (c:607-670, c:749-801).                 *)
(***************************************************************************)
THEOREM WritesInsideBufferHolds == OpenSpec => []WritesInsideBuffer
<1> USE SenderAssumption DEF WritesInsideBuffer
<1>1. Init => WritesInsideBuffer
  BY DEF Init
<1>2. TypeOK /\ WritesInsideBuffer /\ [OpenNext]_sndVars => WritesInsideBuffer'
  <2> SUFFICES ASSUME TypeOK, WritesInsideBuffer, [OpenNext]_sndVars
               PROVE WritesInsideBuffer'
    OBVIOUS
  <2> USE DEF object, kernel, shared, history
  <2>1. ASSUME NEW f \in Frames, NEW available \in Int,
               HasRoom(FrameSize[f], available), Write(f)
        PROVE  WritesInsideBuffer'
    <3>1. FrameSize[f] \in Nat \ {0} /\ sndSize \in Nat
      BY DEF TypeOK
    <3>2. sndBuffer' # <<>>
      <4>1. sndBuffer \in Seq(Frames) /\ sndBuffer' = Append(sndBuffer, f)
        BY <2>1 DEF Write, TypeOK
      <4>2. QED
        BY <4>1, AppendProperties
    <3>3. QED
      BY <2>1, <3>1, <3>2 DEF Write, HasRoom
  <2>2. ASSUME NEW f \in Frames, PushFrame(f) PROVE WritesInsideBuffer'
    <3>1. AvailableSendSize \in Int
      BY DEF AvailableSendSize, TypeOK
    <3>2. QED
      BY <2>1, <2>2, <3>1 DEF PushFrame
  <2>3. ASSUME NEW f \in Frames, PushFrameUnchecked(f) PROVE WritesInsideBuffer'
    BY <2>1, <2>3 DEF PushFrameUnchecked
  <2>4. CASE Send
    BY <2>4 DEF Send, SendSucceeds, SendWouldBlock, SendFails, Notify
  <2>5. CASE \E n \in SendSizes : SetSendBufferSize(n)
    BY <2>5 DEF SetSendBufferSize
  <2>6. CASE Transmit \/ LinkFails \/ LinkRecovers \/ Others
    BY <2>6 DEF Transmit, LinkFails, LinkRecovers, Others, ReceiverDown,
                StoreCallback, ReceiverCalls
  <2>7. CASE UNCHANGED sndVars
    BY <2>7 DEF sndVars
  <2>8. QED
    BY <2>2, <2>3, <2>4, <2>5, <2>6, <2>7 DEF OpenNext, Others, Next
<1>3. QED
  BY <1>1, <1>2, TypeCorrect, PTL DEF OpenSpec
-----------------------------------------------------------------------------
(***************************************************************************)
(* Why the room check suffices: while the size is known, the batch and     *)
(* what the kernel still holds fit the kernel's buffer together.           *)
(***************************************************************************)
RoomInv ==
  /\ sizeKnown => socketBufferSize = sndBuf /\ outq + sndSize <= sndBuf
  /\ batchLost => ~sizeKnown

(***************************************************************************)
(* With a known and constant socket size no accepted batch is ever thrown  *)
(* away on EAGAIN (c:611-630, c:775-778, c:1224-1260).                     *)
(***************************************************************************)
THEOREM RoomCheckSufficesHolds == OpenSpec => []RoomCheckSuffices
<1> USE SenderAssumption DEF RoomInv
<1>1. Init => RoomInv
  BY DEF Init
<1>2. TypeOK /\ RoomInv /\ [OpenNext]_sndVars => RoomInv'
  <2> SUFFICES ASSUME TypeOK, RoomInv, [OpenNext]_sndVars PROVE RoomInv'
    OBVIOUS
  <2> USE DEF object, kernel, shared, history
  <2>0. /\ sndSize \in Nat /\ outq \in Nat /\ sndBuf \in Nat
        /\ socketBufferSize \in Nat \cup {-1}
        /\ sizeKnown \in BOOLEAN /\ batchLost \in BOOLEAN
    BY DEF TypeOK
  <2>1. ASSUME NEW f \in Frames, PushFrame(f) PROVE RoomInv'
    <3>1. FrameSize[f] \in Nat
      OBVIOUS
    <3>2. ASSUME sizeKnown
          PROVE  outq + sndSize + FrameSize[f] <= sndBuf
      BY <2>0, <2>1, <3>1, <3>2 DEF PushFrame, HasRoom, AvailableSendSize
    <3>3. QED
      BY <2>0, <2>1, <3>1, <3>2 DEF PushFrame, Write
  <2>2. ASSUME NEW f \in Frames, PushFrameUnchecked(f) PROVE RoomInv'
    BY <2>2 DEF PushFrameUnchecked, Write
  <2>3. CASE SendSucceeds
    BY <2>0, <2>3 DEF SendSucceeds
  <2>4. CASE SendWouldBlock
    BY <2>0, <2>4 DEF SendWouldBlock
  <2>5. CASE SendFails \/ Notify
    BY <2>5 DEF SendFails, Notify
  <2>6. CASE \E n \in SendSizes : SetSendBufferSize(n)
    BY <2>6 DEF SetSendBufferSize
  <2>7. CASE Transmit
    BY <2>0, <2>7 DEF Transmit
  <2>8. CASE LinkFails \/ LinkRecovers \/ Others
    BY <2>8 DEF LinkFails, LinkRecovers, Others, ReceiverDown, StoreCallback,
                ReceiverCalls
  <2>9. CASE UNCHANGED sndVars
    BY <2>9 DEF sndVars
  <2>10. QED
    BY <2>1, <2>2, <2>3, <2>4, <2>5, <2>6, <2>7, <2>8, <2>9
       DEF OpenNext, Others, Next, Send
<1>3. RoomInv => RoomCheckSuffices
  BY DEF RoomCheckSuffices
<1>4. QED
  BY <1>1, <1>2, <1>3, TypeCorrect, PTL DEF OpenSpec
-----------------------------------------------------------------------------
(***************************************************************************)
(* Only a failure of the network or an oversize batch disconnects a        *)
(* sender, and the latter stays in the buffer: pushes only add to it and   *)
(* neither a successful nor a refused send takes it away (c:749-801).      *)
(***************************************************************************)
THEOREM DisconnectNeedsCauseHolds == OpenSpec => []DisconnectNeedsCause
<1> DEFINE CauseInv == (~linkUp => faulty) /\ DisconnectNeedsCause
<1> USE SenderAssumption DEF DisconnectNeedsCause, Oversize
<1>1. Init => CauseInv
  BY DEF Init
<1>2. TypeOK /\ CauseInv /\ [OpenNext]_sndVars => CauseInv'
  <2> SUFFICES ASSUME TypeOK, CauseInv, [OpenNext]_sndVars PROVE CauseInv'
    OBVIOUS
  <2> USE DEF object, kernel, shared, history
  <2>1. CASE \E f \in Frames : PushFrame(f) \/ PushFrameUnchecked(f)
    <3>1. PICK f \in Frames : PushFrame(f) \/ PushFrameUnchecked(f)
      BY <2>1
    <3>2. sndSize \in Nat /\ FrameSize[f] \in Nat /\ sndSize' = sndSize + FrameSize[f]
      BY <3>1 DEF PushFrame, PushFrameUnchecked, Write, TypeOK
    <3>3. Oversize => Oversize'
      BY <3>2
    <3>4. QED
      BY <3>1, <3>3 DEF PushFrame, PushFrameUnchecked, Write
  <2>2. CASE SendSucceeds \/ SendWouldBlock
    <3>1. ~Oversize
      BY <2>2 DEF SendSucceeds, SendWouldBlock, TypeOK
    <3>2. QED
      BY <2>2, <3>1 DEF SendSucceeds, SendWouldBlock
  <2>3. CASE SendFails \/ Notify
    BY <2>3 DEF SendFails, Notify
  <2>4. CASE \E n \in SendSizes : SetSendBufferSize(n)
    BY <2>4 DEF SetSendBufferSize
  <2>5. CASE Transmit \/ LinkFails \/ LinkRecovers \/ Others
    BY <2>5 DEF Transmit, LinkFails, LinkRecovers, Others, ReceiverDown,
                StoreCallback, ReceiverCalls
  <2>6. CASE UNCHANGED sndVars
    BY <2>6 DEF sndVars
  <2>7. QED
    BY <2>1, <2>2, <2>3, <2>4, <2>5, <2>6 DEF OpenNext, Others, Next, Send
<1>3. CauseInv => DisconnectNeedsCause
  OBVIOUS
<1>4. QED
  BY <1>1, <1>2, <1>3, TypeCorrect, PTL DEF OpenSpec
-----------------------------------------------------------------------------
(***************************************************************************)
(* Appending to a sequence keeps what was in it and in which order.        *)
(***************************************************************************)
LEMMA AppendKeepsOrder ==
  ASSUME TypeOK, NEW e \in Frames, pushed' = Append(pushed, e)
  PROVE  /\ \A f : InSeq(f, pushed) => InSeq(f, pushed)' /\ Before(f, e)'
         /\ InSeq(e, pushed)'
         /\ \A f, g : Before(f, g) => Before(f, g)'
<1>1. /\ pushed \in Seq(Frames) /\ Len(pushed) \in Nat
      /\ Len(pushed') = Len(pushed) + 1
      /\ \A i \in 1 .. Len(pushed) : pushed'[i] = pushed[i]
      /\ pushed'[Len(pushed) + 1] = e
  BY AppendProperties, LenProperties DEF TypeOK
<1>2. \A i \in 1 .. Len(pushed) : i \in 1 .. Len(pushed') /\ i < Len(pushed')
  BY <1>1
<1>3. Len(pushed') \in 1 .. Len(pushed')
  BY <1>1
<1> QED
  BY <1>1, <1>2, <1>3 DEF InSeq, Before

(***************************************************************************)
(* SentOnceInOrder speaks of onWire \o sndBuffer; Ordered of any sequence. *)
(***************************************************************************)
Ordered(s) ==
  \A i, j \in 1 .. Len(s) :
    /\ InSeq(s[i], pushed)
    /\ i < j => Before(s[i], s[j])

\* It holds of a sequence that grows with a push ...
LEMMA AppendIsOrdered ==
  ASSUME TypeOK, NEW s \in Seq(Frames), Ordered(s),
         NEW f \in Frames, pushed' = Append(pushed, f),
         NEW t, t = Append(s, f)
  PROVE  Ordered(t)'
<1>1. /\ Len(s) \in Nat /\ Len(t) = Len(s) + 1 /\ t[Len(s) + 1] = f
      /\ \A i \in 1 .. Len(s) : t[i] = s[i]
  BY AppendProperties, LenProperties
<1> SUFFICES ASSUME NEW i \in 1 .. Len(t), NEW j \in 1 .. Len(t)
             PROVE  InSeq(t[i], pushed)' /\ (i < j => Before(t[i], t[j])')
  BY DEF Ordered
<1>2. CASE i \in 1 .. Len(s) /\ j \in 1 .. Len(s)
  <2>1. InSeq(s[i], pushed) /\ (i < j => Before(s[i], s[j]))
    BY <1>2 DEF Ordered
  <2>2. t[i] = s[i] /\ t[j] = s[j]
    BY <1>1, <1>2
  <2> QED
    BY <2>1, <2>2, AppendKeepsOrder
<1>3. CASE i \in 1 .. Len(s) /\ j = Len(s) + 1
  <2>1. InSeq(s[i], pushed) /\ t[i] = s[i] /\ t[j] = f
    BY <1>1, <1>3 DEF Ordered
  <2> QED
    BY <2>1, AppendKeepsOrder
<1>4. CASE i = Len(s) + 1
  <2>1. t[i] = f /\ ~(i < j)
    BY <1>1, <1>4
  <2> QED
    BY <2>1, AppendKeepsOrder
<1> QED
  BY <1>1, <1>2, <1>3, <1>4

\* ... and of what is left of one whose end is lost.
LEMMA PrefixIsOrdered ==
  ASSUME NEW s, Ordered(s), pushed' = pushed,
         NEW t, Len(t) \in Nat, Len(s) \in Nat, Len(t) <= Len(s),
         \A i \in 1 .. Len(t) : t[i] = s[i]
  PROVE  Ordered(t)'
<1>1. \A i \in 1 .. Len(t) : i \in 1 .. Len(s)
  OBVIOUS
<1> QED
  BY <1>1 DEF Ordered, InSeq, Before

(***************************************************************************)
(* What has been sent and what waits are pushed frames in pushed order,    *)
(* each of them once: SentOnceInOrder is inductive (c:607-670, c:749-801). *)
(***************************************************************************)
THEOREM SentOnceInOrderHolds == OpenSpec => []SentOnceInOrder
<1>1. Init => SentOnceInOrder
  BY DEF Init, SentOnceInOrder
<1>2. TypeOK /\ SentOnceInOrder /\ [OpenNext]_sndVars => SentOnceInOrder'
  <2> SUFFICES ASSUME TypeOK, SentOnceInOrder, [OpenNext]_sndVars
               PROVE  SentOnceInOrder'
    OBVIOUS
  <2> USE DEF object, kernel, shared, history
  <2> PICK s : s = onWire \o sndBuffer
    OBVIOUS
  <2> PICK t : t = (onWire \o sndBuffer)'
    OBVIOUS
  <2>1. /\ onWire \in Seq(Frames) /\ sndBuffer \in Seq(Frames)
        /\ s \in Seq(Frames) /\ Len(s) \in Nat /\ Ordered(s)
    BY ConcatProperties, LenProperties DEF TypeOK, SentOnceInOrder, Ordered
  <2>2. SUFFICES Ordered(t)'
    BY DEF SentOnceInOrder, Ordered
  <2>3. ASSUME NEW f \in Frames, Write(f) PROVE Ordered(t)'
    <3>1. t = Append(s, f) /\ pushed' = Append(pushed, f)
      BY <2>1, <2>3 DEF Write
    <3> QED
      BY <2>1, <3>1, AppendIsOrdered
  <2>4. CASE t = s /\ pushed' = pushed
    BY <2>1, <2>4, PrefixIsOrdered
  <2>5. CASE SendSucceeds
    <3>1. t = s
      BY <2>1, <2>5, ConcatProperties, EmptySeq DEF SendSucceeds
    <3> QED
      BY <2>4, <2>5, <3>1 DEF SendSucceeds
  <2>6. CASE SendWouldBlock
    <3>1. t = onWire /\ pushed' = pushed
      BY <2>1, <2>6 DEF SendWouldBlock
    <3>2. /\ Len(t) \in Nat /\ Len(t) <= Len(s)
          /\ \A i \in 1 .. Len(t) : t[i] = s[i]
      BY <2>1, <3>1, ConcatProperties, LenProperties
    <3> QED
      BY <2>1, <3>1, <3>2, PrefixIsOrdered
  <2>7. CASE SendFails \/ Notify
    BY <2>4, <2>7 DEF SendFails, Notify
  <2>8. CASE \E n \in SendSizes : SetSendBufferSize(n)
    BY <2>4, <2>8 DEF SetSendBufferSize
  <2>9. CASE Transmit \/ LinkFails \/ LinkRecovers \/ Others
    BY <2>4, <2>9 DEF Transmit, LinkFails, LinkRecovers, Others,
                      ReceiverDown, StoreCallback, ReceiverCalls
  <2>10. CASE UNCHANGED sndVars
    BY <2>4, <2>10 DEF sndVars
  <2> QED
    BY <2>3, <2>5, <2>6, <2>7, <2>8, <2>9, <2>10
       DEF OpenNext, Others, Next, Send, PushFrame, PushFrameUnchecked
<1> QED
  BY <1>1, <1>2, TypeCorrect, PTL DEF OpenSpec
-----------------------------------------------------------------------------
(***************************************************************************)
(* The sender implements the batch channel: a push appends, a Send moves   *)
(* the whole batch to the wire or loses it, and nothing else touches the   *)
(* frames, whatever the sizes, the socket and the link (c:607-670,         *)
(* c:749-801).                                                             *)
(***************************************************************************)
THEOREM ImplementsChannelHolds == OpenSpec => ImplementsChannel
<1>1. Init => Channel!Init
  BY DEF Init, Channel!Init
<1>2. [OpenNext]_sndVars => [Channel!Next]_Channel!vars
  <2> SUFFICES ASSUME [OpenNext]_sndVars PROVE [Channel!Next]_Channel!vars
    OBVIOUS
  <2> USE DEF object, kernel, shared, history, Channel!vars
  <2>1. ASSUME NEW f \in Frames, PushFrame(f) \/ PushFrameUnchecked(f)
        PROVE  Channel!Accept(f)
    BY <2>1 DEF PushFrame, PushFrameUnchecked, Write, InSeq, Channel!Accept
  <2>2. SendSucceeds => Channel!Deliver
    BY DEF SendSucceeds, Channel!Deliver
  <2>3. SendWouldBlock => Channel!Lose
    BY DEF SendWouldBlock, Channel!Lose
  <2>4. CASE SendFails \/ Notify
    BY <2>4 DEF SendFails, Notify
  <2>5. CASE \E n \in SendSizes : SetSendBufferSize(n)
    BY <2>5 DEF SetSendBufferSize
  <2>6. CASE Transmit \/ LinkFails \/ LinkRecovers \/ Others
    BY <2>6 DEF Transmit, LinkFails, LinkRecovers, Others, ReceiverDown,
                StoreCallback, ReceiverCalls
  <2>7. CASE UNCHANGED sndVars
    BY <2>7 DEF sndVars
  <2> QED
    BY <2>1, <2>2, <2>3, <2>4, <2>5, <2>6, <2>7
       DEF OpenNext, Others, Next, Send, Channel!Next
<1> QED
  BY <1>1, <1>2, PTL DEF OpenSpec, ImplementsChannel, Channel!Spec
-----------------------------------------------------------------------------
(***************************************************************************)
(* The sender inside of a manager: N is WifiNetwork, with the state of     *)
(* this module for its sending half and the one declared here for the rest.*)
(***************************************************************************)
CONSTANTS RecvFrames, Malformed, Corrupt, Datagrams, Timeout, SelectTimeout,
          QueueCap, FifoCap, ClientDrains, MaxSignals

VARIABLES rcvBuffer, rcvSize, rcvCurrentFrame, dateSet, dateAge, recvIsFlushed,
          rcvIsDisconnected, socketQueue, fifo, rcvPc, waited, fifoReady,
          result, rcvOnDisconnect, senderSeen, sinceData, gap, dropped,
          sndFifo, signalPc, signals, setPc, raced

N == INSTANCE WifiNetwork WITH SendFrames <- Frames,
                               sndOnDisconnect <- onDisconnect

(***************************************************************************)
(* What the other threads rely on: the receiver's flag is never taken      *)
(* back, so what of it has come through to the sender still holds.         *)
(***************************************************************************)
PeerInv ==
  /\ rcvIsDisconnected \in BOOLEAN /\ receiverSeen \in BOOLEAN
  /\ receiverSeen => rcvIsDisconnected
  /\ rcvOnDisconnect \in [set : BOOLEAN, data : BOOLEAN]

\* The actions the manager's threads perform are those of this module.
LEMMA SameActions ==
  /\ \A f \in Frames : /\ N!S!PushFrame(f) => PushFrame(f)
                       /\ N!S!PushFrameUnchecked(f) => PushFrameUnchecked(f)
  /\ N!S!Send => Send
  /\ \A n \in SendSizes : N!S!SetSendBufferSize(n) => SetSendBufferSize(n)
  /\ N!S!Transmit \/ N!S!LinkFails \/ N!S!LinkRecovers
       => Transmit \/ LinkFails \/ LinkRecovers
<1> USE DEF N!S!object, N!S!kernel, N!S!shared, N!S!history, object, kernel,
            shared, history
<1>1. ASSUME NEW f \in Frames
      PROVE  /\ N!S!PushFrame(f) => PushFrame(f)
             /\ N!S!PushFrameUnchecked(f) => PushFrameUnchecked(f)
  <2>1. N!S!Write(f) => Write(f)
    BY DEF N!S!Write, Write
  <2>2. /\ N!S!InSeq(f, pushed) <=> InSeq(f, pushed)
        /\ N!S!AvailableSendSize = AvailableSendSize
    BY DEF N!S!InSeq, InSeq, N!S!AvailableSendSize, AvailableSendSize
  <2>3. \A available : N!S!HasRoom(FrameSize[f], available)
                        <=> HasRoom(FrameSize[f], available)
    BY DEF N!S!HasRoom, HasRoom
  <2> QED
    BY <2>1, <2>2, <2>3 DEF N!S!PushFrame, PushFrame, N!S!PushFrameUnchecked,
                            PushFrameUnchecked
<1>2. N!S!Send => Send
  BY DEF N!S!Send, Send, N!S!SendSucceeds, SendSucceeds, N!S!SendWouldBlock,
         SendWouldBlock, N!S!SendFails, SendFails, N!S!Notify, Notify,
         N!S!EmptyBatch
<1>3. \A n \in SendSizes : N!S!SetSendBufferSize(n) => SetSendBufferSize(n)
  BY DEF N!S!SetSendBufferSize, SetSendBufferSize
<1>4. N!S!Transmit \/ N!S!LinkFails \/ N!S!LinkRecovers
        => Transmit \/ LinkFails \/ LinkRecovers
  BY DEF N!S!Transmit, Transmit, N!S!LinkFails, LinkFails, N!S!LinkRecovers,
         LinkRecovers
<1> QED
  BY <1>1, <1>2, <1>3, <1>4

\* Of the sender's state the receiver's steps change the calls at most.
LEMMA ReceiverSteps ==
  ASSUME N!ReceiverThread
  PROVE  /\ UNCHANGED <<object, kernel, sndPc, linkUp, onDisconnect,
                        receiverSeen, history, rcvOnDisconnect>>
         /\ \/ UNCHANGED calls
            \/ calls' = Append(calls, [by |-> "receiver",
                                       data |-> rcvOnDisconnect.data])
         /\ UNCHANGED rcvIsDisconnected \/ rcvIsDisconnected' = TRUE
<1> USE DEF N!R!object, N!R!kernel, N!R!thread, N!R!shared, N!R!history
<1>1. UNCHANGED <<object, kernel, sndPc, linkUp, onDisconnect, receiverSeen,
                  history>>
  BY DEF N!ReceiverThread, N!sndOnly, N!seen, object, kernel, history
<1> DEFINE Quiet == UNCHANGED <<calls, rcvIsDisconnected, rcvOnDisconnect>>
<1>2. CASE N!R!SelectReady \/ N!R!SelectTimesOut \/ N!R!CheckAge \/ N!R!SelectFails
  <2>1. Quiet
    BY <1>2 DEF N!R!SelectReady, N!R!SelectTimesOut, N!R!CheckAge,
                N!R!SelectFails
  <2> QED
    BY <1>1, <2>1
<1>3. CASE N!R!FlushOne \/ N!R!FlushDone \/ N!R!FlushFails
  <2>1. Quiet
    BY <1>3 DEF N!R!FlushOne, N!R!FlushDone, N!R!FlushFails
  <2> QED
    BY <1>1, <2>1
<1>4. CASE N!R!RecvData \/ N!R!RecvNothing \/ N!R!Account \/ N!R!SaveDate
  <2>1. Quiet
    BY <1>4 DEF N!R!RecvData, N!R!RecvNothing, N!R!Account, N!R!SaveDate
  <2> QED
    BY <1>1, <2>1
<1>5. CASE N!R!Return \/ N!R!ClientStep
  <2>1. Quiet
    BY <1>5 DEF N!R!Return, N!R!ClientStep, N!R!Enter, N!R!PopFails,
                N!R!PopFrame
  <2> QED
    BY <1>1, <2>1
<1>6. CASE N!R!NoData
  BY <1>1, <1>6 DEF N!R!NoData
<1>7. CASE N!R!Notify
  BY <1>1, <1>7 DEF N!R!Notify
<1> QED
  BY <1>2, <1>3, <1>4, <1>5, <1>6, <1>7 DEF N!ReceiverThread, N!R!ThreadStep

(***************************************************************************)
(* A manager's threads do to the sender what OpenSpec allows them to do.   *)
(***************************************************************************)
THEOREM SenderInsideManager == N!Spec => OpenSpec
<1>1. N!Init => Init /\ PeerInv
  <2>1. N!Init => Init
    BY DEF N!Init, N!S!Init, Init
  <2>2. N!Init => PeerInv
    <3> SUFFICES ASSUME N!Init PROVE PeerInv
      OBVIOUS
    <3>1. onDisconnect \in [set : {TRUE}, data : {TRUE}]
                            \cup [set : {FALSE}, data : {FALSE}]
      BY DEF N!Init, N!S!Init
    <3>2. onDisconnect \in [set : BOOLEAN, data : BOOLEAN]
      BY <3>1
    <3> QED
      BY <3>2 DEF N!Init, N!R!Init, N!S!Init, PeerInv
  <2> QED
    BY <2>1, <2>2
<1>2. PeerInv /\ [N!Next]_N!vars => PeerInv' /\ [OpenNext]_sndVars
  <2> SUFFICES ASSUME PeerInv, [N!Next]_N!vars
               PROVE  PeerInv' /\ [OpenNext]_sndVars
    OBVIOUS
  <2> USE DEF PeerInv, OpenNext, Others, sndVars, shared
  <2>1. CASE N!SenderThread
    <3>1. Next
      BY <2>1, SameActions DEF N!SenderThread, Next
    <3>2. UNCHANGED <<rcvIsDisconnected, receiverSeen, rcvOnDisconnect>>
      BY <2>1 DEF N!SenderThread, N!rcvOnly, N!seen
    <3> QED
      BY <3>1, <3>2
  <2>2. CASE N!ReceiverThread
    <3>1. rcvOnDisconnect.data \in BOOLEAN
      OBVIOUS
    <3>2. ReceiverCalls \/ UNCHANGED calls
      BY <2>2, <3>1, ReceiverSteps DEF ReceiverCalls
    <3>3. /\ UNCHANGED <<receiverSeen, rcvOnDisconnect>>
          /\ rcvIsDisconnected => rcvIsDisconnected'
          /\ rcvIsDisconnected' \in BOOLEAN
      BY <2>2, ReceiverSteps
    <3>4. PeerInv'
      BY <3>3
    <3> QED
      BY <2>2, <3>2, <3>4, ReceiverSteps
  <2>3. CASE N!PublishReceiver
    <3>1. UNCHANGED <<rcvIsDisconnected, rcvOnDisconnect>>
      BY <2>3 DEF N!PublishReceiver, N!rcvOnly, N!callbacks
    <3>2. PeerInv'
      BY <2>3, <3>1 DEF N!PublishReceiver
    <3>3. ReceiverDown \/ UNCHANGED sndVars
      BY <2>3 DEF N!PublishReceiver, N!sndOnly, N!callbacks, ReceiverDown,
                  object, kernel, history
    <3> QED
      BY <3>2, <3>3
  <2>4. CASE N!PublishSender \/ N!CallSignal \/ N!Signal \/ UNCHANGED N!vars
    <3>1. UNCHANGED <<N!sndOnly, N!callbacks, rcvIsDisconnected, receiverSeen,
                      calls>>
      BY <2>4 DEF N!PublishSender, N!CallSignal, N!Signal, N!WriteSenderFifo,
                  N!WriteReceiverFifo, N!R!Unlock, N!rcvOnly, N!callbacks,
                  N!seen, N!vars, N!R!object, N!R!thread, N!R!shared
    <3> QED
      BY <3>1 DEF N!sndOnly, N!callbacks, object, kernel, history
  <2>5. CASE N!SetOnDisconnectCallback
    <3>1. UNCHANGED <<object, kernel, sndPc, linkUp, receiverSeen, calls,
                      history, rcvIsDisconnected>>
      BY <2>5 DEF N!SetOnDisconnectCallback, N!SetStep, N!sndOnly, N!rcvOnly,
                  N!seen, object, kernel, history
    <3>2. rcvOnDisconnect' \in [set : BOOLEAN, data : BOOLEAN]
      BY <2>5 DEF N!SetOnDisconnectCallback
    <3>3. UNCHANGED onDisconnect \/ StoreCallback
      BY <2>5, <3>1 DEF N!SetOnDisconnectCallback, StoreCallback
    <3> QED
      BY <3>1, <3>2, <3>3
  <2>6. CASE N!Environment
    <3>1. N!S!Transmit \/ N!S!LinkFails \/ N!S!LinkRecovers => Next
      BY SameActions DEF Next
    <3>2. ASSUME N!R!Arrival \/ N!R!Tick,
                 UNCHANGED <<N!sndOnly, onDisconnect, N!seen>>
          PROVE  UNCHANGED sndVars
      <4>1. UNCHANGED calls
        BY <3>2 DEF N!R!Arrival, N!R!Arrive, N!R!Tick, N!R!shared
      <4>2. UNCHANGED sndVars
        BY <3>2, <4>1 DEF N!sndOnly, N!seen, object, kernel, history
      <4> QED
        BY <4>2
    <3>3. Next \/ UNCHANGED sndVars
      BY <2>6, <3>1, <3>2 DEF N!Environment
    <3>4. UNCHANGED <<rcvIsDisconnected, receiverSeen, rcvOnDisconnect>>
      BY <2>6 DEF N!Environment, N!rcvOnly, N!seen, N!R!Arrival, N!R!Arrive,
                  N!R!Tick, N!R!object, N!R!shared
    <3> QED
      BY <3>3, <3>4
  <2> QED
    BY <2>1, <2>2, <2>3, <2>4, <2>5, <2>6 DEF N!Next
<1> QED
  BY <1>1, <1>2, PTL DEF N!Spec, OpenSpec

(***************************************************************************)
(* So what is proved of the sender alone holds inside of every manager,    *)
(* whenever the callback is registered and whatever its receiver does.     *)
(***************************************************************************)
THEOREM ManagerSendsSafely ==
  N!Spec => /\ [](TypeOK /\ WritesInsideBuffer /\ SentOnceInOrder)
            /\ [](RoomCheckSuffices /\ DisconnectNeedsCause)
            /\ ImplementsChannel
BY SenderInsideManager, TypeCorrect, WritesInsideBufferHolds,
   SentOnceInOrderHolds, RoomCheckSufficesHolds, DisconnectNeedsCauseHolds,
   ImplementsChannelHolds, PTL
=============================================================================
