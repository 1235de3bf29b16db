-------------------------- MODULE WifiNetwork_proofs --------------------------
(***************************************************************************)
(* Theorems about the callback of a Wifi manager at work, for every set of *)
(* frames and datagrams, every size, timeout and number of Unlocks.        *)
(***************************************************************************)
EXTENDS WifiNetwork, SequenceTheorems, TLAPS

CallType     == [by : {"sender", "receiver"}, data : BOOLEAN]
CallbackType == [set : BOOLEAN, data : BOOLEAN]

SenderDetecting   == sndPc = "notify"
ReceiverDetecting == rcvPc = "notify"

\* The state the detection of a disconnection depends on.
DetectionTyped ==
  /\ sndIsDisconnected \in BOOLEAN /\ rcvIsDisconnected \in BOOLEAN
  /\ senderSeen \in BOOLEAN /\ receiverSeen \in BOOLEAN /\ raced \in BOOLEAN
  /\ sndPc \in {"idle", "notify"}
  /\ calls \in Seq(CallType)
  /\ sndOnDisconnect \in CallbackType /\ rcvOnDisconnect \in CallbackType

(***************************************************************************)
(* What the steps of each thread do to it.                                 *)
(***************************************************************************)
SenderQuiet ==
  UNCHANGED <<sndIsDisconnected, sndPc, calls, sndOnDisconnect, receiverSeen>>

ReceiverQuiet ==
  /\ UNCHANGED <<rcvIsDisconnected, calls, rcvOnDisconnect, senderSeen>>
  /\ ~ReceiverDetecting /\ ~ReceiverDetecting'

LEMMA SenderSteps ==
  ASSUME SenderThread
  PROVE  /\ SenderQuiet \/ S!SendFails \/ S!Notify
         /\ UNCHANGED <<rcvIsDisconnected, rcvPc, rcvOnDisconnect, senderSeen,
                        receiverSeen, sndOnDisconnect, setPc>>
<1> USE DEF S!object, S!kernel, S!shared, S!history, SenderQuiet
<1>1. UNCHANGED <<rcvIsDisconnected, rcvPc, rcvOnDisconnect, senderSeen,
                  receiverSeen, setPc>>
  BY DEF SenderThread, rcvOnly, seen, control
<1>2. ASSUME NEW f \in SendFrames, S!PushFrame(f) \/ S!PushFrameUnchecked(f)
      PROVE  SenderQuiet
  BY <1>2 DEF S!PushFrame, S!PushFrameUnchecked, S!Write
<1>3. ASSUME NEW n \in SendSizes, S!SetSendBufferSize(n) PROVE SenderQuiet
  BY <1>3 DEF S!SetSendBufferSize
<1>4. CASE S!SendSucceeds \/ S!SendWouldBlock
  BY <1>1, <1>4 DEF S!SendSucceeds, S!SendWouldBlock, S!EmptyBatch
<1>5. CASE S!SendFails \/ S!Notify
  BY <1>1, <1>5 DEF S!SendFails, S!Notify
<1> QED
  BY <1>1, <1>2, <1>3, <1>4, <1>5 DEF SenderThread, S!Send

LEMMA ReceiverSteps ==
  ASSUME ReceiverThread
  PROVE  /\ ReceiverQuiet \/ R!NoData \/ R!Notify
         /\ UNCHANGED <<sndIsDisconnected, sndPc, sndOnDisconnect, senderSeen,
                        receiverSeen, rcvOnDisconnect, setPc>>
<1> USE DEF R!object, R!kernel, R!thread, R!shared, R!history, ReceiverQuiet,
            ReceiverDetecting, R!Goto
<1>1. UNCHANGED <<sndIsDisconnected, sndPc, sndOnDisconnect, senderSeen,
                  receiverSeen, setPc>>
  BY DEF ReceiverThread, sndOnly, seen, control
<1>2. CASE R!SelectReady \/ R!SelectTimesOut \/ R!CheckAge \/ R!SelectFails
  BY <1>1, <1>2 DEF R!SelectReady, R!SelectTimesOut, R!CheckAge, R!SelectFails
<1>3. CASE R!FlushOne \/ R!FlushDone \/ R!FlushFails
  BY <1>1, <1>3 DEF R!FlushOne, R!FlushDone, R!FlushFails
<1>4. CASE R!RecvData \/ R!RecvNothing \/ R!Account \/ R!SaveDate
  BY <1>1, <1>4 DEF R!RecvData, R!RecvNothing, R!Account, R!SaveDate
<1>5. CASE R!Return \/ R!ClientStep
  BY <1>1, <1>5 DEF R!Return, R!ClientStep, R!Enter, R!PopFails, R!PopFrame
<1>6. CASE R!NoData \/ R!Notify
  BY <1>1, <1>6 DEF R!NoData, R!Notify
<1> QED
  BY <1>1, <1>2, <1>3, <1>4, <1>5, <1>6 DEF ReceiverThread, R!ThreadStep

\* The other steps move a flag across, or a store of SetOnDisconnectCallback.
Stored(c) == {c, [c EXCEPT !.set = TRUE], [c EXCEPT !.data = TRUE]}

OtherStep ==
  /\ UNCHANGED <<sndIsDisconnected, rcvIsDisconnected, sndPc, rcvPc, calls,
                 raced>>
  /\ receiverSeen' \in {receiverSeen, rcvIsDisconnected}
  /\ senderSeen' \in {senderSeen, sndIsDisconnected}
  /\ (setPc = "first") <=> (setPc' = "first")
  /\ setPc = "first" => UNCHANGED callbacks
  /\ sndOnDisconnect' \in Stored(sndOnDisconnect)
  /\ rcvOnDisconnect' \in Stored(rcvOnDisconnect)

LEMMA Steps ==
  ASSUME [Next]_vars
  PROVE  SenderThread \/ ReceiverThread \/ OtherStep
<1> USE DEF OtherStep, Stored, sndOnly, rcvOnly, callbacks, seen, control
<1>1. CASE PublishSender \/ PublishReceiver
  BY <1>1 DEF PublishSender, PublishReceiver
<1>2. CASE SetOnDisconnectCallback
  BY <1>2 DEF SetOnDisconnectCallback, SetStep
<1>3. CASE CallSignal \/ Signal
  BY <1>3 DEF CallSignal, Signal, WriteSenderFifo, WriteReceiverFifo, R!Unlock,
              R!object, R!thread, R!shared, R!history
<1>4. CASE Environment
  <2>1. CASE /\ S!Transmit \/ S!LinkFails \/ S!LinkRecovers
             /\ UNCHANGED <<rcvOnly, rcvOnDisconnect, seen, control, fifo,
                            raced>>
    BY <2>1 DEF S!Transmit, S!LinkFails, S!LinkRecovers, S!object, S!shared,
                S!kernel
  <2>2. CASE /\ R!Arrival \/ R!Tick
             /\ UNCHANGED <<sndOnly, sndOnDisconnect, seen, control, raced>>
    BY <2>2 DEF R!Arrival, R!Arrive, R!Tick, R!object, R!thread, R!shared
  <2> QED
    BY <1>4, <2>1, <2>2 DEF Environment
<1>5. CASE UNCHANGED vars
  BY <1>5 DEF vars
<1> QED
  BY <1>1, <1>2, <1>3, <1>4, <1>5 DEF Next
-----------------------------------------------------------------------------
LEMMA AppendedCall ==
  ASSUME calls \in Seq(CallType), NEW c \in CallType, calls' = Append(calls, c)
  PROVE  /\ calls' \in Seq(CallType) /\ Len(calls) \in Nat
         /\ Len(calls') = Len(calls) + 1 /\ calls'[Len(calls) + 1] = c
         /\ \A i \in 1 .. Len(calls) : calls'[i] = calls[i]
BY AppendProperties, LenProperties

(***************************************************************************)
(* A callback decision appends the thread's call, or nothing.              *)
(***************************************************************************)
SenderCall   == [by |-> "sender", data |-> sndOnDisconnect.data]
ReceiverCall == [by |-> "receiver", data |-> rcvOnDisconnect.data]

LEMMA CallsTyped ==
  ASSUME DetectionTyped
  PROVE  SenderCall \in CallType /\ ReceiverCall \in CallType
BY DEF DetectionTyped, CallbackType, CallType, SenderCall, ReceiverCall

LEMMA TypedAtFirst == Init => DetectionTyped
<1> SUFFICES ASSUME Init PROVE DetectionTyped
  OBVIOUS
<1>1. calls \in Seq(CallType)
  BY EmptySeq DEF Init, S!Init
<1>2. sndOnDisconnect \in CallbackType /\ rcvOnDisconnect \in CallbackType
  BY DEF Init, S!Init, CallbackType
<1> QED
  BY <1>1, <1>2 DEF Init, S!Init, R!Init, DetectionTyped

LEMMA TypedKept ==
  ASSUME DetectionTyped, [Next]_vars
  PROVE  DetectionTyped'
<1> USE DEF DetectionTyped
<1>1. CASE SenderThread
  <2>1. raced' \in BOOLEAN
    BY <1>1 DEF SenderThread
  <2>2. CASE SenderQuiet
    BY <1>1, <2>1, <2>2, SenderSteps DEF SenderQuiet
  <2>3. CASE S!SendFails
    BY <1>1, <2>1, <2>3, SenderSteps DEF S!SendFails, S!shared
  <2>4. CASE S!Notify
    <3>1. calls' = calls \/ calls' = Append(calls, SenderCall)
      BY <2>4 DEF S!Notify, SenderCall
    <3>2. calls' \in Seq(CallType)
      BY <3>1, CallsTyped, AppendedCall
    <3> QED
      BY <1>1, <2>1, <2>4, <3>2, SenderSteps DEF S!Notify, S!object
  <2> QED
    BY <1>1, <2>2, <2>3, <2>4, SenderSteps
<1>2. CASE ReceiverThread
  <2>1. raced' \in BOOLEAN
    BY <1>2 DEF ReceiverThread
  <2>2. CASE ReceiverQuiet
    BY <1>2, <2>1, <2>2, ReceiverSteps DEF ReceiverQuiet
  <2>3. CASE R!NoData
    BY <1>2, <2>1, <2>3, ReceiverSteps DEF R!NoData, R!shared
  <2>4. CASE R!Notify
    <3>1. calls' = calls \/ calls' = Append(calls, ReceiverCall)
      BY <2>4 DEF R!Notify, ReceiverCall
    <3>2. calls' \in Seq(CallType)
      BY <3>1, CallsTyped, AppendedCall
    <3> QED
      BY <1>2, <2>1, <2>4, <3>2, ReceiverSteps DEF R!Notify, R!object
  <2> QED
    BY <1>2, <2>2, <2>3, <2>4, ReceiverSteps
<1>3. CASE OtherStep
  BY <1>3 DEF OtherStep, Stored, CallbackType
<1> QED
  BY <1>1, <1>2, <1>3, Steps
-----------------------------------------------------------------------------
(***************************************************************************)
(* A thread that has not detected a disconnection, or is still deciding,   *)
(* has not called; its flag is set before it decides and never cleared.    *)
(***************************************************************************)
NoCallBy(who) == \A i \in 1 .. Len(calls) : calls[i].by # who

CallerInv ==
  /\ SenderDetecting => sndIsDisconnected
  /\ ReceiverDetecting => rcvIsDisconnected
  /\ ~sndIsDisconnected \/ SenderDetecting => NoCallBy("sender")
  /\ ~rcvIsDisconnected \/ ReceiverDetecting => NoCallBy("receiver")
  /\ NoObjectNotifiesTwice

LEMMA OneMoreCall ==
  ASSUME calls \in Seq(CallType), NoObjectNotifiesTwice,
         NEW c \in CallType, NoCallBy(c.by), calls' = Append(calls, c)
  PROVE  /\ NoObjectNotifiesTwice'
         /\ \A who : who # c.by /\ NoCallBy(who) => NoCallBy(who)'
<1>1. /\ Len(calls) \in Nat /\ Len(calls') = Len(calls) + 1
      /\ calls'[Len(calls) + 1] = c
      /\ \A i \in 1 .. Len(calls) : calls'[i] = calls[i]
  BY AppendedCall
<1>2. \A i \in 1 .. Len(calls') : i = Len(calls) + 1 \/ i \in 1 .. Len(calls)
  BY <1>1
<1> QED
  BY <1>1, <1>2 DEF NoObjectNotifiesTwice, NoCallBy

(***************************************************************************)
(* Neither object ever runs the callback twice, not even when both threads *)
(* detect the disconnection at once (c:782-792, c:908-922).                *)
(***************************************************************************)
THEOREM NoObjectNotifiesTwiceHolds == Spec => []NoObjectNotifiesTwice
<1> USE DEF CallerInv, SenderDetecting, ReceiverDetecting
<1>1. Init => CallerInv
  BY DEF Init, S!Init, R!Init, NoCallBy, NoObjectNotifiesTwice
<1>2. DetectionTyped /\ CallerInv /\ [Next]_vars => CallerInv'
  <2> SUFFICES ASSUME DetectionTyped, CallerInv, [Next]_vars PROVE CallerInv'
    OBVIOUS
  <2> USE DEF NoCallBy, NoObjectNotifiesTwice
  <2>1. CASE SenderThread
    <3>1. CASE SenderQuiet
      BY <2>1, <3>1, SenderSteps DEF SenderQuiet
    <3>2. CASE S!SendFails
      BY <2>1, <3>2, SenderSteps DEF S!SendFails, S!shared, DetectionTyped
    <3>3. CASE S!Notify /\ calls' = calls
      BY <2>1, <3>3, SenderSteps DEF S!Notify, S!object
    <3>4. CASE S!Notify /\ calls' # calls
      <4>1. calls' = Append(calls, SenderCall)
        BY <3>4 DEF S!Notify, SenderCall
      <4>2. SenderCall.by = "sender" /\ NoCallBy("sender")
        BY <3>4 DEF S!Notify, SenderCall
      <4> HIDE DEF NoCallBy, NoObjectNotifiesTwice
      <4>3. /\ NoObjectNotifiesTwice'
            /\ NoCallBy("receiver") => NoCallBy("receiver")'
        BY <4>1, <4>2, CallsTyped, OneMoreCall DEF DetectionTyped
      <4> QED
        BY <2>1, <3>4, <4>3, SenderSteps DEF S!Notify, S!object
    <3> QED
      BY <2>1, <3>1, <3>2, <3>3, <3>4, SenderSteps
  <2>2. CASE ReceiverThread
    <3>1. CASE ReceiverQuiet
      BY <2>2, <3>1, ReceiverSteps DEF ReceiverQuiet
    <3>2. CASE R!NoData
      BY <2>2, <3>2, ReceiverSteps DEF R!NoData, R!shared, DetectionTyped
    <3>3. CASE R!Notify /\ calls' = calls
      BY <2>2, <3>3, ReceiverSteps DEF R!Notify, R!object, R!Goto
    <3>4. CASE R!Notify /\ calls' # calls
      <4>1. calls' = Append(calls, ReceiverCall)
        BY <3>4 DEF R!Notify, ReceiverCall
      <4>2. ReceiverCall.by = "receiver" /\ NoCallBy("receiver")
        BY <3>4 DEF R!Notify, R!Goto, ReceiverCall
      <4> HIDE DEF NoCallBy, NoObjectNotifiesTwice
      <4>3. /\ NoObjectNotifiesTwice'
            /\ NoCallBy("sender") => NoCallBy("sender")'
        BY <4>1, <4>2, CallsTyped, OneMoreCall DEF DetectionTyped
      <4> QED
        BY <2>2, <3>4, <4>3, ReceiverSteps DEF R!Notify, R!object, R!Goto
    <3> QED
      BY <2>2, <3>1, <3>2, <3>3, <3>4, ReceiverSteps
  <2>3. CASE OtherStep
    BY <2>3 DEF OtherStep
  <2> QED
    BY <2>1, <2>2, <2>3, Steps
<1>3. CallerInv => NoObjectNotifiesTwice
  OBVIOUS
<1> QED
  BY <1>1, <1>2, <1>3, TypedAtFirst, TypedKept, PTL DEF Spec
-----------------------------------------------------------------------------
(***************************************************************************)
(* While the detections have not overlapped: who is deciding sees the      *)
(* other's flag as it is, before any decision there is no call, and the    *)
(* first decision makes the only one.                                      *)
(***************************************************************************)
SenderDecided   == sndIsDisconnected /\ ~SenderDetecting
ReceiverDecided == rcvIsDisconnected /\ ~ReceiverDetecting

OnceInv ==
  /\ SenderDetecting => /\ sndIsDisconnected /\ ~ReceiverDetecting
                        /\ receiverSeen = rcvIsDisconnected
  /\ ReceiverDetecting => rcvIsDisconnected /\ senderSeen = sndIsDisconnected
  /\ ~SenderDecided /\ ~ReceiverDecided => calls = <<>>
  /\ Len(calls) <= 1
  /\ RegisteredFirst /\ (SenderDecided \/ ReceiverDecided) => Len(calls) = 1

CallbackInv ==
  RegisteredFirst => sndOnDisconnect.set /\ rcvOnDisconnect.set

(***************************************************************************)
(* As long as the detections do not overlap, a callback registered in time *)
(* has run exactly once when a disconnection has been decided upon, and a  *)
(* later one at most once (c:782-792, c:908-922).                          *)
(***************************************************************************)
THEOREM NotifiedOnceHolds == Spec => []NotifiedOnce
<1> DEFINE Inv == CallbackInv /\ (~raced => OnceInv)
<1> USE DEF CallbackInv, RegisteredFirst
<1>1. Init => Inv
  <2> SUFFICES ASSUME Init PROVE Inv
    OBVIOUS
  <2>1. CallbackInv
    BY DEF Init
  <2>2. OnceInv
    BY DEF Init, S!Init, R!Init, OnceInv, SenderDecided, ReceiverDecided,
           SenderDetecting, ReceiverDetecting
  <2> QED
    BY <2>1, <2>2
<1>2. DetectionTyped /\ Inv /\ [Next]_vars => Inv'
  <2> SUFFICES ASSUME DetectionTyped, Inv, [Next]_vars PROVE Inv'
    OBVIOUS
  <2>1. CallbackInv'
    BY Steps, SenderSteps, ReceiverSteps DEF OtherStep, callbacks
  <2>2. SUFFICES ASSUME ~raced' PROVE OnceInv'
    BY <2>1
  <2>3. ~raced
    BY <2>2, Steps DEF SenderThread, ReceiverThread, OtherStep, DetectionTyped
  <2> USE DEF OnceInv, SenderDecided, ReceiverDecided, SenderDetecting,
              ReceiverDetecting, DetectionTyped
  <2>4. CASE SenderThread
    <3>1. CASE SenderQuiet
      BY <2>3, <2>4, <3>1, SenderSteps DEF SenderQuiet
    <3>2. CASE S!SendFails
      <4>1. CASE sndIsDisconnected
        BY <2>3, <2>4, <3>2, <4>1, SenderSteps DEF S!SendFails, S!shared
      <4>2. CASE ~sndIsDisconnected
        <5>1. rcvPc # "notify" /\ receiverSeen = rcvIsDisconnected
          BY <2>2, <2>4, <3>2, <4>2 DEF SenderThread, S!SendFails
        <5>2. /\ sndIsDisconnected' = TRUE /\ sndPc' = "notify"
              /\ calls' = calls
          BY <3>2, <4>2 DEF S!SendFails, S!shared
        <5>3. UNCHANGED <<rcvIsDisconnected, rcvPc, receiverSeen, setPc>>
          BY <2>4, SenderSteps
        <5> QED
          BY <2>3, <4>2, <5>1, <5>2, <5>3
      <4> QED
        BY <4>1, <4>2
    <3>3. CASE S!Notify
      <4>1. CASE rcvIsDisconnected
        BY <2>3, <2>4, <3>3, <4>1, SenderSteps DEF S!Notify, S!object
      <4>2. CASE ~rcvIsDisconnected
        <5>1. calls = <<>> /\ ~receiverSeen
          BY <2>3, <3>3, <4>2 DEF S!Notify
        <5>2. /\ Append(calls, SenderCall) \in Seq(CallType)
              /\ Len(Append(calls, SenderCall)) = 1 /\ Len(calls) = 0
          BY <5>1, CallsTyped, AppendProperties
        <5>3. sndOnDisconnect.set => calls' = Append(calls, SenderCall)
          BY <3>3, <5>1 DEF S!Notify, SenderCall
        <5>4. ~sndOnDisconnect.set => calls' = calls
          BY <3>3 DEF S!Notify
        <5>5. /\ sndPc = "notify" /\ sndPc' = "idle"
              /\ sndIsDisconnected' = sndIsDisconnected
          BY <3>3 DEF S!Notify, S!object
        <5>6. /\ Len(calls') <= 1
              /\ sndOnDisconnect.set => Len(calls') = 1
          <6>1. CASE sndOnDisconnect.set
            <7>1. Len(calls') = 1
              BY <5>2, <5>3, <6>1
            <7> QED
              BY <7>1
          <6>2. CASE ~sndOnDisconnect.set
            <7>1. Len(calls') = 0
              BY <5>2, <5>4, <6>2
            <7> QED
              BY <6>2, <7>1
          <6> QED
            BY <6>1, <6>2
        <5>7. UNCHANGED <<rcvIsDisconnected, rcvPc, receiverSeen, setPc>>
          BY <2>4, SenderSteps
        <5> QED
          BY <2>3, <4>2, <5>1, <5>5, <5>6, <5>7
      <4> QED
        BY <4>1, <4>2
    <3> QED
      BY <2>4, <3>1, <3>2, <3>3, SenderSteps
  <2>5. CASE ReceiverThread
    <3>1. CASE ReceiverQuiet
      BY <2>3, <2>5, <3>1, ReceiverSteps DEF ReceiverQuiet
    <3>2. CASE R!NoData
      <4>1. CASE rcvIsDisconnected
        BY <2>3, <2>5, <3>2, <4>1, ReceiverSteps DEF R!NoData, R!shared
      <4>2. CASE rcvIsDisconnected' = rcvIsDisconnected
        BY <2>3, <2>5, <3>2, <4>2, ReceiverSteps DEF R!NoData, R!shared
      <4>3. CASE ~rcvIsDisconnected /\ rcvIsDisconnected' # rcvIsDisconnected
        <5>1. sndPc # "notify" /\ senderSeen = sndIsDisconnected
          BY <2>2, <2>5, <3>2, <4>3 DEF ReceiverThread
        <5> QED
          BY <2>3, <2>5, <3>2, <4>3, <5>1, ReceiverSteps DEF R!NoData, R!shared
      <4> QED
        BY <4>1, <4>2, <4>3
    <3>3. CASE R!Notify
      <4>1. CASE sndIsDisconnected
        BY <2>3, <2>5, <3>3, <4>1, ReceiverSteps DEF R!Notify, R!object, R!Goto
      <4>2. CASE ~sndIsDisconnected
        <5>1. calls = <<>> /\ ~senderSeen
          BY <2>3, <3>3, <4>2 DEF R!Notify, R!Goto
        <5>2. /\ Append(calls, ReceiverCall) \in Seq(CallType)
              /\ Len(Append(calls, ReceiverCall)) = 1 /\ Len(calls) = 0
          BY <5>1, CallsTyped, AppendProperties
        <5>3. rcvOnDisconnect.set => calls' = Append(calls, ReceiverCall)
          BY <3>3, <5>1 DEF R!Notify, ReceiverCall
        <5>4. ~rcvOnDisconnect.set => calls' = calls
          BY <3>3 DEF R!Notify
        <5>5. /\ rcvPc = "notify" /\ rcvPc' = "dump"
              /\ rcvIsDisconnected' = rcvIsDisconnected
          BY <3>3 DEF R!Notify, R!object, R!Goto
        <5>6. /\ Len(calls') <= 1
              /\ rcvOnDisconnect.set => Len(calls') = 1
          <6>1. CASE rcvOnDisconnect.set
            <7>1. Len(calls') = 1
              BY <5>2, <5>3, <6>1
            <7> QED
              BY <7>1
          <6>2. CASE ~rcvOnDisconnect.set
            <7>1. Len(calls') = 0
              BY <5>2, <5>4, <6>2
            <7> QED
              BY <6>2, <7>1
          <6> QED
            BY <6>1, <6>2
        <5>7. UNCHANGED <<sndIsDisconnected, sndPc, senderSeen, setPc>>
          BY <2>5, ReceiverSteps
        <5> QED
          BY <2>3, <4>2, <5>1, <5>5, <5>6, <5>7
      <4> QED
        BY <4>1, <4>2
    <3> QED
      BY <2>5, <3>1, <3>2, <3>3, ReceiverSteps
  <2>6. CASE OtherStep
    BY <2>3, <2>6 DEF OtherStep
  <2> QED
    BY <2>4, <2>5, <2>6, Steps
<1>3. DetectionTyped /\ Inv => NotifiedOnce
  BY DEF NotifiedOnce, OnceInv, SenderDecided, ReceiverDecided,
         SenderDetecting, ReceiverDetecting, DetectionTyped
<1> QED
  BY <1>1, <1>2, <1>3, TypedAtFirst, TypedKept, PTL DEF Spec
-----------------------------------------------------------------------------
(***************************************************************************)
(* Type correctness of what the manager adds to its halves: neither pipe   *)
(* counter, nor Signal, nor SetOnDisconnectCallback leaves its states.     *)
(***************************************************************************)
THEOREM TypeCorrect == Spec => []TypeOK
<1> USE NetworkAssumption DEF TypeOK
<1>1. Init => TypeOK
  <2> SUFFICES ASSUME Init PROVE TypeOK
    OBVIOUS
  <2>1. setPc \in {"first", "idle"}
    BY Zenon DEF Init
  <2>2. sndFifo \in 0 .. FifoCap /\ signals \in 0 .. MaxSignals
    BY DEF Init
  <2>3. signalPc = "idle" /\ raced = FALSE
    BY DEF Init
  <2> QED
    BY <2>1, <2>2, <2>3
<1>2. TypeOK /\ [Next]_vars => TypeOK'
  <2> SUFFICES ASSUME TypeOK, [Next]_vars PROVE TypeOK'
    OBVIOUS
  <2>1. CASE SenderThread
    BY <2>1 DEF SenderThread, control
  <2>2. CASE ReceiverThread
    BY <2>2 DEF ReceiverThread, control
  <2>3. CASE PublishSender \/ PublishReceiver
    BY <2>3 DEF PublishSender, PublishReceiver, control
  <2>4. CASE SetOnDisconnectCallback
    BY <2>4 DEF SetOnDisconnectCallback, SetStep
  <2>5. CASE CallSignal
    BY <2>5 DEF CallSignal
  <2>6. CASE Signal
    BY <2>6 DEF Signal, WriteSenderFifo, WriteReceiverFifo
  <2>7. CASE Environment
    BY <2>7 DEF Environment, control
  <2>8. CASE UNCHANGED vars
    BY <2>8 DEF vars, control
  <2> QED
    BY <2>1, <2>2, <2>3, <2>4, <2>5, <2>6, <2>7, <2>8 DEF Next
<1> QED
  BY <1>1, <1>2, PTL DEF Spec
-----------------------------------------------------------------------------
(* The two pipes: what calls of Unlock have written, less what was read.   *)

PipeInv ==
  /\ fifo \in Nat
  /\ sndFifo + (IF signalPc = "sender" THEN 1 ELSE 0) = signals
  /\ fifo + (IF signalPc = "idle" THEN 0 ELSE 1) <= signals

LEMMA ReceiverOnlyReads ==
  ASSUME ReceiverThread, fifo \in Nat
  PROVE  fifo' \in Nat /\ fifo' <= fifo
<1> USE DEF R!object, R!kernel, R!thread, R!shared, R!history
<1>1. CASE R!Return
  BY <1>1 DEF R!Return
<1>2. CASE R!ThreadStep /\ ~R!Return
  BY <1>2 DEF R!ThreadStep, R!SelectReady, R!SelectTimesOut, R!CheckAge,
          R!FlushOne, R!FlushDone, R!FlushFails, R!RecvData, R!RecvNothing,
          R!Account, R!SaveDate, R!NoData, R!Notify
<1>3. CASE R!ClientStep \/ R!SelectFails
  BY <1>3 DEF R!ClientStep, R!Enter, R!PopFails, R!PopFrame, R!SelectFails
<1> QED
  BY <1>1, <1>2, <1>3 DEF ReceiverThread

(***************************************************************************)
(* However many calls of Unlock there are, one is held up only at the      *)
(* sender's pipe, which nothing reads, and only after FifoCap calls; once  *)
(* it is past that write the receiver gets its byte (c:248-271).           *)
(***************************************************************************)
THEOREM UnlockBlocksOnlyWhenFull == Spec => []WritesSucceed
<1> USE NetworkAssumption DEF PipeInv
<1>1. Init => PipeInv
  BY DEF Init, R!Init
<1>2. TypeOK /\ PipeInv /\ [Next]_vars => PipeInv'
  <2> SUFFICES ASSUME TypeOK, PipeInv, [Next]_vars PROVE PipeInv'
    OBVIOUS
  <2> USE DEF TypeOK
  <2>1. CASE SenderThread \/ PublishSender \/ PublishReceiver
    BY <2>1 DEF SenderThread, PublishSender, PublishReceiver, control
  <2>2. CASE ReceiverThread
    BY <2>2, ReceiverOnlyReads DEF ReceiverThread, control
  <2>3. CASE SetOnDisconnectCallback
    BY <2>3 DEF SetOnDisconnectCallback, SetStep
  <2>4. CASE CallSignal
    BY <2>4 DEF CallSignal
  <2>5. CASE WriteSenderFifo
    BY <2>5 DEF WriteSenderFifo
  <2>6. CASE WriteReceiverFifo
    BY <2>6 DEF WriteReceiverFifo, R!Unlock
  <2>7. CASE Environment
    BY <2>7 DEF Environment, control, R!Arrival, R!Arrive, R!Tick, R!kernel
  <2>8. CASE UNCHANGED vars
    BY <2>8 DEF vars, control
  <2> QED
    BY <2>1, <2>2, <2>3, <2>4, <2>5, <2>6, <2>7, <2>8 DEF Next, Signal
<1>3. TypeOK /\ PipeInv => WritesSucceed
  BY DEF TypeOK, WritesSucceed
<1> QED
  BY <1>1, <1>2, <1>3, TypeCorrect, PTL DEF Spec
=============================================================================
