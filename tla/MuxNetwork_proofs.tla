-------------------------- MODULE MuxNetwork_proofs --------------------------
(***************************************************************************)
(* Proofs about the Mux network, for any number of buffers, any of them    *)
(* bad, any queue and any frames to send.                                  *)
(***************************************************************************)
EXTENDS MuxNetwork, TLAPS

\* The steps of Next, named for the proofs below.
PushStep    == \E f \in Frames : PushFrame(f)
ReceiveStep == Receive \/ GetBuffer \/ PopFrame
OtherStep   == GetFails \/ SetOnDisconnectCallback \/ Close
ReportStep  == SenderReports \/ ReceiverReports

(***************************************************************************)
(* A sequence that a step extends, empties or leaves alone keeps its type. *)
(***************************************************************************)
LEMMA SequenceStaysTyped ==
  ASSUME NEW S, NEW s \in Seq(S), NEW t,
         t = s \/ t = <<>> \/ \E e \in S : t = Append(s, e)
  PROVE  t \in Seq(S)
<1>1. CASE t = s
  BY <1>1
<1>2. CASE t = <<>>
  BY <1>2
<1>3. CASE \E e \in S : t = Append(s, e)
  BY <1>3
<1> QED
  BY <1>1, <1>2, <1>3

(***************************************************************************)
(* Typing holds in every reachable state.                                  *)
(***************************************************************************)
THEOREM TypeCorrect == Spec => []TypeOK
<1> USE MuxAssumption DEF NULL
<1>1. Init => TypeOK
  <2> SUFFICES ASSUME Init PROVE TypeOK
    OBVIOUS
  <2>1. BuffersTyped
    BY DEF Init, BuffersTyped
  <2>2. FlagsTyped
    BY DEF Init, FlagsTyped
  <2>3. ThreadsTyped
    BY DEF Init, ThreadsTyped
  <2> QED
    BY <2>1, <2>2, <2>3 DEF TypeOK
<1>2. BuffersTyped /\ [Next]_vars => BuffersTyped'
  <2> SUFFICES ASSUME BuffersTyped, [Next]_vars PROVE BuffersTyped'
    OBVIOUS
  <2> USE DEF BuffersTyped, buffers, channel
  <2>1. CASE PushStep \/ PushFrameFails \/ ReportStep \/ OtherStep
    BY <2>1 DEF PushStep, PushFrame, PushFrameFails, ReportStep,
                SenderReports, ReceiverReports, OtherStep, GetFails,
                SetOnDisconnectCallback, Close
  <2>2. CASE Receive
    BY <2>2 DEF Receive, Held
  <2>3. CASE GetBuffer
    BY <2>3 DEF GetBuffer
  <2>4. CASE PopFrame
    <3>1. rxbuf_recv \in 1 .. Buffers
      BY <2>4 DEF PopFrame
    <3>2. popped' = popped \/ popped' = Append(popped, rxbuf_recv)
      BY <2>4 DEF PopFrame
    <3>3. popped' \in Seq(1 .. Buffers)
      BY <3>1, <3>2, SequenceStaysTyped
    <3>4. /\ rxbuf_recv' = NULL /\ rxbuf_pop' = rxbuf_recv
          /\ UNCHANGED <<released, queue, arrived>>
      BY <2>4 DEF PopFrame
    <3> QED
      BY <3>1, <3>3, <3>4
  <2>5. CASE GivesUpQueue
    BY <2>5 DEF GivesUpQueue
  <2>6. CASE Arrive
    BY <2>6 DEF Arrive
  <2>7. CASE CloseChannel
    <3>1. queue' = queue \/ queue' = <<>>
      BY <2>7 DEF CloseChannel
    <3>2. queue' \in Seq(1 .. Buffers)
      BY <3>1, SequenceStaysTyped
    <3>3. UNCHANGED <<buffers, arrived, popped>>
      BY <2>7 DEF CloseChannel
    <3> QED
      BY <3>2, <3>3
  <2>8. CASE UNCHANGED vars
    BY <2>8 DEF vars
  <2> QED
    BY <2>1, <2>2, <2>3, <2>4, <2>5, <2>6, <2>7, <2>8
       DEF Next, ReceiverStep, PushStep, ReportStep, OtherStep
<1>3. FlagsTyped /\ ThreadsTyped /\ [Next]_vars => (FlagsTyped /\ ThreadsTyped)'
  <2> SUFFICES ASSUME FlagsTyped, ThreadsTyped, [Next]_vars
               PROVE  FlagsTyped' /\ ThreadsTyped'
    OBVIOUS
  <2> USE DEF FlagsTyped, ThreadsTyped, own, channel, callback, sending
  <2>1. CASE PushStep
    BY <2>1 DEF PushStep, PushFrame
  <2>2. CASE PushFrameFails
    BY <2>2 DEF PushFrameFails, TestDisconnected
  <2>3. CASE ReportStep
    <3>1. calls' = calls \/ \E who \in Reporters : calls' = Append(calls, who)
      BY <2>3 DEF ReportStep, SenderReports, ReceiverReports, SetDisconnected,
                  CallOnDisconnect, Reporters
    <3>2. calls' \in Seq(Reporters)
      BY <3>1, SequenceStaysTyped
    <3> QED
      BY <2>3, <3>2 DEF ReportStep, SenderReports, ReceiverReports,
                        SetDisconnected, CallOnDisconnect
  <2>4. CASE ReceiveStep
    BY <2>4 DEF ReceiveStep, Receive, GetBuffer, PopFrame
  <2>5. CASE GivesUpQueue
    BY <2>5 DEF GivesUpQueue, TestDisconnected
  <2>6. CASE OtherStep
    BY <2>6 DEF OtherStep, GetFails, SetOnDisconnectCallback, Close
  <2>7. CASE Arrive \/ CloseChannel
    BY <2>7 DEF Arrive, CloseChannel
  <2>8. CASE UNCHANGED vars
    BY <2>8 DEF vars
  <2> QED
    BY <2>1, <2>2, <2>3, <2>4, <2>5, <2>6, <2>7, <2>8
       DEF Next, ReceiverStep, PushStep, ReportStep, ReceiveStep, OtherStep
<1> QED
  BY <1>1, <1>2, <1>3, PTL DEF Spec, TypeOK

(***************************************************************************)
(* Buffers are numbered as they arrive.  Those in the queue are the last   *)
(* ones; those before them were taken out, and none of them is missing     *)
(* until the channel is closed with some of them in its queue.             *)
(***************************************************************************)
Taken == 1 .. (arrived - Len(queue))

OrderInv ==
  /\ Len(queue) <= arrived
  /\ \A i \in 1 .. Len(queue) : queue[i] = arrived - Len(queue) + i
  /\ Held \cup released \subseteq Taken
  /\ channelOpen => Taken \subseteq Held \cup released

\* A buffer is in one place, and only between a successful Receive and the
\* next one does the object hold any.
PlaceInv ==
  /\ rxbuf_recv # NULL => rxbuf_recv # rxbuf_pop
  /\ Held \cap released = {}
  /\ rcvPc # "pop" => rxbuf_recv = NULL /\ rxbuf_pop = NULL
  /\ PopBufferIsFree

BufferInv == OrderInv /\ PlaceInv

LEMMA BufferInvHolds == Spec => []BufferInv
<1> USE MuxAssumption DEF NULL
<1>1. Init => BufferInv
  BY DEF Init, BufferInv, OrderInv, PlaceInv, Held, Taken, PopBufferIsFree
<1>2. BuffersTyped /\ BufferInv /\ [Next]_vars => BufferInv'
  <2> SUFFICES ASSUME BuffersTyped, BufferInv, [Next]_vars PROVE BufferInv'
    OBVIOUS
  <2>1. ASSUME UNCHANGED <<rxbuf_recv, rxbuf_pop, released, queue, arrived,
                           channelOpen, rcvPc>>
        PROVE  BufferInv'
    BY <2>1 DEF BufferInv, OrderInv, PlaceInv, Held, Taken, PopBufferIsFree
  <2>2. CASE PushStep \/ PushFrameFails \/ SenderReports
             \/ SetOnDisconnectCallback \/ Close
    BY <2>1, <2>2 DEF PushStep, PushFrame, PushFrameFails, SenderReports,
                      SetOnDisconnectCallback, Close, buffers, channel
  <2>3. CASE UNCHANGED vars
    BY <2>1, <2>3 DEF vars, buffers, channel
  <2> USE DEF BuffersTyped, BufferInv, OrderInv, PlaceInv, Held, Taken,
              PopBufferIsFree
  <2>4. CASE ReceiverReports \/ GivesUpQueue \/ GetFails
    <3>1. /\ rcvPc # "pop"
          /\ UNCHANGED <<rxbuf_recv, rxbuf_pop, released, queue, arrived,
                         channelOpen>>
      BY <2>4 DEF ReceiverReports, SetDisconnected, CallOnDisconnect,
                  GivesUpQueue, GetFails, buffers, channel
    <3> QED
      BY <3>1
  <2>5. CASE Receive
    BY <2>5 DEF Receive, channel
  <2>6. CASE GetBuffer
    <3>1. /\ queue # <<>> /\ rcvPc = "wait" /\ rcvPc' = "pop"
          /\ queue' = Tail(queue) /\ rxbuf_recv' = Head(queue)
          /\ UNCHANGED <<rxbuf_pop, released, arrived, channelOpen>>
      BY <2>6 DEF GetBuffer
    <3>2. /\ Len(queue') = Len(queue) - 1
          /\ \A i \in 1 .. Len(queue') : queue'[i] = queue[i + 1]
          /\ rxbuf_recv' = arrived - Len(queue) + 1
          /\ rxbuf_pop = NULL /\ rxbuf_recv = NULL
      BY <3>1
    <3>3. OrderInv'
      <4>1. Len(queue) \in Nat \ {0} /\ Len(queue') <= arrived'
        BY <3>1, <3>2
      <4>2. \A i \in 1 .. Len(queue') : queue'[i] = arrived' - Len(queue') + i
        BY <3>1, <3>2, <4>1
      <4>3. Taken' = Taken \cup {rxbuf_recv'}
        BY <3>1, <3>2, <4>1
      <4>4. Held' = {rxbuf_recv'} /\ Held = {}
        BY <3>1, <3>2, <4>1
      <4>5. /\ (Held \cup released)' \subseteq Taken'
            /\ channelOpen' => Taken' \subseteq (Held \cup released)'
        BY <3>1, <4>3, <4>4
      <4> QED
        BY <4>1, <4>2, <4>5
    <3>4. PlaceInv'
      BY <3>1, <3>2
    <3> QED
      BY <3>3, <3>4
  <2>7. CASE PopFrame
    BY <2>7 DEF PopFrame, channel
  <2>8. CASE Arrive
    <3>1. /\ arrived' = arrived + 1 /\ queue' = Append(queue, arrived + 1)
          /\ channelOpen /\ UNCHANGED <<rxbuf_recv, rxbuf_pop, released,
                                        channelOpen, rcvPc>>
      BY <2>8 DEF Arrive, buffers
    <3>2. /\ Len(queue') = Len(queue) + 1
          /\ \A i \in 1 .. Len(queue) : queue'[i] = queue[i]
          /\ queue'[Len(queue) + 1] = arrived + 1
      BY <3>1
    <3>3. OrderInv'
      <4>1. Len(queue) \in Nat /\ Len(queue') <= arrived'
        BY <3>1, <3>2
      <4>2. \A i \in 1 .. Len(queue') : queue'[i] = arrived' - Len(queue') + i
        BY <3>1, <3>2, <4>1
      <4>3. Taken' = Taken /\ Held' = Held
        BY <3>1, <3>2, <4>1
      <4> QED
        BY <3>1, <4>1, <4>2, <4>3
    <3>4. PlaceInv'
      BY <3>1
    <3> QED
      BY <3>3, <3>4
  <2>9. CASE CloseChannel
    <3>1. /\ ~channelOpen'
          /\ queue' = queue \/ queue' = <<>>
          /\ UNCHANGED <<rxbuf_recv, rxbuf_pop, released, arrived, rcvPc>>
      BY <2>9 DEF CloseChannel, buffers
    <3>2. Len(queue) \in Nat /\ Len(<<>>) = 0
      OBVIOUS
    <3>3. OrderInv'
      <4>1. /\ Len(queue') <= arrived'
            /\ Taken \subseteq 1 .. (arrived' - Len(queue'))
        BY <3>1, <3>2
      <4>2. \A i \in 1 .. Len(queue') : queue'[i] = arrived' - Len(queue') + i
        <5>1. CASE queue' = queue
          BY <3>1, <5>1
        <5>2. CASE queue' = <<>>
          BY <3>2, <5>2
        <5> QED
          BY <3>1, <5>1, <5>2
      <4>3. (Held \cup released)' \subseteq Taken'
        BY <3>1, <4>1
      <4> QED
        BY <3>1, <4>1, <4>2, <4>3
    <3>4. PlaceInv'
      BY <3>1
    <3> QED
      BY <3>3, <3>4
  <2> QED
    BY <2>2, <2>3, <2>4, <2>5, <2>6, <2>7, <2>8, <2>9
       DEF Next, ReceiverStep, PushStep
<1> QED
  BY <1>1, <1>2, TypeCorrect, PTL DEF Spec, TypeOK

(***************************************************************************)
(* Each buffer is held once until it is given back, once, and none is lost *)
(* while the channel is open (Mux.c:149-156, 187-190 and 216-222).         *)
(***************************************************************************)
THEOREM BuffersHeldOnceHolds == Spec => []BuffersHeldOnce
<1>1. BuffersTyped /\ BufferInv => BuffersHeldOnce
  <2> SUFFICES ASSUME BuffersTyped, BufferInv PROVE BuffersHeldOnce
    OBVIOUS
  <2> USE DEF BuffersTyped, BufferInv, OrderInv, PlaceInv, Taken
  <2> DEFINE n == arrived - Len(queue)
  <2>0. Len(queue) \in Nat /\ n \in Nat /\ arrived = n + Len(queue)
    OBVIOUS
  <2>1. Waiting = (n + 1) .. arrived
    <3>1. \A i \in 1 .. Len(queue) : queue[i] = n + i
      OBVIOUS
    <3> HIDE DEF n
    <3>2. \A b \in (n + 1) .. arrived :
            b - n \in 1 .. Len(queue) /\ queue[b - n] = b
      BY <2>0, <3>1
    <3>3. \A i \in 1 .. Len(queue) : queue[i] \in (n + 1) .. arrived
      BY <2>0, <3>1
    <3>4. \A b \in Waiting : b \in (n + 1) .. arrived
      BY <3>3 DEF Waiting
    <3>5. \A b \in (n + 1) .. arrived : b \in Waiting
      BY <3>2 DEF Waiting
    <3> QED
      BY <3>4, <3>5
  <2>2. channelOpen => Held \cup released = 1 .. (arrived - Len(queue))
    OBVIOUS
  <2>3. channelOpen => 1 .. arrived = Waiting \cup Held \cup released
    <3>1. 1 .. arrived = (1 .. n) \cup ((n + 1) .. arrived)
      BY <2>0
    <3> QED
      BY <2>1, <2>2, <3>1
  <2> QED
    BY <2>3 DEF BuffersHeldOnce
<1> QED
  BY <1>1, TypeCorrect, BufferInvHolds, PTL DEF TypeOK

(***************************************************************************)
(* PopFrame never has to refuse for a popped buffer that is still there    *)
(* (Mux.c:152).                                                            *)
(***************************************************************************)
THEOREM PopBufferIsFreeHolds == Spec => []PopBufferIsFree
<1>1. BufferInv => PopBufferIsFree
  BY DEF BufferInv, PlaceInv
<1> QED
  BY <1>1, BufferInvHolds, PTL

(***************************************************************************)
(* While the detections have never overlapped, one thread at most is at    *)
(* its notification, and it found the flag down.                           *)
(***************************************************************************)
NotifyInv ==
  ~raced =>
    /\ ~(sndPc \in Detecting /\ rcvPc \in Detecting)
    /\ sndPc = "set" \/ rcvPc = "set" => ~disconnected
    /\ sndPc = "notify" \/ rcvPc = "notify" => disconnected
    /\ sndPc \in Detecting \/ rcvPc \in Detecting \/ ~disconnected
         => calls = <<>>
    /\ Len(calls) <= 1

(***************************************************************************)
(* One callback at most, unless the two threads detect at the same time    *)
(* (Mux.c:118-122, 239-243).                                               *)
(***************************************************************************)
THEOREM NotifiedAtMostOnceHolds == Spec => []NotifiedAtMostOnce
<1>1. Init => NotifyInv
  BY DEF Init, NotifyInv, Detecting
<1>2. FlagsTyped /\ ThreadsTyped /\ NotifyInv /\ [Next]_vars => NotifyInv'
  <2> SUFFICES ASSUME FlagsTyped, ThreadsTyped, NotifyInv, [Next]_vars
               PROVE  NotifyInv'
    OBVIOUS
  <2> USE DEF FlagsTyped, ThreadsTyped, NotifyInv, Detecting
  <2>1. CASE PushStep
    BY <2>1 DEF PushStep, PushFrame, callback
  <2>2. CASE PushFrameFails
    BY <2>2 DEF PushFrameFails, TestDisconnected
  <2>0. /\ Len(<<>>) = 0
        /\ \A who : Len(Append(<<>>, who)) = 1
    OBVIOUS
  <2>3. CASE ReportStep
    <3>1. CASE SetDisconnected(sndPc) /\ UNCHANGED rcvPc
      BY <3>1 DEF SetDisconnected
    <3>2. CASE SetDisconnected(rcvPc) /\ UNCHANGED sndPc
      BY <3>2 DEF SetDisconnected
    <3>3. ASSUME NEW who, CallOnDisconnect(sndPc, who), UNCHANGED rcvPc
          PROVE  NotifyInv'
      <4>1. ~raced => calls = <<>> /\ disconnected
        BY <3>3 DEF CallOnDisconnect
      <4>2. ~raced => Len(calls') <= 1
        BY <2>0, <3>3, <4>1 DEF CallOnDisconnect
      <4>3. /\ UNCHANGED <<raced, disconnected>> /\ sndPc' = "idle"
            /\ ~raced => rcvPc \notin Detecting
        BY <3>3 DEF CallOnDisconnect
      <4> QED
        BY <3>3, <4>1, <4>2, <4>3
    <3>4. ASSUME NEW who, CallOnDisconnect(rcvPc, who), UNCHANGED sndPc
          PROVE  NotifyInv'
      <4>1. ~raced => calls = <<>> /\ disconnected
        BY <3>4 DEF CallOnDisconnect
      <4>2. ~raced => Len(calls') <= 1
        BY <2>0, <3>4, <4>1 DEF CallOnDisconnect
      <4>3. /\ UNCHANGED <<raced, disconnected>> /\ rcvPc' = "idle"
            /\ ~raced => sndPc \notin Detecting
        BY <3>4 DEF CallOnDisconnect
      <4> QED
        BY <3>4, <4>1, <4>2, <4>3
    <3> QED
      BY <2>3, <3>1, <3>2, <3>3, <3>4
         DEF ReportStep, SenderReports, ReceiverReports, sending
  <2>5. CASE ReceiveStep
    BY <2>5 DEF ReceiveStep, Receive, GetBuffer, PopFrame, callback, sending
  <2>6. CASE GivesUpQueue
    BY <2>6 DEF GivesUpQueue, TestDisconnected, sending
  <2>7. CASE OtherStep
    BY <2>7 DEF OtherStep, GetFails, SetOnDisconnectCallback, Close, callback,
                sending
  <2>8. CASE Arrive \/ CloseChannel
    BY <2>8 DEF Arrive, CloseChannel, callback, sending
  <2>9. CASE UNCHANGED vars
    BY <2>9 DEF vars, callback, sending
  <2> QED
    BY <2>1, <2>2, <2>3, <2>5, <2>6, <2>7, <2>8, <2>9
       DEF Next, ReceiverStep, PushStep, ReportStep, ReceiveStep, OtherStep
<1>3. NotifyInv => NotifiedAtMostOnce
  BY DEF NotifyInv, NotifiedAtMostOnce
<1> QED
  BY <1>1, <1>2, <1>3, TypeCorrect, PTL DEF Spec, TypeOK

(***************************************************************************)
(* The receiving thread blocks only on a queue the object has: once        *)
(* Receive has given the queue up it never waits again (Mux.c:185, 231),   *)
(* which is what UnlockSticks says short of the scheduling.                *)
(***************************************************************************)
WaitsOnQueue == rcvPc = "wait" => rxqueue

GivenUp == ~rxqueue /\ rcvPc # "wait"

THEOREM QueueGoneForGood ==
  Spec => []WaitsOnQueue /\ [](~rxqueue => [](rcvPc # "wait"))
<1> USE DEF WaitsOnQueue, GivenUp
<1>1. Init => WaitsOnQueue
  BY DEF Init
<1>2. ASSUME [Next]_vars
      PROVE  (WaitsOnQueue => WaitsOnQueue') /\ (GivenUp => GivenUp')
  <2>1. CASE PushStep \/ PushFrameFails \/ ReportStep
    BY <2>1 DEF PushStep, PushFrame, PushFrameFails, ReportStep, SenderReports,
                ReceiverReports, SetDisconnected, CallOnDisconnect, own
  <2>2. CASE ReceiveStep
    BY <2>2 DEF ReceiveStep, Receive, GetBuffer, PopFrame, own
  <2>3. CASE GivesUpQueue
    BY <2>3 DEF GivesUpQueue, TestDisconnected
  <2>4. CASE OtherStep \/ Arrive \/ CloseChannel
    BY <2>4 DEF OtherStep, GetFails, SetOnDisconnectCallback, Close, Arrive,
                CloseChannel, own
  <2>5. CASE UNCHANGED vars
    BY <2>5 DEF vars, own
  <2> QED
    BY <1>2, <2>1, <2>2, <2>3, <2>4, <2>5
       DEF Next, ReceiverStep, PushStep, ReportStep, ReceiveStep, OtherStep
<1>3. WaitsOnQueue /\ ~rxqueue => GivenUp
  OBVIOUS
<1>4. GivenUp => rcvPc # "wait"
  OBVIOUS
<1> QED
  BY <1>1, <1>2, <1>3, <1>4, PTL DEF Spec

(***************************************************************************)
(* Whichever way the two threads' detections overlap, a disconnection      *)
(* found with a callback registered is never swallowed: as long as the     *)
(* callback has not run, a thread is on its way to it (Mux.c:116-124,      *)
(* 238-246).  With a scheduler that is DisconnectNotified.                 *)
(***************************************************************************)
OnItsWay == calls # <<>> \/ sndPc = "notify" \/ rcvPc = "notify"

Watching == onDisconnect /\ (disconnected => OnItsWay)

THEOREM NeverSwallowed ==
  Spec => [](onDisconnect /\ ~disconnected => [](disconnected => OnItsWay))
<1>1. ASSUME TypeOK, Watching, [Next]_vars
      PROVE  Watching'
  <2>0. ASSUME UNCHANGED <<onDisconnect, disconnected, calls>>,
               sndPc = "notify" => sndPc' = "notify",
               rcvPc = "notify" => rcvPc' = "notify"
        PROVE  Watching'
    BY <1>1, <2>0, Zenon DEF Watching, OnItsWay
  <2>1. CASE PushStep \/ PushFrameFails
    BY <2>0, <2>1 DEF PushStep, PushFrame, PushFrameFails, callback
  <2>2. CASE ReportStep
    <3>1. CASE SetDisconnected(sndPc) \/ SetDisconnected(rcvPc)
      BY <1>1, <3>1 DEF SetDisconnected, Watching, OnItsWay
    <3>2. ASSUME NEW who \in Reporters,
                 CallOnDisconnect(sndPc, who) \/ CallOnDisconnect(rcvPc, who)
          PROVE  Watching'
      <4>1. calls \in Seq(Reporters)
        BY <1>1 DEF TypeOK, ThreadsTyped
      <4>2. calls' = Append(calls, who) /\ onDisconnect'
        BY <1>1, <3>2 DEF CallOnDisconnect, Watching
      <4>3. calls' # <<>>
        BY <4>1, <4>2
      <4> QED
        BY <4>2, <4>3 DEF Watching, OnItsWay
    <3> QED
      BY <2>2, <3>1, <3>2 DEF ReportStep, SenderReports, ReceiverReports,
                              Reporters
  <2>3. CASE ReceiveStep
    BY <2>0, <2>3 DEF ReceiveStep, Receive, GetBuffer, PopFrame, callback,
                      sending
  <2>4. CASE GivesUpQueue
    BY <2>0, <2>4 DEF GivesUpQueue, sending
  <2>5. CASE OtherStep \/ Arrive \/ CloseChannel
    <3>1. CASE GetFails \/ Close \/ Arrive \/ CloseChannel
      BY <2>0, <3>1 DEF GetFails, Close, Arrive, CloseChannel, callback,
                        sending
    <3>2. CASE SetOnDisconnectCallback
      BY <1>1, <3>2 DEF SetOnDisconnectCallback, Watching
    <3> QED
      BY <2>5, <3>1, <3>2 DEF OtherStep
  <2>6. CASE UNCHANGED vars
    BY <2>0, <2>6 DEF vars, callback, sending
  <2> QED
    BY <1>1, <2>1, <2>2, <2>3, <2>4, <2>5, <2>6
       DEF Next, ReceiverStep, PushStep, ReportStep, ReceiveStep, OtherStep
<1>2. onDisconnect /\ ~disconnected => Watching
  BY DEF Watching
<1>3. Watching => (disconnected => OnItsWay)
  BY DEF Watching
<1> QED
  BY <1>1, <1>2, <1>3, TypeCorrect, PTL DEF Spec
=============================================================================
