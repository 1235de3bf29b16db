----------------------------- MODULE MuxNetwork -----------------------------
(***************************************************************************)
(* A manager over libmux.  One object serves as sender and as receiver:    *)
(* the sending thread encodes frames into the mux channel, the receiving   *)
(* thread takes buffers out of the channel's queue and pops the frame in   *)
(* each, and both report the first disconnection they meet, without a      *)
(* lock.  The channel and its queue belong to libmux and are modelled from *)
(* the way this code uses them.                                            *)
(***************************************************************************)
EXTENDS Integers, Sequences

CONSTANTS
  Buffers,    \* buffers arrive in order, 1 .. Buffers (bound)
  BadBuffers, \* those too short for the frame they announce
  Frames,     \* frames to send, each of them pushed once
  QueueCap    \* bound on the buffers waiting in the channel's queue

NULL == 0

ASSUME MuxAssumption ==
  /\ Buffers \in Nat /\ BadBuffers \subseteq 1 .. Buffers
  /\ QueueCap \in Nat

VARIABLES
  rxbuf_recv,     \* the buffer Receive got and PopFrame has not looked at
  rxbuf_pop,      \* the buffer of the frame the client holds
  rxqueue,        \* the object still has a queue
  object,         \* the manager has an object
  disconnected,
  onDisconnect,   \* a callback is registered
  channelOpen,    \* the mux channel is open
  queue,          \* the buffers waiting in it
  arrived,        \* how many have arrived so far
  sndPc, rcvPc,   \* where the two threads are
  calls,          \* who called the callback, in order
  accepted,       \* history: the frames PushFrame returned DEFAULT for
  popped,         \* history: the buffers whose frame was popped, in order
  released,       \* history: the buffers given back (pomp_buffer_unref)
  raced           \* history: the two threads' detections have overlapped

buffers  == <<rxbuf_recv, rxbuf_pop, released>>
own      == <<rxqueue, object>>
channel  == <<channelOpen, queue, arrived>>
callback == <<disconnected, onDisconnect, calls, raced>>
sending  == <<sndPc, accepted>>
vars     == <<buffers, own, channel, callback, sending, rcvPc, popped>>

\* InitMuxNetwork: it does not look at what mux_channel_alloc_queue returns.
Init ==
  /\ rxbuf_recv = NULL /\ rxbuf_pop = NULL /\ rxqueue \in BOOLEAN
  /\ object = TRUE
  /\ disconnected = FALSE /\ onDisconnect \in BOOLEAN
  /\ channelOpen = TRUE /\ queue = <<>> /\ arrived = 0
  /\ sndPc = "idle" /\ rcvPc = "idle" /\ calls = <<>>
  /\ accepted = {} /\ popped = <<>> /\ released = {}
  /\ raced = FALSE
-----------------------------------------------------------------------------
(* The notification both threads make: test the flag, set it, call.        *)

Detecting == {"set", "notify"}

\* Faulty: the flag is not tested.
TestAlways(pc, other) ==
  /\ pc' = "set"
  /\ raced' = (raced \/ other \in Detecting)

TestDisconnected(pc, other) ==
  IF disconnected
  THEN pc' = "idle" /\ UNCHANGED raced
  ELSE pc' = "set" /\ raced' = (raced \/ other \in Detecting)

SetDisconnected(pc) ==
  /\ pc = "set" /\ pc' = "notify"
  /\ disconnected' = TRUE
  /\ UNCHANGED <<onDisconnect, calls, raced>>

\* Faulty: the callback is made when there is none.
CallIfUnset(pc, who) ==
  /\ pc = "notify" /\ pc' = "idle"
  /\ calls' = IF onDisconnect THEN calls ELSE Append(calls, who)
  /\ UNCHANGED <<disconnected, onDisconnect, raced>>

CallOnDisconnect(pc, who) ==
  /\ pc = "notify" /\ pc' = "idle"
  /\ calls' = IF onDisconnect THEN Append(calls, who) ELSE calls
  /\ UNCHANGED <<disconnected, onDisconnect, raced>>
-----------------------------------------------------------------------------
(* The sending thread: PushFrame.  Send does nothing.                      *)

\* mux_encode takes the frame on an open channel; or pomp_buffer_new failed,
\* on any: res is still 0 then, and PushFrame returns DEFAULT too.
PushFrame(f) ==
  /\ object /\ sndPc = "idle" /\ f \notin accepted
  /\ accepted' = accepted \cup {f}
  /\ UNCHANGED <<buffers, own, channel, callback, sndPc, rcvPc, popped>>

\* mux_encode fails, because the channel is closed or for another reason.
PushFrameFails ==
  /\ object /\ sndPc = "idle" /\ Frames # accepted
  /\ TestDisconnected(sndPc, rcvPc)
  /\ UNCHANGED <<buffers, own, channel, disconnected, onDisconnect, calls,
                 accepted, rcvPc, popped>>

SenderReports ==
  /\ SetDisconnected(sndPc) \/ CallOnDisconnect(sndPc, "sender")
  /\ UNCHANGED <<buffers, own, channel, accepted, rcvPc, popped>>
-----------------------------------------------------------------------------
(* The receiving thread: Receive, then PopFrame.                           *)

Held == {rxbuf_recv, rxbuf_pop} \ {NULL}

\* Faulty: the popped buffer stays where it is.
ReceiveKeepsPopped ==
  /\ object /\ rcvPc \in {"idle", "pop"}
  /\ released' = released \cup ({rxbuf_recv} \ {NULL})
  /\ rxbuf_recv' = NULL /\ UNCHANGED rxbuf_pop
  /\ rcvPc' = IF rxqueue THEN "wait" ELSE "idle"
  /\ UNCHANGED <<own, channel, callback, sending, popped>>

\* Receive releases what the previous call left, and waits on the queue.
Receive ==
  /\ object /\ rcvPc \in {"idle", "pop"}
  /\ released' = released \cup Held
  /\ rxbuf_recv' = NULL /\ rxbuf_pop' = NULL
  /\ rcvPc' = IF rxqueue THEN "wait" ELSE "idle"
  /\ UNCHANGED <<own, channel, callback, sending, popped>>

GetBuffer ==
  /\ rcvPc = "wait" /\ rcvPc' = "pop"
  /\ queue # <<>>
  /\ rxbuf_recv' = Head(queue) /\ queue' = Tail(queue)
  /\ UNCHANGED <<rxbuf_pop, released, own, channelOpen, arrived, callback,
                 sending, popped>>

\* Faulty: the queue is kept, as after any other error.
GivesUpNoQueue ==
  /\ rcvPc = "wait" /\ queue = <<>>
  /\ TestDisconnected(rcvPc, sndPc)
  /\ UNCHANGED <<buffers, own, channel, disconnected, onDisconnect, calls,
                 sending, popped>>

\* EPIPE, the queue is being destroyed, or ETIMEDOUT, three seconds without
\* a buffer: the queue is given up.
GivesUpQueue ==
  /\ rcvPc = "wait" /\ queue = <<>>
  /\ rxqueue' = FALSE /\ UNCHANGED object
  /\ TestDisconnected(rcvPc, sndPc)
  /\ UNCHANGED <<buffers, channel, disconnected, onDisconnect, calls, sending,
                 popped>>

\* Any other error.
GetFails ==
  /\ rcvPc = "wait" /\ rcvPc' = "idle"
  /\ channelOpen
  /\ UNCHANGED <<buffers, own, channel, callback, sending, popped>>

ReceiverReports ==
  /\ SetDisconnected(rcvPc) \/ CallOnDisconnect(rcvPc, "receiver")
  /\ UNCHANGED <<buffers, own, channel, sending, popped>>

\* Faulty: rxbuf_recv is not reset.
PopFrameKeepsRecv ==
  /\ object /\ rcvPc = "pop" /\ rxbuf_recv # NULL /\ rxbuf_pop = NULL
  /\ rxbuf_pop' = rxbuf_recv /\ UNCHANGED rxbuf_recv
  /\ popped' = IF rxbuf_recv \in BadBuffers THEN popped
                                            ELSE Append(popped, rxbuf_recv)
  /\ UNCHANGED <<released, own, channel, callback, sending, rcvPc>>

\* The buffer moves to rxbuf_pop, whether its frame is good or bad.
PopFrame ==
  /\ object /\ rcvPc = "pop" /\ rxbuf_recv # NULL /\ rxbuf_pop = NULL
  /\ rxbuf_pop' = rxbuf_recv /\ rxbuf_recv' = NULL
  /\ popped' = IF rxbuf_recv \in BadBuffers THEN popped
                                            ELSE Append(popped, rxbuf_recv)
  /\ UNCHANGED <<released, own, channel, callback, sending, rcvPc>>

ReceiverStep ==
  \/ GetBuffer \/ GivesUpQueue \/ GetFails \/ ReceiverReports
  \/ PopFrame \/ Receive
-----------------------------------------------------------------------------
SetOnDisconnectCallback ==
  /\ object /\ ~onDisconnect /\ onDisconnect' = TRUE
  /\ UNCHANGED <<buffers, own, channel, disconnected, calls, raced, sending,
                 rcvPc, popped>>

(* libmux and the client.                                                  *)

Arrive ==
  /\ channelOpen /\ arrived < Buffers /\ Len(queue) < QueueCap
  /\ arrived' = arrived + 1 /\ queue' = Append(queue, arrived')
  /\ UNCHANGED <<buffers, own, channelOpen, callback, sending, rcvPc,
                 popped>>

\* Unlock, by the client, or the mux layer itself closes the channel; what
\* the queue still holds may be lost with it.
CloseChannel ==
  /\ channelOpen /\ channelOpen' = FALSE
  /\ queue' \in {queue, <<>>}
  /\ UNCHANGED <<buffers, own, arrived, callback, sending, rcvPc, popped>>

\* CloseMuxNetwork: the mux layer has stopped the channel (Mux.c:401) and the
\* client has joined its threads.  The object is freed with the references it
\* holds: rxbuf_recv and rxbuf_pop are never given back.
Close ==
  /\ object /\ ~channelOpen
  /\ sndPc = "idle" /\ rcvPc \in {"idle", "pop"}
  /\ object' = FALSE
  /\ UNCHANGED <<buffers, rxqueue, channel, callback, sending, rcvPc, popped>>

Next ==
  \/ \E f \in Frames : PushFrame(f)
  \/ PushFrameFails \/ SenderReports
  \/ ReceiverStep
  \/ SetOnDisconnectCallback
  \/ Arrive \/ CloseChannel \/ Close

Spec == Init /\ [][Next]_vars

\* Both threads are scheduled, and the receiving one keeps calling Receive;
\* a closed channel does not go on failing without an EPIPE.
FairSpec ==
  Spec /\ WF_vars(SenderReports) /\ WF_vars(ReceiverStep /\ ~GetFails)
-----------------------------------------------------------------------------
Reporters == {"sender", "receiver"}

BuffersTyped ==
  /\ rxbuf_recv \in 0 .. Buffers /\ rxbuf_pop \in 0 .. Buffers
  /\ queue \in Seq(1 .. Buffers) /\ arrived \in 0 .. Buffers
  /\ popped \in Seq(1 .. Buffers) /\ released \subseteq 1 .. Buffers

FlagsTyped ==
  /\ rxqueue \in BOOLEAN /\ object \in BOOLEAN /\ channelOpen \in BOOLEAN
  /\ disconnected \in BOOLEAN /\ onDisconnect \in BOOLEAN /\ raced \in BOOLEAN

ThreadsTyped ==
  /\ sndPc \in {"idle", "set", "notify"}
  /\ rcvPc \in {"idle", "wait", "pop", "set", "notify"}
  /\ calls \in Seq(Reporters) /\ accepted \subseteq Frames

TypeOK == BuffersTyped /\ FlagsTyped /\ ThreadsTyped

(***************************************************************************)
(* A buffer taken out of the queue is held in one place until Receive      *)
(* gives it back, once: the frame a client has popped stays readable until *)
(* its next Receive, and no buffer is lost or given back twice, whether    *)
(* the client popped it or not (Mux.c:149-156, 187-190 and 216-222).        *)
(***************************************************************************)
Waiting == {queue[i] : i \in 1 .. Len(queue)}

BuffersHeldOnce ==
  /\ rxbuf_recv # NULL => rxbuf_recv # rxbuf_pop
  /\ Held \cap released = {}
  /\ channelOpen => 1 .. arrived = Waiting \cup Held \cup released

(***************************************************************************)
(* "Move it to pop buffer (that shall be NULL)" (Mux.c:152): PopFrame      *)
(* never finds a frame still there that it would have to refuse for.       *)
(***************************************************************************)
PopBufferIsFree == rcvPc = "pop" /\ rxbuf_recv # NULL => rxbuf_pop = NULL

(***************************************************************************)
(* One callback at most, when the threads do not detect at the same time,  *)
(* for any number of failed pushes and receives.                           *)
(***************************************************************************)
NotifiedAtMostOnce == ~raced => Len(calls) <= 1

(***************************************************************************)
(* A disconnection is never swallowed between the two threads: with a      *)
(* callback registered beforehand, the flag going up means that it runs.   *)
(***************************************************************************)
DisconnectNotified ==
  [](onDisconnect /\ ~disconnected => [](disconnected => <>(calls # <<>>)))

(***************************************************************************)
(* Unlock works for good: once the channel is closed, the receiving thread *)
(* gives its queue up and never blocks in Receive again.                   *)
(***************************************************************************)
UnlockSticks == ~channelOpen ~> [](rcvPc # "wait")
=============================================================================
