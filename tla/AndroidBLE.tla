----------------------------- MODULE AndroidBLE -----------------------------
(***************************************************************************)
(* A BLE manager on Android: nativeInitBLENetwork allocates a C object and *)
(* its Java twin and connects, a receiving and a sending thread work, and  *)
(* nativeCloseBLENetwork frees both.  Two more threads cut in: one that    *)
(* cancels a connection being made, and the Bluetooth thread that calls    *)
(* onBLEDisconnect.  The BLE manager below (ARSALBLEManager, one for the   *)
(* whole process) is external: its link, its listener, its queue.  A       *)
(* thread that leaves a Java exception pending is dead: it runs no more.   *)
(***************************************************************************)
EXTENDS Integers, Sequences

CONSTANTS
  MaxInits,         \* bound on the calls of nativeInitBLENetwork
  MaxNotifications, \* bound on the notifications that arrive
  Empty,            \* those without a byte, which popFrame calls BAD_FRAME
  Characteristics,  \* how many characteristics connect asks to be notified
  ClosesFailed,     \* the client closes a manager whose Init failed
  DisconnectJoins   \* bleManager.disconnect returns only when no call of
                    \* the listener is under way

ASSUME AndroidAssumption ==
  /\ MaxInits \in Nat /\ MaxNotifications \in Nat
  /\ Empty \subseteq 1 .. MaxNotifications
  /\ Characteristics \in Nat
  /\ ClosesFailed \in BOOLEAN /\ DisconnectJoins \in BOOLEAN

Threads == {"app", "cancel", "recv", "send", "ble"}
Objects == 1 .. MaxInits
NULL == 0

VARIABLES
  pc,            \* where each thread is
  object,        \* manager->senderObject (and receiverObject)
  allocs,        \* how many objects have been allocated
  alive,         \* those not freed yet
  open,          \* Init has returned OK and Close has not been called
  sendService,   \* per object: the Java field is set
  recvArray,     \* per object: the notifications received and not popped
  onDisconnect,  \* per object: a callback is registered
  currentFrame,  \* per object: the array pinned for the client, or NULL
  connectOk,     \* the local result of connect
  configured,    \* characteristics connect is through with
  lock,          \* the thread inside synchronized (this)
  got,           \* the notification popFrame works on
  frame,         \* the frame the client is reading
  bleObject,     \* the object onBLEDisconnect was called on
  link,          \* external: the device is connected
  listener,      \* external: whom the BLE manager tells
  registered,    \* external: notifications are queued
  bleQueue,      \* external: the notifications waiting
  arrived,       \* external: how many have arrived
  notified,      \* history: the notifications queued for this object
  popped,        \* history: the frames popped from it
  released,      \* history: the arrays unpinned
  down,          \* history: cleanup has run on this object
  cancelled,     \* history: Cancel was called before connect connected
  calls          \* per object: how often its callback ran

java     == <<sendService, recvArray>>
native   == <<object, allocs, alive, open, onDisconnect>>
frames   == <<currentFrame, got, frame, popped, released>>
connect  == <<connectOk, configured, cancelled>>
manager  == <<link, listener, registered, bleQueue, arrived, notified>>
callback == <<bleObject, calls>>
vars     == <<pc, java, native, frames, connect, manager, callback, lock, down>>

Init ==
  /\ pc = [t \in Threads |-> "idle"]
  /\ object = NULL /\ allocs = 0 /\ alive = {} /\ open = FALSE
  /\ sendService = [a \in Objects |-> FALSE]
  /\ recvArray = [a \in Objects |-> <<>>]
  /\ onDisconnect = [a \in Objects |-> FALSE]
  /\ currentFrame = [a \in Objects |-> NULL]
  /\ connectOk = TRUE /\ configured = 0 /\ lock = "none"
  /\ got = NULL /\ frame = NULL /\ bleObject = NULL
  /\ link = FALSE /\ listener = NULL /\ registered = FALSE
  /\ bleQueue = <<>> /\ arrived = 0
  /\ notified = <<>> /\ popped = <<>> /\ released = {} /\ down = FALSE
  /\ cancelled = FALSE /\ calls = [a \in Objects |-> 0]

At(t, place) == pc[t] = place

Goto(t, from, to) == pc[t] = from /\ pc' = [pc EXCEPT ![t] = to]
-----------------------------------------------------------------------------
(* nativeInitBLENetwork: New, then the Java connect.                       *)

\* The C object and its Java twin; nothing in it is pinned or registered.
ObjectNew == allocs' = allocs + 1 /\ alive' = alive \cup {allocs'}

New ==
  /\ Goto("app", "idle", "connect") /\ At("cancel", "idle")
  /\ ~open /\ allocs < MaxInits
  /\ ClosesFailed => object = NULL
  /\ ObjectNew /\ object' = allocs'
  /\ connectOk' = TRUE /\ configured' = 0 /\ cancelled' = FALSE
  /\ notified' = <<>> /\ popped' = <<>> /\ released' = {} /\ down' = FALSE
  /\ UNCHANGED <<java, open, onDisconnect, currentFrame, got, frame,
                 link, listener, registered, bleQueue, arrived, callback, lock>>

\* The connected event comes on the thread that tells of disconnections.
Connect ==
  /\ Goto("app", "connect", "discover") /\ At("ble", "idle")
  /\ link' = TRUE
  /\ UNCHANGED <<java, native, frames, connect, listener, registered, bleQueue,
                 arrived, notified, callback, lock, down>>

\* bleManager.connect, the discovery or the search for the services fails:
\* the error is returned and the object stays where it is.
InitFails ==
  /\ \E place \in {"connect", "discover", "services"} :
       Goto("app", place, "idle")
  /\ UNCHANGED <<java, native, frames, connect, manager, callback, lock, down>>

\* The discovery, or the search for both services, succeeds on a live link.
Discover ==
  /\ link
  /\ Goto("app", "discover", "services") \/ Goto("app", "services", "fields")
  /\ UNCHANGED <<java, native, frames, connect, manager, callback, lock, down>>

StoreServices ==
  /\ sendService' = [sendService EXCEPT ![object] = TRUE]
  /\ UNCHANGED <<recvArray, native, frames, connect, manager, callback, lock,
                 down>>

SetListener ==
  /\ listener' = object
  /\ UNCHANGED <<java, native, frames, connect, link, registered, bleQueue,
                 arrived, notified, callback, lock, down>>

ConnectFields == Goto("app", "fields", "listener") /\ StoreServices

ConnectListener == Goto("app", "listener", "notify") /\ SetListener

\* Faulty: what setCharacteristicNotification answers is ignored.
ConfigureIgnoresLoss ==
  /\ At("app", "notify") /\ configured < Characteristics
  /\ configured' = configured + 1
  /\ UNCHANGED <<pc, java, native, frames, connectOk, cancelled, manager,
                 callback, lock, down>>

\* NOT_CONNECTED is an error and the loop goes on; others are ignored.
ConfigureCharacteristic ==
  /\ At("app", "notify") /\ configured < Characteristics
  /\ configured' = configured + 1
  /\ connectOk' = (connectOk /\ link)
  /\ UNCHANGED <<pc, java, native, frames, cancelled, manager, callback, lock,
                 down>>

\* Made in spite of an error, which is returned after it.
RegisterNotifications ==
  /\ At("app", "notify") /\ configured = Characteristics
  /\ pc' = [pc EXCEPT !["app"] = IF connectOk THEN "ftp" ELSE "idle"]
  /\ registered' = TRUE /\ bleQueue' = <<>> /\ notified' = <<>>
  /\ UNCHANGED <<java, native, frames, connect, link, listener, arrived,
                 callback, lock, down>>

\* What the FTP characteristics answer is ignored; Init returns OK.
InitSucceeds ==
  /\ Goto("app", "ftp", "idle")
  /\ open' = TRUE
  /\ UNCHANGED <<java, object, allocs, alive, onDisconnect, frames, connect,
                 manager, callback, lock, down>>

\* The list of services may be null by now, and is not tested.
ServicesGone ==
  /\ Goto("app", "ftp", "dead") /\ ~link
  /\ UNCHANGED <<java, native, frames, connect, manager, callback, lock, down>>
-----------------------------------------------------------------------------
(* The Java disconnect, which nativeCloseBLENetwork and Cancel share; both *)
(* work on the object of the last Init.                                    *)

Cleanup(a) ==
  /\ sendService' = [sendService EXCEPT ![a] = FALSE]
  /\ recvArray' = [recvArray EXCEPT ![a] = <<>>]
  /\ down' = (down \/ a = allocs)

ConnectPlaces == {"connect", "discover", "services", "fields", "listener",
                  "notify", "ftp"}

\* A client cancels a connection being made, once it has an object.
CallCancel ==
  /\ Goto("cancel", "idle", "disconnect") /\ pc["app"] \in ConnectPlaces
  /\ cancelled' = (cancelled \/ At("app", "connect"))
  /\ UNCHANGED <<java, native, frames, connectOk, configured, manager, callback,
                 lock, down>>

\* The client has joined its sending and receiving threads.
CallClose ==
  /\ Goto("app", "idle", "disconnect") /\ object # NULL
  /\ pc["recv"] \in {"idle", "dead"} /\ pc["send"] \in {"idle", "dead"}
  /\ open' = FALSE /\ frame' = NULL
  /\ UNCHANGED <<java, object, allocs, alive, onDisconnect, currentFrame, got,
                 popped, released, connect, manager, callback, lock, down>>

\* bleManager.disconnect, which may be heard of by the listener too.
DisconnectLink(t) ==
  /\ At(t, "disconnect") /\ lock = "none" /\ lock' = t
  /\ link' = FALSE
  /\ \/ pc' = [pc EXCEPT ![t] = "join"]
     \/ /\ link /\ At("ble", "idle")
        /\ pc' = [pc EXCEPT ![t] = "join", !["ble"] = "dispatch"]
  /\ UNCHANGED <<java, native, frames, connect, listener, registered, bleQueue,
                 arrived, notified, callback, down>>

\* Faulty: disconnect reports what it did, as onBLEDisconnect does.
DisconnectReports(t) ==
  /\ Goto(t, "join", "unlisten")
  /\ DisconnectJoins => At("ble", "idle")
  /\ Cleanup(allocs)
  /\ calls' = [calls EXCEPT ![allocs] =
                 IF onDisconnect[allocs] THEN @ + 1 ELSE @]
  /\ UNCHANGED <<native, frames, connect, manager, bleObject, lock>>

DisconnectCleanup(t) ==
  /\ Goto(t, "join", "unlisten")
  /\ DisconnectJoins => At("ble", "idle")
  /\ Cleanup(allocs)
  /\ UNCHANGED <<native, frames, connect, manager, callback, lock>>

AfterDisconnect(t) == IF t = "app" THEN "unpin" ELSE "reset"

\* Faulty: the listener is left in place.
KeepListener(t) ==
  /\ Goto(t, "unlisten", AfterDisconnect(t))
  /\ lock' = "none"
  /\ UNCHANGED <<java, native, frames, connect, manager, callback, down>>

ClearListener(t) ==
  /\ Goto(t, "unlisten", AfterDisconnect(t))
  /\ listener' = NULL /\ lock' = "none"
  /\ UNCHANGED <<java, native, frames, connect, link, registered, bleQueue,
                 arrived, notified, callback, down>>

Disconnect(t) ==
  DisconnectLink(t) \/ DisconnectCleanup(t) \/ ClearListener(t)

\* bleManager.reset "for a new use", outside the lock.
CancelReset ==
  /\ Goto("cancel", "reset", "idle")
  /\ registered' = FALSE /\ bleQueue' = <<>>
  /\ UNCHANGED <<java, native, frames, connect, link, listener, arrived,
                 notified, callback, lock, down>>

Pinned(a) == {currentFrame[a]} \ {NULL}

\* The rest of ObjectDelete: DeleteCurrentFrame, and free.
CloseUnpins ==
  /\ Goto("app", "unpin", "free")
  /\ released' = released \cup Pinned(object)
  /\ currentFrame' = [currentFrame EXCEPT ![object] = NULL]
  /\ UNCHANGED <<java, native, got, frame, popped, connect, manager, callback,
                 lock, down>>

CloseFrees ==
  /\ Goto("app", "free", "idle")
  /\ alive' = alive \ {object} /\ object' = NULL
  /\ UNCHANGED <<java, allocs, open, onDisconnect, frames, connect, manager,
                 callback, lock, down>>

Closing == Disconnect("app") \/ CloseUnpins \/ CloseFrees

Cancelling == Disconnect("cancel") \/ CancelReset

SetOnDisconnectCallback ==
  /\ open /\ onDisconnect' = [onDisconnect EXCEPT ![object] = TRUE]
  /\ UNCHANGED <<pc, java, object, allocs, alive, open, frames, connect,
                 manager, callback, lock, down>>
-----------------------------------------------------------------------------
(* The receiving thread: Receive, then popFrame check by check.            *)

Unchanged == UNCHANGED <<native, connect, link, listener, registered, arrived,
                         notified, callback, lock, down>>

\* Without a notification Receive returns NO_DATA_AVAILABLE.
Receive ==
  /\ Goto("recv", "idle", "pop") /\ open /\ bleQueue # <<>>
  /\ recvArray' = [recvArray EXCEPT ![object] = @ \o bleQueue]
  /\ bleQueue' = <<>>
  /\ UNCHANGED <<sendService, frames>> /\ Unchanged

\* BUFFER_EMPTY, which the JNI turns into BAD_FRAME.
PopEmpty ==
  /\ Goto("recv", "pop", "idle") /\ recvArray[object] = <<>>
  /\ frame' = NULL
  /\ UNCHANGED <<java, currentFrame, got, popped, released, bleQueue>>
  /\ Unchanged

PopFrame ==
  /\ Goto("recv", "pop", "get") /\ recvArray[object] # <<>>
  /\ frame' = NULL
  /\ UNCHANGED <<java, currentFrame, got, popped, released, bleQueue>>
  /\ Unchanged

PopGet ==
  /\ Goto("recv", "get", "remove") /\ recvArray[object] # <<>>
  /\ got' = Head(recvArray[object])
  /\ UNCHANGED <<java, currentFrame, frame, popped, released, bleQueue>>
  /\ Unchanged

\* Faulty: only a bad notification is removed.
PopRemoveBad ==
  /\ At("recv", "remove") /\ recvArray[object] # <<>>
  /\ recvArray' = [recvArray EXCEPT ![object] =
                     IF got \in Empty THEN Tail(@) ELSE @]
  /\ pc' = [pc EXCEPT !["recv"] = IF got \in Empty THEN "idle" ELSE "store"]
  /\ got' = IF got \in Empty THEN NULL ELSE got
  /\ UNCHANGED <<sendService, currentFrame, frame, popped, released, bleQueue>>
  /\ Unchanged

PopRemove ==
  /\ At("recv", "remove") /\ recvArray[object] # <<>>
  /\ recvArray' = [recvArray EXCEPT ![object] = Tail(@)]
  /\ pc' = [pc EXCEPT !["recv"] = IF got \in Empty THEN "idle" ELSE "store"]
  /\ got' = IF got \in Empty THEN NULL ELSE got
  /\ UNCHANGED <<sendService, currentFrame, frame, popped, released, bleQueue>>
  /\ Unchanged

\* onBLEDisconnect has emptied the list since its size was looked at.
PopThrows ==
  /\ pc["recv"] \in {"get", "remove"} /\ recvArray[object] = <<>>
  /\ pc' = [pc EXCEPT !["recv"] = "dead"] /\ got' = NULL
  /\ UNCHANGED <<java, currentFrame, frame, popped, released, bleQueue>>
  /\ Unchanged

\* Faulty: the new frame is stored first, and released with the old one.
StoreThenRelease ==
  /\ Goto("recv", "store", "pop")
  /\ released' = released \cup {got}
  /\ currentFrame' = [currentFrame EXCEPT ![object] = NULL]
  /\ got' = NULL /\ frame' = got /\ popped' = Append(popped, got)
  /\ UNCHANGED <<java, bleQueue>> /\ Unchanged

\* StoreCurrentFrame unpins the frame before and pins this one.
StoreFrame ==
  /\ Goto("recv", "store", "pop")
  /\ released' = released \cup Pinned(object)
  /\ currentFrame' = [currentFrame EXCEPT ![object] = got]
  /\ got' = NULL /\ frame' = got /\ popped' = Append(popped, got)
  /\ UNCHANGED <<java, bleQueue>> /\ Unchanged

Receiving ==
  \/ PopEmpty \/ PopFrame \/ PopGet \/ PopRemove \/ PopThrows \/ StoreFrame
-----------------------------------------------------------------------------
(* The sending thread: pushFrame looks at sendService, then uses it.       *)

PushFrame ==
  /\ Goto("send", "idle", "write") /\ open /\ sendService[object]
  /\ UNCHANGED <<java, frames, bleQueue>> /\ Unchanged

WriteFrame ==
  /\ Goto("send", "write", "idle") /\ sendService[object]
  /\ UNCHANGED <<java, frames, bleQueue>> /\ Unchanged

PushThrows ==
  /\ Goto("send", "write", "dead") /\ ~sendService[object]
  /\ UNCHANGED <<java, frames, bleQueue>> /\ Unchanged

Sending == WriteFrame \/ PushThrows
-----------------------------------------------------------------------------
(* The Bluetooth thread.                                                   *)

LinkLost ==
  /\ Goto("ble", "idle", "dispatch") /\ link /\ link' = FALSE
  /\ UNCHANGED <<java, native, frames, connect, listener, registered, bleQueue,
                 arrived, notified, callback, lock, down>>

\* The BLE manager tells the listener it has by then, if any.
Dispatch ==
  /\ At("ble", "dispatch") /\ bleObject' = listener
  /\ pc' = [pc EXCEPT !["ble"] = IF listener = NULL THEN "idle" ELSE "native"]
  /\ UNCHANGED <<java, native, frames, connect, manager, calls, lock, down>>

\* Faulty: a device that has been cleaned up is not reported any more.
NativeOnDisconnectOnce ==
  /\ Goto("ble", "native", "cleanup") /\ bleObject \in alive
  /\ calls' = [calls EXCEPT ![bleObject] =
                 IF onDisconnect[bleObject] /\ recvArray[bleObject] = <<>>
                   THEN @ + 1 ELSE @]
  /\ UNCHANGED <<java, native, frames, connect, manager, bleObject, lock, down>>

\* nativeJNIOnDisconect; on a freed object its behaviour is undefined.
NativeOnDisconnect ==
  /\ Goto("ble", "native", "cleanup") /\ bleObject \in alive
  /\ calls' = [calls EXCEPT ![bleObject] =
                 IF onDisconnect[bleObject] THEN @ + 1 ELSE @]
  /\ UNCHANGED <<java, native, frames, connect, manager, bleObject, lock, down>>

\* Faulty: onBLEDisconnect takes the lock for its cleanup, as disconnect does.
CleanupSynchronized ==
  /\ Goto("ble", "cleanup", "idle") /\ lock = "none"
  /\ Cleanup(bleObject) /\ bleObject' = NULL
  /\ UNCHANGED <<native, frames, connect, manager, calls, lock>>

OnBLEDisconnectCleanup ==
  /\ Goto("ble", "cleanup", "idle")
  /\ Cleanup(bleObject) /\ bleObject' = NULL
  /\ UNCHANGED <<native, frames, connect, manager, calls, lock>>

OnBLEDisconnect == Dispatch \/ NativeOnDisconnect \/ OnBLEDisconnectCleanup

Arrive ==
  /\ link /\ registered /\ arrived < MaxNotifications
  /\ arrived' = arrived + 1
  /\ bleQueue' = Append(bleQueue, arrived')
  /\ notified' = Append(notified, arrived')
  /\ UNCHANGED <<pc, java, native, frames, connect, link, listener, registered,
                 callback, lock, down>>
-----------------------------------------------------------------------------
Connecting ==
  \/ Connect \/ InitFails \/ Discover \/ ConnectFields \/ ConnectListener
  \/ ConfigureCharacteristic \/ RegisterNotifications \/ InitSucceeds
  \/ ServicesGone

Next ==
  \/ New \/ Connecting \/ CallCancel \/ Cancelling \/ CallClose \/ Closing
  \/ SetOnDisconnectCallback
  \/ Receive \/ Receiving \/ PushFrame \/ Sending
  \/ LinkLost \/ OnBLEDisconnect \/ Arrive

Spec == Init /\ [][Next]_vars

\* Every thread is scheduled and bleManager.connect comes back.
FairSpec ==
  /\ Spec
  /\ WF_vars(Connecting) /\ WF_vars(Closing) /\ WF_vars(Cancelling)
  /\ WF_vars(Receiving) /\ WF_vars(Sending) /\ WF_vars(OnBLEDisconnect)
-----------------------------------------------------------------------------
ClosePlaces == {"disconnect", "join", "unlisten", "unpin", "free"}

TypeOK ==
  /\ pc["app"] \in {"idle", "dead"} \cup ConnectPlaces \cup ClosePlaces
  /\ pc["cancel"] \in {"idle", "disconnect", "join", "unlisten", "reset"}
  /\ pc["recv"] \in {"idle", "pop", "get", "remove", "store", "dead"}
  /\ pc["send"] \in {"idle", "write", "dead"}
  /\ pc["ble"] \in {"idle", "dispatch", "native", "cleanup"}
  /\ allocs \in 0 .. MaxInits /\ object \in {NULL, allocs}
  /\ alive \subseteq 1 .. allocs
  /\ sendService \in [Objects -> BOOLEAN]
  /\ recvArray \in [Objects -> Seq(1 .. arrived)]
  /\ onDisconnect \in [Objects -> BOOLEAN]
  /\ currentFrame \in [Objects -> 0 .. arrived]
  /\ connectOk \in BOOLEAN /\ configured \in 0 .. Characteristics
  /\ lock \in {"none", "app", "cancel"}
  /\ got \in 0 .. arrived /\ frame \in 0 .. arrived
  /\ bleObject \in 0 .. allocs /\ listener \in 0 .. allocs
  /\ {open, link, registered, down, cancelled} \subseteq BOOLEAN
  /\ bleQueue \in Seq(1 .. arrived) /\ arrived \in 0 .. MaxNotifications
  /\ notified \in Seq(1 .. arrived) /\ popped \in Seq(1 .. arrived)
  /\ released \subseteq 1 .. arrived
  /\ calls \in [Objects -> Nat]

(***************************************************************************)
(* The Bluetooth thread never calls back into a freed C object: neither a  *)
(* failed Init that left its listener behind, nor a Close or a Cancel that *)
(* races a lost link, lets onBLEDisconnect outlive it (java:348-352, 538). *)
(***************************************************************************)
NoUseAfterFree == At("ble", "native") => bleObject \in alive

(***************************************************************************)
(* An open manager knows of its dead link: whenever in connect the link    *)
(* went down, Init fails or onBLEDisconnect has reset sendService, so that *)
(* pushFrame refuses the next frame (java:226-230, 276-279, 536-542).  A   *)
(* Cancel that came before the link existed is left out: it is forgotten,  *)
(* but may still take the listener of the connection made after it.        *)
(***************************************************************************)
LinkLossSeen ==
  open /\ ~cancelled /\ ~link /\ At("ble", "idle") /\ At("cancel", "idle")
    => ~sendService[object]

(***************************************************************************)
(* The bytes a popped frame points to stay pinned for as long as the       *)
(* client may read them, and none for good: each array ever popped is the  *)
(* current frame of a living object or has been released, and not both     *)
(* (JNIBLENetwork.c:231-258, 554-586).                                     *)
(***************************************************************************)
FramesPinned ==
  LET held == UNION {Pinned(a) : a \in Objects} IN
  /\ frame # NULL => object \in alive /\ currentFrame[object] = frame
  /\ held \cap released = {}
  /\ \A a \in Objects \ alive : Pinned(a) = {}
  /\ \A i \in 1 .. Len(popped) : popped[i] \in held \cup released

(***************************************************************************)
(* Until a disconnection every notification with bytes is popped once and  *)
(* in order, empty ones in between included: what has been popped, what is *)
(* about to be stored and what is still on its way never goes back to an   *)
(* earlier notification, and is, save for empty ones, what was notified    *)
(* (java:375-441; JNIBLENetwork.c:520-586).                                *)
(***************************************************************************)
Unstored == IF At("recv", "store") THEN <<got>> ELSE <<>>

Rising(s) == \A i, j \in 1 .. Len(s) : i < j => s[i] < s[j]

Elements(s) == {s[i] : i \in 1 .. Len(s)}

PoppedInOrder ==
  open /\ ~down =>
    LET all == popped \o Unstored \o recvArray[object] \o bleQueue IN
      /\ Rising(all)
      /\ Elements(popped) \cap Empty = {}
      /\ Elements(all) \ Empty = Elements(notified) \ Empty

(***************************************************************************)
(* One object's callback runs at most once, through a lost link, a Cancel  *)
(* and a Close in any order.                                               *)
(***************************************************************************)
NotifiedAtMostOnce == \A a \in Objects : calls[a] <= 1

(***************************************************************************)
(* Close returns: it holds the lock while it waits for the listener, which *)
(* does not take it, and waits for the lock while a Cancel has it.         *)
(***************************************************************************)
CloseReturns == pc["app"] \in ClosePlaces ~> At("app", "idle")

(***************************************************************************)
(* A link lost on an open manager with a callback is reported, whatever    *)
(* the threads do and even if Close comes at once: the callback runs.      *)
(***************************************************************************)
LossNotified ==
  \A a \in Objects :
    At("ble", "dispatch") /\ open /\ ~cancelled /\ object = a /\ onDisconnect[a]
      ~> calls[a] > 0
=============================================================================
