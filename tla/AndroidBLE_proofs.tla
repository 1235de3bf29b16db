-------------------------- MODULE AndroidBLE_proofs --------------------------
(***************************************************************************)
(* Theorems about a BLE manager on Android, for any number of connections, *)
(* notifications and characteristics.                                      *)
(***************************************************************************)
EXTENDS AndroidBLE, SequenceTheorems, TLAPS

PcTyped ==
  /\ pc = [t \in Threads |-> pc[t]]
  /\ pc["app"] \in {"idle", "dead"} \cup ConnectPlaces \cup ClosePlaces
  /\ pc["cancel"] \in {"idle", "disconnect", "join", "unlisten", "reset"}
  /\ pc["recv"] \in {"idle", "pop", "get", "remove", "store", "dead"}
  /\ pc["send"] \in {"idle", "write", "dead"}
  /\ pc["ble"] \in {"idle", "dispatch", "native", "cleanup"}

ObjectsTyped ==
  /\ allocs \in Nat /\ allocs <= MaxInits
  /\ \A a \in alive : a \in Nat /\ 1 <= a /\ a <= allocs
  /\ object # NULL => object = allocs /\ object \in alive
  /\ listener \in Nat /\ listener <= allocs
  /\ bleObject \in Nat /\ bleObject <= allocs
  /\ pc["ble"] \in {"native", "cleanup"} => bleObject # NULL

TablesTyped ==
  /\ sendService \in [Objects -> BOOLEAN]
  /\ onDisconnect \in [Objects -> BOOLEAN]
  /\ calls \in [Objects -> Nat]

\* Who works on the object, and when.
AppInv ==
  /\ pc["app"] \in ConnectPlaces \cup ClosePlaces => object # NULL
  /\ open => pc["app"] = "idle" /\ object # NULL

\* The connected and the disconnected event come on one thread.
LinkInv == link => pc["ble"] = "idle"

IInv == PcTyped /\ ObjectsTyped /\ TablesTyped /\ AppInv /\ LinkInv

\* A callback is registered on a manager that was open, so its object is
\* the current one until Close has freed it, and once the callback has run
\* the link that could make it run again is gone for good.
CallsOf(a) ==
  /\ onDisconnect[a] =>
       /\ a <= allocs
       /\ a \in alive => a = object /\ (open \/ pc["app"] \in ClosePlaces)
  /\ \/ calls[a] = 0
     \/ /\ calls[a] = 1 /\ onDisconnect[a]
        /\ a \in alive => ~link /\ pc["ble"] \notin {"dispatch", "native"}

CallsInv == \A a \in Objects : CallsOf(a)

\* Close frees an object that nobody listens for any more.
JoinInv ==
  /\ pc["app"] \in {"join", "unlisten", "unpin", "free"} => ~link
  /\ pc["app"] \in {"unlisten", "unpin", "free"} => pc["ble"] = "idle"
  /\ pc["app"] \in {"unpin", "free"} => listener = NULL
  /\ listener # NULL => listener \in alive
  /\ pc["ble"] = "native" => bleObject \in alive

\* connect has seen the link up with the listener in place, and a loss
\* after that is either known or on its way.
Watched ==
  \/ pc["app"] = "ftp" \/ open
  \/ pc["app"] = "notify" /\ configured > 0 /\ connectOk

LossInv ==
  ~cancelled =>
    /\ link => pc["cancel"] \in {"idle", "disconnect"}
    /\ pc["app"] = "connect" => pc["cancel"] = "idle"
    /\ link /\ (pc["app"] \in {"notify", "ftp"} \/ open) => listener = object
    /\ Watched /\ pc["cancel"] \in {"unlisten", "reset"} => ~sendService[object]
    /\ Watched /\ ~link /\ sendService[object] =>
         \/ pc["cancel"] = "join"
         \/ pc["ble"] = "dispatch" /\ listener = object
         \/ pc["ble"] \in {"native", "cleanup"} /\ bleObject = object

CountInv ==
  /\ configured \in Nat
  /\ pc["app"] \in ConnectPlaces \ {"notify", "ftp"} => configured = 0

LEMMA Initially ==
  Init => IInv /\ CallsInv /\ JoinInv /\ LossInv /\ CountInv
<1> SUFFICES ASSUME Init
             PROVE  IInv /\ CallsInv /\ JoinInv /\ LossInv /\ CountInv
  OBVIOUS
<1> USE AndroidAssumption DEF Init
<1>1. /\ pc["app"] = "idle" /\ pc["cancel"] = "idle" /\ pc["recv"] = "idle"
      /\ pc["send"] = "idle" /\ pc["ble"] = "idle"
      /\ pc = [t \in Threads |-> pc[t]]
  BY DEF Threads
<1>2. PcTyped
  BY <1>1 DEF PcTyped
<1>7. allocs = 0 /\ MaxInits \in Nat /\ alive = {} /\ object = 0
  BY DEF NULL
<1>3. ObjectsTyped
  BY <1>1, <1>7 DEF ObjectsTyped, NULL
<1>6. TablesTyped
  BY DEF TablesTyped
<1>4. AppInv /\ LinkInv /\ CallsInv
  BY <1>1 DEF AppInv, LinkInv, CallsInv, CallsOf, ConnectPlaces, ClosePlaces
<1>5. JoinInv /\ LossInv /\ CountInv
  BY <1>1 DEF JoinInv, LossInv, CountInv, Watched, NULL, ConnectPlaces
<1> QED
  BY <1>2, <1>3, <1>4, <1>5, <1>6 DEF IInv

LEMMA PcStep ==
  ASSUME IInv, [Next]_vars
  PROVE  PcTyped'
<1>1. PcTyped
  BY DEF IInv
<1> USE <1>1 DEF PcTyped, ConnectPlaces, ClosePlaces, Goto, At, Threads
<1>2. CASE \/ New \/ Connecting \/ CallCancel \/ CallClose
           \/ SetOnDisconnectCallback
  BY <1>2 DEF New, Connecting, Connect, InitFails, Discover, ConnectFields,
              ConnectListener, ConfigureCharacteristic, RegisterNotifications,
              InitSucceeds, ServicesGone, CallClose, SetOnDisconnectCallback,
              CallCancel
<1>3. CASE Cancelling \/ Closing
  BY <1>3 DEF Cancelling, Closing, CloseUnpins, CloseFrees, CancelReset,
              Disconnect, DisconnectLink, DisconnectCleanup, ClearListener,
              AfterDisconnect
<1>4. CASE Receive \/ Receiving \/ PushFrame \/ Sending
  BY <1>4 DEF Receive, Receiving, PopEmpty, PopFrame, PopGet, PopRemove,
              PopThrows, StoreFrame, PushFrame, Sending, WriteFrame, PushThrows
<1>5. CASE LinkLost \/ OnBLEDisconnect \/ Arrive
  BY <1>5 DEF LinkLost, OnBLEDisconnect, Dispatch, NativeOnDisconnect,
              OnBLEDisconnectCleanup, Arrive
<1>6. CASE UNCHANGED vars
  BY <1>6 DEF vars
<1> QED
  BY <1>2, <1>3, <1>4, <1>5, <1>6 DEF Next

LEMMA ObjectsStep ==
  ASSUME IInv, [Next]_vars, PcTyped'
  PROVE  ObjectsTyped'
<1>1. IInv /\ MaxInits \in Nat
  BY AndroidAssumption
<1> USE <1>1 DEF IInv, PcTyped, ObjectsTyped, AppInv, ConnectPlaces,
            ClosePlaces, Goto, At, Threads, NULL, Objects, java, native,
            frames, connect, manager, callback
<1>2. CASE New
  BY <1>2 DEF New, ObjectNew
<1>3. CASE Connect \/ Discover \/ ConnectFields \/ ConnectListener
  BY <1>3 DEF Connect, Discover, ConnectFields, StoreServices, ConnectListener,
          SetListener
<1>4. CASE InitFails \/ InitSucceeds \/ ServicesGone
  BY <1>4 DEF InitFails, InitSucceeds, ServicesGone
<1>5. CASE ConfigureCharacteristic \/ RegisterNotifications
  BY <1>5 DEF ConfigureCharacteristic, RegisterNotifications
<1>6. CASE CallCancel \/ CallClose \/ SetOnDisconnectCallback
  BY <1>6 DEF CallCancel, CallClose, SetOnDisconnectCallback
<1>7. CASE Cancelling \/ Closing
  BY <1>7 DEF Cancelling, Closing, CloseUnpins, CloseFrees, CancelReset,
          Disconnect, DisconnectLink, DisconnectCleanup, Cleanup,
          ClearListener, AfterDisconnect
<1>8. CASE Receive \/ Receiving \/ PushFrame \/ Sending
  BY <1>8 DEF Receive, Receiving, PopEmpty, PopFrame, PopGet, PopRemove,
          PopThrows, StoreFrame, PushFrame, Sending, WriteFrame, PushThrows,
          Unchanged
<1>9. CASE LinkLost \/ OnBLEDisconnect \/ Arrive
  BY <1>9 DEF LinkLost, OnBLEDisconnect, Dispatch, NativeOnDisconnect,
          OnBLEDisconnectCleanup, Cleanup, Arrive
<1>10. CASE UNCHANGED vars
  BY <1>10 DEF vars, java, native, frames, connect, manager, callback
<1> QED
  BY <1>2, <1>3, <1>4, <1>5, <1>6, <1>7, <1>8, <1>9, <1>10 DEF Next, Connecting

LEMMA TablesStep ==
  ASSUME IInv, [Next]_vars
  PROVE  TablesTyped'
<1>1. IInv
  OBVIOUS
<1> USE <1>1 DEF IInv, TablesTyped, java, native, frames, connect, manager,
            callback
<1>2. CASE New
  BY <1>2 DEF New, ObjectNew
<1>3. CASE Connect \/ Discover \/ ConnectFields \/ ConnectListener
  BY <1>3 DEF Connect, Discover, ConnectFields, StoreServices, ConnectListener,
          SetListener
<1>4. CASE InitFails \/ InitSucceeds \/ ServicesGone
  BY <1>4 DEF InitFails, InitSucceeds, ServicesGone
<1>5. CASE ConfigureCharacteristic \/ RegisterNotifications
  BY <1>5 DEF ConfigureCharacteristic, RegisterNotifications
<1>6. CASE CallCancel \/ CallClose \/ SetOnDisconnectCallback
  BY <1>6 DEF CallCancel, CallClose, SetOnDisconnectCallback
<1>7. CASE Cancelling \/ Closing
  BY <1>7 DEF Cancelling, Closing, CloseUnpins, CloseFrees, CancelReset,
          Disconnect, DisconnectLink, DisconnectCleanup, Cleanup,
          ClearListener, AfterDisconnect
<1>8. CASE Receive \/ Receiving \/ PushFrame \/ Sending
  BY <1>8 DEF Receive, Receiving, PopEmpty, PopFrame, PopGet, PopRemove,
          PopThrows, StoreFrame, PushFrame, Sending, WriteFrame, PushThrows,
          Unchanged
<1>9. CASE LinkLost \/ Dispatch \/ OnBLEDisconnectCleanup \/ Arrive
  BY <1>9 DEF LinkLost, Dispatch, OnBLEDisconnectCleanup, Cleanup, Arrive
<1>10. CASE NativeOnDisconnect
  <2>1. bleObject \in Objects
    BY <1>10, AndroidAssumption DEF NativeOnDisconnect, ObjectsTyped, Objects
  <2>2. calls' \in [Objects -> Nat]
    BY <1>10, <2>1 DEF NativeOnDisconnect
  <2> QED
    BY <1>10, <2>2 DEF NativeOnDisconnect
<1>11. CASE UNCHANGED vars
  BY <1>11 DEF vars
<1> QED
  BY <1>2, <1>3, <1>4, <1>5, <1>6, <1>7, <1>8, <1>9, <1>10, <1>11
     DEF Next, Connecting, OnBLEDisconnect

LEMMA AppStep ==
  ASSUME IInv, [Next]_vars
  PROVE  AppInv' /\ LinkInv'
<1>1. IInv /\ MaxInits \in Nat
  BY AndroidAssumption
<1> USE <1>1 DEF IInv, PcTyped, ObjectsTyped, AppInv, LinkInv, ConnectPlaces,
            ClosePlaces, Goto, At, Threads, NULL, java, native, frames,
            connect, manager, callback
<1>2. CASE New
  BY <1>2 DEF New, ObjectNew
<1>3. CASE Connect \/ Discover \/ ConnectFields \/ ConnectListener
  BY <1>3 DEF Connect, Discover, ConnectFields, StoreServices, ConnectListener,
          SetListener
<1>4. CASE InitFails \/ InitSucceeds \/ ServicesGone
  BY <1>4 DEF InitFails, InitSucceeds, ServicesGone
<1>5. CASE ConfigureCharacteristic \/ RegisterNotifications
  BY <1>5 DEF ConfigureCharacteristic, RegisterNotifications
<1>6. CASE CallCancel \/ CallClose \/ SetOnDisconnectCallback
  BY <1>6 DEF CallCancel, CallClose, SetOnDisconnectCallback
<1>7. CASE Cancelling \/ Closing
  BY <1>7 DEF Cancelling, Closing, CloseUnpins, CloseFrees, CancelReset,
          Disconnect, DisconnectLink, DisconnectCleanup, Cleanup,
          ClearListener, AfterDisconnect
<1>8. CASE Receive \/ Receiving \/ PushFrame \/ Sending
  BY <1>8 DEF Receive, Receiving, PopEmpty, PopFrame, PopGet, PopRemove,
          PopThrows, StoreFrame, PushFrame, Sending, WriteFrame, PushThrows,
          Unchanged
<1>9. CASE LinkLost \/ OnBLEDisconnect \/ Arrive
  BY <1>9 DEF LinkLost, OnBLEDisconnect, Dispatch, NativeOnDisconnect,
          OnBLEDisconnectCleanup, Cleanup, Arrive
<1>10. CASE UNCHANGED vars
  BY <1>10 DEF vars, java, native, frames, connect, manager, callback
<1> QED
  BY <1>2, <1>3, <1>4, <1>5, <1>6, <1>7, <1>8, <1>9, <1>10 DEF Next, Connecting

LEMMA JoinStep ==
  ASSUME IInv, JoinInv, DisconnectJoins, [Next]_vars
  PROVE  JoinInv'
<1>1. IInv /\ JoinInv /\ DisconnectJoins /\ MaxInits \in Nat
  BY AndroidAssumption
<1> USE <1>1 DEF IInv, JoinInv, PcTyped, ObjectsTyped, TablesTyped, AppInv,
            LinkInv, ConnectPlaces, ClosePlaces, Goto, At, Threads, NULL,
            Objects, java, native, frames, connect, manager, callback
<1>2. CASE New
  BY <1>2 DEF New, ObjectNew
<1>3. CASE Connect \/ Discover \/ ConnectFields \/ ConnectListener
  BY <1>3 DEF Connect, Discover, ConnectFields, StoreServices, ConnectListener,
          SetListener
<1>4. CASE InitFails \/ InitSucceeds \/ ServicesGone
  BY <1>4 DEF InitFails, InitSucceeds, ServicesGone
<1>5. CASE ConfigureCharacteristic \/ RegisterNotifications
  BY <1>5 DEF ConfigureCharacteristic, RegisterNotifications
<1>6. CASE CallCancel \/ CallClose \/ SetOnDisconnectCallback
  BY <1>6 DEF CallCancel, CallClose, SetOnDisconnectCallback
<1>7. CASE Cancelling \/ Closing
  BY <1>7 DEF Cancelling, Closing, CloseUnpins, CloseFrees, CancelReset,
          Disconnect, DisconnectLink, DisconnectCleanup, Cleanup,
          ClearListener, AfterDisconnect
<1>8. CASE Receive \/ Receiving \/ PushFrame \/ Sending
  BY <1>8 DEF Receive, Receiving, PopEmpty, PopFrame, PopGet, PopRemove,
          PopThrows, StoreFrame, PushFrame, Sending, WriteFrame, PushThrows,
          Unchanged
<1>9. CASE LinkLost \/ OnBLEDisconnect \/ Arrive
  BY <1>9 DEF LinkLost, OnBLEDisconnect, Dispatch, NativeOnDisconnect,
          OnBLEDisconnectCleanup, Cleanup, Arrive
<1>10. CASE UNCHANGED vars
  BY <1>10 DEF vars, java, native, frames, connect, manager, callback
<1> QED
  BY <1>2, <1>3, <1>4, <1>5, <1>6, <1>7, <1>8, <1>9, <1>10 DEF Next, Connecting

LEMMA CallsStep ==
  ASSUME IInv, CallsInv, [Next]_vars, NEW a \in Objects
  PROVE  CallsOf(a)'
<1>1. IInv /\ CallsOf(a) /\ a \in Nat /\ MaxInits \in Nat
  BY AndroidAssumption DEF CallsInv, Objects
<1> USE <1>1 DEF IInv, CallsOf, PcTyped, ObjectsTyped, TablesTyped, AppInv,
            LinkInv, ConnectPlaces, ClosePlaces, Goto, At, Threads, NULL,
            Objects, java, native, frames, connect, manager, callback
<1>2. CASE New
  BY <1>2 DEF New, ObjectNew
<1>3. CASE Connect \/ Discover \/ ConnectFields \/ ConnectListener
  BY <1>3 DEF Connect, Discover, ConnectFields, StoreServices, ConnectListener,
          SetListener
<1>4. CASE InitFails \/ InitSucceeds \/ ServicesGone
  BY <1>4 DEF InitFails, InitSucceeds, ServicesGone
<1>5. CASE ConfigureCharacteristic \/ RegisterNotifications
  BY <1>5 DEF ConfigureCharacteristic, RegisterNotifications
<1>6. CASE CallCancel \/ CallClose \/ SetOnDisconnectCallback
  BY <1>6 DEF CallCancel, CallClose, SetOnDisconnectCallback
<1>7. CASE Cancelling \/ Closing
  BY <1>7 DEF Cancelling, Closing, CloseUnpins, CloseFrees, CancelReset,
          Disconnect, DisconnectLink, DisconnectCleanup, Cleanup,
          ClearListener, AfterDisconnect
<1>8. CASE Receive \/ Receiving \/ PushFrame \/ Sending
  BY <1>8 DEF Receive, Receiving, PopEmpty, PopFrame, PopGet, PopRemove,
          PopThrows, StoreFrame, PushFrame, Sending, WriteFrame, PushThrows,
          Unchanged
<1>9. CASE LinkLost \/ OnBLEDisconnect \/ Arrive
  BY <1>9 DEF LinkLost, OnBLEDisconnect, Dispatch, NativeOnDisconnect,
          OnBLEDisconnectCleanup, Cleanup, Arrive
<1>10. CASE UNCHANGED vars
  BY <1>10 DEF vars, java, native, frames, connect, manager, callback
<1> QED
  BY <1>2, <1>3, <1>4, <1>5, <1>6, <1>7, <1>8, <1>9, <1>10 DEF Next, Connecting

LEMMA LossStep ==
  ASSUME IInv, CountInv, LossInv, Characteristics > 0, [Next]_vars
  PROVE  LossInv'
<1>1. /\ PcTyped /\ ObjectsTyped /\ TablesTyped /\ AppInv /\ LinkInv
      /\ CountInv /\ LossInv /\ Characteristics > 0
      /\ Characteristics \in Nat
  BY AndroidAssumption DEF IInv
<1> USE <1>1 DEF LossInv, CountInv, Watched, PcTyped, ObjectsTyped,
            TablesTyped, AppInv, LinkInv, ConnectPlaces, ClosePlaces, Goto,
            At, Threads, NULL, Objects, java, native, frames, connect,
            manager, callback
<1>2. CASE New
  BY <1>2 DEF New, ObjectNew
<1>3. CASE Connect
  BY <1>3 DEF Connect
<1>4. CASE Discover
  BY <1>4 DEF Discover
<1>5. CASE ConnectFields
  BY <1>5 DEF ConnectFields, StoreServices
<1>6. CASE ConnectListener
  BY <1>6 DEF ConnectListener, SetListener
<1>7. CASE InitFails \/ InitSucceeds \/ ServicesGone
  BY <1>7 DEF InitFails, InitSucceeds, ServicesGone
<1>8. CASE ConfigureCharacteristic \/ RegisterNotifications
  BY <1>8 DEF ConfigureCharacteristic, RegisterNotifications
<1>9. CASE CallCancel \/ CallClose \/ SetOnDisconnectCallback
  BY <1>9 DEF CallCancel, CallClose, SetOnDisconnectCallback
<1>10. CASE CloseUnpins \/ CloseFrees \/ CancelReset
  BY <1>10 DEF CloseUnpins, CloseFrees, CancelReset
<1>11. ASSUME NEW t \in {"app", "cancel"}, DisconnectLink(t)
       PROVE  LossInv'
  BY <1>11 DEF DisconnectLink
<1>12. ASSUME NEW t \in {"app", "cancel"}, DisconnectCleanup(t)
       PROVE  LossInv'
  BY <1>12 DEF DisconnectCleanup, Cleanup
<1>13. ASSUME NEW t \in {"app", "cancel"}, ClearListener(t)
       PROVE  LossInv'
  BY <1>13 DEF ClearListener, AfterDisconnect
<1>14. CASE Receive \/ Receiving \/ PushFrame \/ Sending
  <2>1. UNCHANGED <<object, open, sendService, link, listener, bleObject,
                    configured, connectOk, cancelled>>
    BY <1>14 DEF Receive, Receiving, PopEmpty, PopFrame, PopGet, PopRemove,
             PopThrows, StoreFrame, PushFrame, Sending, WriteFrame, PushThrows,
             Unchanged
  <2>2. /\ pc'["app"] = pc["app"] /\ pc'["cancel"] = pc["cancel"]
        /\ pc'["ble"] = pc["ble"]
    BY <1>14 DEF Receive, Receiving, PopEmpty, PopFrame, PopGet, PopRemove,
             PopThrows, StoreFrame, PushFrame, Sending, WriteFrame, PushThrows
  <2> QED
    BY <2>1, <2>2
<1>15. CASE LinkLost
  BY <1>15 DEF LinkLost
<1>16. CASE Dispatch
  BY <1>16 DEF Dispatch
<1>17. CASE NativeOnDisconnect
  BY <1>17 DEF NativeOnDisconnect
<1>18. CASE OnBLEDisconnectCleanup
  BY <1>18 DEF OnBLEDisconnectCleanup, Cleanup
<1>19. CASE Arrive \/ UNCHANGED vars
  BY <1>19 DEF Arrive, vars
<1> QED
  BY <1>2, <1>3, <1>4, <1>5, <1>6, <1>7, <1>8, <1>9, <1>10, <1>11, <1>12,
     <1>13, <1>14, <1>15, <1>16, <1>17, <1>18, <1>19
     DEF Next, Connecting, Cancelling, Closing, Disconnect, OnBLEDisconnect

LEMMA CountStep ==
  ASSUME IInv, CountInv, [Next]_vars
  PROVE  CountInv'
<1>1. PcTyped /\ CountInv
  BY DEF IInv
<1> USE <1>1 DEF CountInv, PcTyped, ConnectPlaces, ClosePlaces, Goto, At,
                 Threads, connect
<1>2. CASE New
  BY <1>2 DEF New
<1>3. CASE ConfigureCharacteristic
  BY <1>3 DEF ConfigureCharacteristic
<1>4. CASE RegisterNotifications
  BY <1>4 DEF RegisterNotifications
<1>5. CASE \/ Connect \/ InitFails \/ Discover \/ ConnectFields
           \/ ConnectListener \/ InitSucceeds \/ ServicesGone
  BY <1>5 DEF Connect, InitFails, Discover, ConnectFields, StoreServices,
              ConnectListener, SetListener, InitSucceeds, ServicesGone
<1>6. CASE \/ CallCancel \/ CallClose \/ SetOnDisconnectCallback
           \/ Cancelling \/ Closing
  BY <1>6 DEF CallCancel, CallClose, SetOnDisconnectCallback, Cancelling,
              Closing, CloseUnpins, CloseFrees, CancelReset, Disconnect,
              DisconnectLink, DisconnectCleanup, ClearListener, AfterDisconnect
<1>7. CASE Receive \/ Receiving \/ PushFrame \/ Sending
  BY <1>7 DEF Receive, Receiving, PopEmpty, PopFrame, PopGet, PopRemove,
              PopThrows, StoreFrame, PushFrame, Sending, WriteFrame,
              PushThrows, Unchanged
<1>8. CASE LinkLost \/ OnBLEDisconnect \/ Arrive \/ UNCHANGED vars
  BY <1>8 DEF LinkLost, OnBLEDisconnect, Dispatch, NativeOnDisconnect,
              OnBLEDisconnectCleanup, Arrive, vars
<1> QED
  BY <1>2, <1>3, <1>4, <1>5, <1>6, <1>7, <1>8 DEF Next, Connecting

LEMMA IStep ==
  ASSUME IInv, [Next]_vars
  PROVE  IInv'
BY PcStep, ObjectsStep, TablesStep, AppStep DEF IInv

(***************************************************************************)
(* The inductive invariant the other theorems stand on: no thread works    *)
(* on an object that is not there, and a link that is up has no            *)
(* disconnection under way.                                                *)
(***************************************************************************)
THEOREM ObjectsHold == Spec => []IInv
<1>1. Init => IInv
  BY Initially
<1>2. IInv /\ [Next]_vars => IInv'
  BY IStep
<1> QED
  BY <1>1, <1>2, PTL DEF Spec

(***************************************************************************)
(* onBLEDisconnect never runs on a freed object, as long as the BLE        *)
(* manager's disconnect waits for the call of the listener that is under   *)
(* way (java:348-352, 538; JNIBLENetwork.c:225-258).                       *)
(***************************************************************************)
THEOREM NoUseAfterFreeHolds ==
  ASSUME DisconnectJoins
  PROVE  Spec => []NoUseAfterFree
<1>1. Init => JoinInv
  BY Initially
<1>2. IInv /\ JoinInv /\ [Next]_vars => JoinInv'
  BY JoinStep
<1>3. JoinInv => NoUseAfterFree
  BY DEF JoinInv, NoUseAfterFree, At
<1> QED
  BY <1>1, <1>2, <1>3, ObjectsHold, PTL DEF Spec

(***************************************************************************)
(* An object's callback runs at most once in its life, whatever the BLE    *)
(* manager's disconnect waits for (JNIBLENetwork.c:692-708).               *)
(***************************************************************************)
THEOREM NotifiedAtMostOnceHolds == Spec => []NotifiedAtMostOnce
<1>1. Init => CallsInv
  BY Initially
<1>2. IInv /\ CallsInv /\ [Next]_vars => CallsInv'
  BY CallsStep DEF CallsInv
<1>3. CallsInv => NotifiedAtMostOnce
  BY DEF CallsInv, CallsOf, NotifiedAtMostOnce
<1> QED
  BY <1>1, <1>2, <1>3, ObjectsHold, PTL DEF Spec

(***************************************************************************)
(* An open manager whose link is gone refuses to send, wherever in connect *)
(* the loss fell, provided connect has a characteristic to configure: it   *)
(* is that call which finds the link gone (java:226-230, 276-279).         *)
(***************************************************************************)
THEOREM LinkLossSeenHolds ==
  ASSUME Characteristics > 0
  PROVE  Spec => []LinkLossSeen
<1>1. Init => CountInv /\ LossInv
  BY Initially
<1>2. IInv /\ CountInv /\ [Next]_vars => CountInv'
  BY CountStep
<1>3. IInv /\ CountInv /\ LossInv /\ [Next]_vars => LossInv'
  BY LossStep
<1>4. LossInv => LinkLossSeen
  BY DEF LossInv, LinkLossSeen, Watched, At
<1> QED
  BY <1>1, <1>2, <1>3, <1>4, ObjectsHold, PTL DEF Spec
-----------------------------------------------------------------------------
(* What the receiving thread pops comes in the order it arrived, so that   *)
(* no frame is ever pinned a second time.                                  *)

Above(s, n) == \A i \in 1 .. Len(s) : n < s[i]
Below(s, n) == \A i \in 1 .. Len(s) : s[i] <= n

SeqTyped ==
  /\ recvArray \in [Objects -> Seq(Nat)] /\ bleQueue \in Seq(Nat)
  /\ popped \in Seq(Nat) /\ released \subseteq Nat
  /\ currentFrame \in [Objects -> Nat] /\ got \in Nat /\ arrived \in Nat

QueueInv == Rising(bleQueue) /\ Above(bleQueue, 0) /\ Below(bleQueue, arrived)

\* Only the current object holds notifications, and not for long after Close.
ListOf(a) ==
  /\ Rising(recvArray[a]) /\ Above(recvArray[a], 0)
  /\ Below(recvArray[a], arrived)
  /\ \A i \in 1 .. Len(recvArray[a]) : Above(bleQueue, recvArray[a][i])
  /\ recvArray[a] # <<>> =>
       a = object /\ (open \/ pc["app"] \in {"disconnect", "join"})

ListInv == \A a \in Objects : ListOf(a)

\* A notification that is ahead of all those still to be popped.
Past(n) ==
  /\ n \in Nat /\ 0 < n /\ n <= arrived
  /\ Above(bleQueue, n) /\ \A a \in Objects : Above(recvArray[a], n)

PinOf(a) ==
  currentFrame[a] # NULL =>
    /\ Past(currentFrame[a]) /\ currentFrame[a] \notin released
    /\ a = object /\ (open \/ pc["app"] \in ClosePlaces \ {"free"})

PinInv == (\A n \in released : Past(n)) /\ \A a \in Objects : PinOf(a)

StoreInv ==
  /\ pc["recv"] \notin {"idle", "dead"} => open
  /\ pc["recv"] = "remove" /\ recvArray[object] # <<>> =>
       got = recvArray[object][1]
  /\ pc["recv"] = "store" =>
       /\ Past(got) /\ currentFrame[object] < got
       /\ \A n \in released : n < got

PoppedInv ==
  \A i \in 1 .. Len(popped) :
    \/ popped[i] \in released
    \/ popped[i] # NULL /\ \E a \in Objects : currentFrame[a] = popped[i]

FrameInv == frame # NULL => open /\ currentFrame[object] = frame

FramesInv ==
  /\ SeqTyped /\ QueueInv /\ ListInv /\ PinInv /\ StoreInv /\ PoppedInv
  /\ FrameInv

(***************************************************************************)
(* What the three operations on a rising sequence keep.                    *)
(***************************************************************************)
LEMMA EmptyRises ==
  ASSUME NEW n
  PROVE  Rising(<<>>) /\ Above(<<>>, n) /\ Below(<<>>, n) /\ <<>> \in Seq(Nat)
BY DEF Rising, Above, Below

LEMMA TailRises ==
  ASSUME NEW s \in Seq(Nat), s # <<>>, Rising(s)
  PROVE  /\ Tail(s) \in Seq(Nat) /\ Len(s) \in Nat /\ Len(s) >= 1
         /\ Len(Tail(s)) = Len(s) - 1 /\ s[1] \in Nat
         /\ \A i \in 1 .. Len(Tail(s)) :
              i + 1 \in 1 .. Len(s) /\ Tail(s)[i] = s[i + 1]
         /\ Rising(Tail(s)) /\ Above(Tail(s), s[1])
         /\ \A n : Above(s, n) => Above(Tail(s), n)
         /\ \A n : Below(s, n) => Below(Tail(s), n)
<1>1. /\ Tail(s) \in Seq(Nat) /\ Len(s) \in Nat /\ Len(s) >= 1
      /\ Len(Tail(s)) = Len(s) - 1
  OBVIOUS
<1>2. \A i \in 1 .. Len(Tail(s)) :
        i + 1 \in 1 .. Len(s) /\ Tail(s)[i] = s[i + 1]
  BY <1>1
<1>3. 1 \in 1 .. Len(s) /\ \A i \in 1 .. Len(s) : s[i] \in Nat
  BY <1>1
<1> QED
  BY <1>1, <1>2, <1>3 DEF Rising, Above, Below

LEMMA AppendRises ==
  ASSUME NEW s \in Seq(Nat), NEW n \in Nat, Rising(s), Below(s, n - 1)
  PROVE  /\ Append(s, n) \in Seq(Nat) /\ Rising(Append(s, n))
         /\ Below(Append(s, n), n)
         /\ \A m \in Nat : Above(s, m) /\ m < n => Above(Append(s, n), m)
<1>1. /\ Append(s, n) \in Seq(Nat) /\ Len(Append(s, n)) = Len(s) + 1
      /\ Len(s) \in Nat /\ Append(s, n)[Len(s) + 1] = n
      /\ \A i \in 1 .. Len(s) : Append(s, n)[i] = s[i] /\ s[i] \in Nat
  OBVIOUS
<1>2. \A i \in 1 .. Len(Append(s, n)) : i \in 1 .. Len(s) \/ i = Len(s) + 1
  BY <1>1
<1>3. \A i \in 1 .. Len(s) : s[i] < n
  BY <1>1 DEF Below
<1>4. Rising(Append(s, n))
  <2>1. SUFFICES ASSUME NEW i \in 1 .. Len(Append(s, n)),
                        NEW j \in 1 .. Len(Append(s, n)), i < j
                 PROVE  Append(s, n)[i] < Append(s, n)[j]
    BY DEF Rising
  <2>2. i \in 1 .. Len(s)
    BY <1>1, <2>1
  <2>3. CASE j \in 1 .. Len(s)
    BY <1>1, <2>1, <2>2, <2>3 DEF Rising
  <2>4. CASE j = Len(s) + 1
    BY <1>1, <1>3, <2>2, <2>4
  <2> QED
    BY <1>2, <2>3, <2>4
<1>5. Below(Append(s, n), n)
  BY <1>1, <1>2, <1>3 DEF Below
<1>6. \A m \in Nat : Above(s, m) /\ m < n => Above(Append(s, n), m)
  BY <1>1, <1>2 DEF Above
<1> QED
  BY <1>1, <1>4, <1>5, <1>6

LEMMA ConcatRises ==
  ASSUME NEW s \in Seq(Nat), NEW t \in Seq(Nat), Rising(s), Rising(t),
         \A i \in 1 .. Len(s) : Above(t, s[i])
  PROVE  /\ s \o t \in Seq(Nat) /\ Rising(s \o t)
         /\ \A n : Above(s, n) /\ Above(t, n) => Above(s \o t, n)
         /\ \A n : Below(s, n) /\ Below(t, n) => Below(s \o t, n)
<1>1. /\ s \o t \in Seq(Nat) /\ Len(s \o t) = Len(s) + Len(t)
      /\ Len(s) \in Nat /\ Len(t) \in Nat
      /\ \A i \in 1 .. Len(s) : (s \o t)[i] = s[i] /\ s[i] \in Nat
  OBVIOUS
<1>2. \A i \in 1 .. Len(s \o t) :
        i \notin 1 .. Len(s) =>
          /\ i - Len(s) \in 1 .. Len(t) /\ (s \o t)[i] = t[i - Len(s)]
          /\ t[i - Len(s)] \in Nat
  BY <1>1
<1>3. Rising(s \o t)
  <2>1. SUFFICES ASSUME NEW i \in 1 .. Len(s \o t),
                        NEW j \in 1 .. Len(s \o t), i < j
                 PROVE  (s \o t)[i] < (s \o t)[j]
    BY DEF Rising
  <2>2. CASE j \in 1 .. Len(s)
    <3>1. i \in 1 .. Len(s)
      BY <1>1, <2>1, <2>2
    <3> QED
      BY <1>1, <2>1, <2>2, <3>1 DEF Rising
  <2>3. CASE i \in 1 .. Len(s) /\ j \notin 1 .. Len(s)
    BY <1>1, <1>2, <2>3 DEF Above
  <2>4. CASE i \notin 1 .. Len(s)
    <3>1. j \notin 1 .. Len(s) /\ i - Len(s) < j - Len(s)
      BY <1>1, <2>1, <2>4
    <3> QED
      BY <1>1, <1>2, <2>4, <3>1 DEF Rising
  <2> QED
    BY <2>2, <2>3, <2>4
<1>4. \A n : Above(s, n) /\ Above(t, n) => Above(s \o t, n)
  BY <1>1, <1>2 DEF Above
<1>5. \A n : Below(s, n) /\ Below(t, n) => Below(s \o t, n)
  BY <1>1, <1>2 DEF Below
<1> QED
  BY <1>1, <1>3, <1>4, <1>5

LEMMA FramesInitially == Init => FramesInv
<1> SUFFICES ASSUME Init PROVE FramesInv
  OBVIOUS
<1>1. /\ pc["app"] = "idle" /\ pc["recv"] = "idle"
      /\ bleQueue = <<>> /\ popped = <<>> /\ released = {}
      /\ \A a \in Objects : recvArray[a] = <<>> /\ currentFrame[a] = NULL
      /\ frame = NULL /\ got = NULL /\ arrived = 0
  BY DEF Init, Threads
<1>2. SeqTyped
  BY <1>1, EmptyRises DEF Init, SeqTyped, NULL
<1>3. QueueInv /\ ListInv /\ PoppedInv
  BY <1>1, EmptyRises DEF QueueInv, ListInv, ListOf, PoppedInv
<1>4. PinInv /\ StoreInv /\ FrameInv
  BY <1>1 DEF PinInv, PinOf, StoreInv, FrameInv
<1> QED
  BY <1>2, <1>3, <1>4 DEF FramesInv

(***************************************************************************)
(* A step that leaves the frames alone, and Close where it is or before.   *)
(***************************************************************************)
LEMMA QuietStep ==
  ASSUME FramesInv,
         UNCHANGED <<recvArray, bleQueue, arrived, popped, released,
                     currentFrame, got, frame, object>>,
         pc'["recv"] = pc["recv"],
         open => open',
         pc["app"] \in {"disconnect", "join"} =>
           pc'["app"] \in {"disconnect", "join"},
         pc["app"] \in ClosePlaces \ {"free"} =>
           pc'["app"] \in ClosePlaces \ {"free"}
  PROVE  FramesInv'
<1>1. SeqTyped' /\ QueueInv'
  BY DEF FramesInv, SeqTyped, QueueInv
<1>2. ListInv'
  BY DEF FramesInv, ListInv, ListOf
<1>3. \A n : Past(n) => Past(n)'
  BY DEF Past
<1>4. PinInv'
  BY <1>3 DEF FramesInv, PinInv, PinOf
<1>5. StoreInv' /\ PoppedInv' /\ FrameInv'
  BY <1>3 DEF FramesInv, StoreInv, PoppedInv, FrameInv
<1> QED
  BY <1>1, <1>2, <1>4, <1>5 DEF FramesInv

LEMMA QuietSteps ==
  ASSUME IInv, FramesInv, NEW t \in {"app", "cancel"},
         \/ Connect \/ InitFails \/ Discover \/ ConnectFields
         \/ ConnectListener \/ ConfigureCharacteristic \/ InitSucceeds
         \/ ServicesGone \/ CallCancel \/ SetOnDisconnectCallback
         \/ PushFrame \/ Sending \/ LinkLost \/ Dispatch
         \/ NativeOnDisconnect \/ UNCHANGED vars
         \/ DisconnectLink(t) \/ ClearListener(t)
  PROVE  FramesInv'
<1>1. PcTyped
  BY DEF IInv
<1> USE <1>1 DEF PcTyped, ConnectPlaces, ClosePlaces, Goto, At, Threads, java,
            native, frames, connect, manager, callback
<1>2. CASE \/ Connect \/ InitFails \/ Discover \/ ConnectFields
           \/ ConnectListener \/ ConfigureCharacteristic \/ InitSucceeds
           \/ ServicesGone
  BY <1>2, QuietStep DEF Connect, InitFails, Discover, ConnectFields,
       StoreServices, ConnectListener, SetListener, ConfigureCharacteristic,
       InitSucceeds, ServicesGone
<1>3. CASE CallCancel \/ SetOnDisconnectCallback \/ PushFrame \/ Sending
  BY <1>3, QuietStep DEF CallCancel, SetOnDisconnectCallback, PushFrame,
       Sending, WriteFrame, PushThrows, Unchanged
<1>4. CASE LinkLost \/ Dispatch \/ NativeOnDisconnect \/ UNCHANGED vars
  BY <1>4, QuietStep DEF LinkLost, Dispatch, NativeOnDisconnect, vars
<1>5. CASE DisconnectLink(t) \/ ClearListener(t)
  BY <1>5, QuietStep DEF DisconnectLink, ClearListener, AfterDisconnect
<1> QED
  BY <1>2, <1>3, <1>4, <1>5

(***************************************************************************)
(* Cleanup empties one list; the Close it belongs to may move on once its  *)
(* own object's is empty.                                                  *)
(***************************************************************************)
LEMMA CleanupStep ==
  ASSUME IInv, FramesInv, NEW t \in {"app", "cancel"},
         DisconnectCleanup(t) \/ OnBLEDisconnectCleanup
  PROVE  FramesInv'
<1>1. PcTyped /\ ObjectsTyped /\ AppInv
  BY DEF IInv
<1>2. /\ UNCHANGED <<bleQueue, arrived, popped, released, currentFrame, got,
                     frame, object, open>>
      /\ pc'["recv"] = pc["recv"]
  BY <1>1 DEF PcTyped, DisconnectCleanup, OnBLEDisconnectCleanup, Cleanup,
              Goto, Threads, native, frames, connect, manager, callback
<1>3. /\ recvArray' \in [Objects -> Seq(Nat)]
      /\ \A a \in Objects : recvArray'[a] \in {<<>>, recvArray[a]}
  BY EmptyRises DEF FramesInv, SeqTyped, DisconnectCleanup,
                    OnBLEDisconnectCleanup, Cleanup
<1>4. /\ \/ pc'["app"] = pc["app"]
         \/ pc["app"] = "join" /\ pc'["app"] = "unlisten"
      /\ pc'["app"] # pc["app"] =>
           recvArray' = [recvArray EXCEPT ![allocs] = <<>>]
  BY <1>1 DEF PcTyped, DisconnectCleanup, OnBLEDisconnectCleanup, Cleanup,
              Goto, Threads
<1>5. pc'["app"] # pc["app"] => object = allocs
  BY <1>1, <1>4 DEF AppInv, ObjectsTyped, ClosePlaces
<1>6. SeqTyped' /\ QueueInv'
  BY <1>2, <1>3 DEF FramesInv, SeqTyped, QueueInv
<1>7. ASSUME NEW a \in Objects
      PROVE  ListOf(a)'
  <2>1. CASE recvArray'[a] = <<>>
    BY <1>2, <2>1, EmptyRises DEF ListOf
  <2>2. CASE recvArray'[a] # <<>>
    <3>1. recvArray'[a] = recvArray[a] /\ ListOf(a)
      BY <1>3, <2>2 DEF FramesInv, ListInv
    <3>2. pc'["app"] = pc["app"]
      BY <1>4, <1>5, <2>2, <3>1 DEF ListOf, FramesInv, SeqTyped
    <3> QED
      BY <1>2, <3>1, <3>2 DEF ListOf
  <2> QED
    BY <2>1, <2>2
<1>8. \A n : Past(n) => Past(n)'
  BY <1>2, <1>3, EmptyRises DEF Past
<1>9. PinInv'
  BY <1>2, <1>4, <1>8 DEF FramesInv, PinInv, PinOf, ClosePlaces
<1>10. pc'["recv"] = "remove" /\ recvArray'[object] # <<>> =>
         recvArray'[object] = recvArray[object]
  <2>1. open => object \in Objects
    BY <1>1, AndroidAssumption DEF AppInv, ObjectsTyped, Objects
  <2> QED
    BY <1>2, <1>3, <2>1 DEF FramesInv, StoreInv
<1>11. StoreInv' /\ PoppedInv' /\ FrameInv'
  BY <1>2, <1>8, <1>10 DEF FramesInv, StoreInv, PoppedInv, FrameInv
<1> QED
  BY <1>6, <1>7, <1>9, <1>11 DEF FramesInv, ListInv

(***************************************************************************)
(* The steps of the application and of Cancel that touch frames or queue.  *)
(***************************************************************************)
LEMMA NewFrames ==
  ASSUME IInv, FramesInv, New
  PROVE  FramesInv'
<1>1. PcTyped
  BY DEF IInv
<1>2. /\ UNCHANGED <<recvArray, bleQueue, arrived, currentFrame, got, frame,
                     open>>
      /\ pc'["recv"] = pc["recv"] /\ popped' = <<>> /\ released' = {}
      /\ ~open /\ pc["app"] = "idle"
  BY <1>1 DEF New, PcTyped, Goto, Threads, java
<1>3. /\ \A a \in Objects : recvArray[a] = <<>> /\ currentFrame[a] = NULL
      /\ frame = NULL /\ pc["recv"] \in {"idle", "dead"}
  BY <1>2 DEF FramesInv, ListInv, ListOf, PinInv, PinOf, FrameInv, StoreInv,
              ClosePlaces
<1>4. SeqTyped' /\ QueueInv'
  BY <1>2, EmptyRises DEF FramesInv, SeqTyped, QueueInv
<1>5. ListInv' /\ PinInv' /\ StoreInv' /\ FrameInv'
  BY <1>2, <1>3, EmptyRises DEF ListInv, ListOf, PinInv, PinOf, StoreInv,
                                FrameInv
<1>6. PoppedInv'
  BY <1>2 DEF PoppedInv
<1> QED
  BY <1>4, <1>5, <1>6 DEF FramesInv

LEMMA QueueEmptied ==
  ASSUME IInv, FramesInv, RegisterNotifications \/ CancelReset
  PROVE  FramesInv'
<1>1. PcTyped /\ AppInv
  BY DEF IInv
<1>2. /\ UNCHANGED <<recvArray, arrived, popped, released, currentFrame, got,
                     frame, object, open>>
      /\ pc'["recv"] = pc["recv"] /\ bleQueue' = <<>>
      /\ \/ pc'["app"] = pc["app"]
         \/ pc["app"] = "notify"
  BY <1>1 DEF RegisterNotifications, CancelReset, PcTyped, Goto, At, Threads,
              java, native, frames
<1>3. SeqTyped' /\ QueueInv'
  BY <1>2, EmptyRises DEF FramesInv, SeqTyped, QueueInv
<1>4. ListInv'
  BY <1>2, EmptyRises DEF FramesInv, ListInv, ListOf
<1>5. \A n : Past(n) => Past(n)'
  BY <1>2, EmptyRises DEF Past
<1>6. PinInv'
  BY <1>2, <1>5 DEF FramesInv, PinInv, PinOf, ClosePlaces
<1>7. StoreInv' /\ PoppedInv' /\ FrameInv'
  BY <1>2, <1>5 DEF FramesInv, StoreInv, PoppedInv, FrameInv
<1> QED
  BY <1>3, <1>4, <1>6, <1>7 DEF FramesInv

LEMMA CloseFrames ==
  ASSUME IInv, FramesInv, CallClose \/ CloseUnpins \/ CloseFrees
  PROVE  FramesInv'
<1>1. PcTyped /\ ObjectsTyped /\ AppInv
  BY DEF IInv
<1>2. /\ UNCHANGED <<recvArray, bleQueue, arrived, popped, got>>
      /\ pc'["recv"] = pc["recv"]
  BY <1>1 DEF PcTyped, CallClose, CloseUnpins, CloseFrees, Goto, Threads, java,
              frames, connect, manager
<1>3. \A n : Past(n) => Past(n)'
  BY <1>2 DEF Past
<1>4. CASE CallClose
  <2>1. /\ UNCHANGED <<object, currentFrame, released>> /\ frame' = NULL
        /\ pc["app"] = "idle" /\ pc'["app"] = "disconnect"
        /\ pc["recv"] \in {"idle", "dead"}
    BY <1>1, <1>4 DEF CallClose, PcTyped, Goto, Threads
  <2>2. SeqTyped' /\ QueueInv'
    BY <1>2, <2>1 DEF FramesInv, SeqTyped, QueueInv
  <2>3. ListInv'
    BY <1>2, <2>1 DEF FramesInv, ListInv, ListOf
  <2>4. PinInv'
    BY <1>2, <1>3, <2>1 DEF FramesInv, PinInv, PinOf, ClosePlaces
  <2>5. StoreInv' /\ PoppedInv' /\ FrameInv'
    BY <1>2, <2>1 DEF FramesInv, StoreInv, PoppedInv, FrameInv
  <2> QED
    BY <2>2, <2>3, <2>4, <2>5 DEF FramesInv
<1>5. CASE CloseUnpins
  <2>1. /\ UNCHANGED <<object, frame, open>>
        /\ pc["app"] = "unpin" /\ pc'["app"] = "free"
        /\ released' = released \cup Pinned(object)
        /\ currentFrame' = [currentFrame EXCEPT ![object] = NULL]
        /\ object \in Objects /\ ~open
    BY <1>1, <1>5, AndroidAssumption
       DEF CloseUnpins, PcTyped, Goto, Threads, native, AppInv, ObjectsTyped,
           Objects, ClosePlaces
  <2>2. /\ currentFrame' \in [Objects -> Nat]
        /\ \A a \in Objects : currentFrame'[a] = NULL
    BY <2>1 DEF FramesInv, SeqTyped, PinInv, PinOf, NULL
  <2>3. SeqTyped' /\ QueueInv'
    BY <1>2, <2>1, <2>2 DEF FramesInv, SeqTyped, QueueInv, Pinned
  <2>4. ListInv'
    BY <1>2, <2>1 DEF FramesInv, ListInv, ListOf
  <2>5. PinInv'
    BY <1>2, <1>3, <2>1, <2>2 DEF FramesInv, PinInv, PinOf, Pinned
  <2>6. StoreInv' /\ FrameInv'
    BY <1>2, <2>1 DEF FramesInv, StoreInv, FrameInv
  <2>7. PoppedInv'
    BY <1>2, <2>1 DEF FramesInv, PoppedInv, PinInv, PinOf, Pinned
  <2> QED
    BY <2>3, <2>4, <2>5, <2>6, <2>7 DEF FramesInv
<1>6. CASE CloseFrees
  <2>1. /\ UNCHANGED <<open, frame, currentFrame, released>>
        /\ pc["app"] = "free" /\ pc'["app"] = "idle" /\ ~open
    BY <1>1, <1>6 DEF CloseFrees, PcTyped, Goto, Threads, frames, AppInv
  <2>2. \A a \in Objects : recvArray[a] = <<>> /\ currentFrame[a] = NULL
    BY <2>1 DEF FramesInv, ListInv, ListOf, PinInv, PinOf, ClosePlaces
  <2>3. SeqTyped' /\ QueueInv'
    BY <1>2, <2>1 DEF FramesInv, SeqTyped, QueueInv
  <2>4. ListInv' /\ PinInv'
    BY <1>2, <1>3, <2>1, <2>2 DEF FramesInv, ListInv, ListOf, PinInv, PinOf
  <2>5. StoreInv' /\ PoppedInv' /\ FrameInv'
    BY <1>2, <2>1 DEF FramesInv, StoreInv, PoppedInv, FrameInv
  <2> QED
    BY <2>3, <2>4, <2>5 DEF FramesInv
<1> QED
  BY <1>4, <1>5, <1>6

LEMMA ArriveFrames ==
  ASSUME IInv, FramesInv, Arrive
  PROVE  FramesInv'
<1>1. /\ UNCHANGED <<pc, recvArray, popped, released, currentFrame, got, frame,
                     object, open>>
      /\ arrived' = arrived + 1 /\ bleQueue' = Append(bleQueue, arrived')
      /\ arrived \in Nat
  BY DEF Arrive, java, native, frames, FramesInv, SeqTyped
<1>2. /\ bleQueue \in Seq(Nat) /\ Rising(bleQueue) /\ Above(bleQueue, 0)
      /\ Below(bleQueue, arrived)
  BY DEF FramesInv, SeqTyped, QueueInv
<1>3. /\ bleQueue' \in Seq(Nat) /\ Rising(bleQueue')
      /\ Below(bleQueue', arrived')
      /\ \A m \in Nat :
           Above(bleQueue, m) /\ m <= arrived => Above(bleQueue', m)
  BY <1>1, <1>2, AppendRises, arrived' \in Nat, arrived' - 1 = arrived,
     \A m \in Nat : m <= arrived => m < arrived'
<1>4. \A s : Below(s, arrived) /\ s \in Seq(Nat) => Below(s, arrived')
  BY <1>1 DEF Below
<1>5. SeqTyped' /\ QueueInv'
  BY <1>1, <1>2, <1>3 DEF FramesInv, SeqTyped, QueueInv
<1>6. ASSUME NEW a \in Objects
      PROVE  ListOf(a)'
  <2>1. ListOf(a) /\ recvArray[a] \in Seq(Nat)
    BY DEF FramesInv, ListInv, SeqTyped
  <2>2. \A i \in 1 .. Len(recvArray[a]) :
          recvArray[a][i] \in Nat /\ recvArray[a][i] <= arrived
    BY <2>1 DEF ListOf, Below
  <2> QED
    BY <1>1, <1>3, <1>4, <2>1, <2>2 DEF ListOf
<1>7. \A n : Past(n) => Past(n)'
  BY <1>1, <1>3 DEF Past
<1>8. PinInv' /\ StoreInv' /\ PoppedInv' /\ FrameInv'
  BY <1>1, <1>7 DEF FramesInv, PinInv, PinOf, StoreInv, PoppedInv, FrameInv
<1> QED
  BY <1>5, <1>6, <1>8 DEF FramesInv, ListInv

(***************************************************************************)
(* The receiving thread.                                                   *)
(***************************************************************************)
LEMMA ReceiveFrames ==
  ASSUME IInv, FramesInv, Receive
  PROVE  FramesInv'
<1>1. PcTyped /\ object \in Objects
  BY AndroidAssumption DEF IInv, AppInv, ObjectsTyped, Receive, Objects
<1>2. /\ UNCHANGED <<arrived, popped, released, currentFrame, got, frame,
                     object, open>>
      /\ pc'["recv"] = "pop" /\ pc'["app"] = pc["app"] /\ open
      /\ recvArray' = [recvArray EXCEPT ![object] = @ \o bleQueue]
      /\ bleQueue' = <<>>
  BY <1>1 DEF Receive, PcTyped, Goto, Threads, Unchanged, native, frames
<1>3. /\ recvArray[object] \in Seq(Nat) /\ bleQueue \in Seq(Nat)
      /\ ListOf(object) /\ QueueInv
  BY <1>1 DEF FramesInv, SeqTyped, ListInv
<1> DEFINE new == recvArray[object] \o bleQueue
<1>4. /\ new \in Seq(Nat) /\ Rising(new)
      /\ \A n :
           Above(recvArray[object], n) /\ Above(bleQueue, n) => Above(new, n)
      /\ \A n :
           Below(recvArray[object], n) /\ Below(bleQueue, n) => Below(new, n)
  BY <1>3, ConcatRises DEF ListOf, QueueInv
<1>5. /\ recvArray' \in [Objects -> Seq(Nat)] /\ recvArray'[object] = new
      /\ \A a \in Objects \ {object} : recvArray'[a] = recvArray[a]
  BY <1>1, <1>2, <1>4 DEF FramesInv, SeqTyped
<1> HIDE DEF new
<1>6. SeqTyped' /\ QueueInv'
  BY <1>2, <1>5, EmptyRises DEF FramesInv, SeqTyped, QueueInv
<1>7. ASSUME NEW a \in Objects
      PROVE  ListOf(a)'
  <2>1. \A n : Above(bleQueue', n)
    BY <1>2, EmptyRises
  <2>2. CASE a = object
    BY <1>2, <1>3, <1>4, <1>5, <2>1, <2>2 DEF ListOf, QueueInv
  <2>3. CASE a # object
    BY <1>2, <1>5, <2>1, <2>3 DEF FramesInv, ListInv, ListOf
  <2> QED
    BY <2>2, <2>3
<1>8. \A n : Past(n) => Past(n)'
  BY <1>1, <1>2, <1>4, <1>5, EmptyRises DEF Past
<1>9. PinInv'
  BY <1>2, <1>8 DEF FramesInv, PinInv, PinOf
<1>10. StoreInv' /\ PoppedInv' /\ FrameInv'
  BY <1>2 DEF FramesInv, StoreInv, PoppedInv, FrameInv
<1> QED
  BY <1>6, <1>7, <1>9, <1>10 DEF FramesInv, ListInv

LEMMA PopFrames ==
  ASSUME IInv, FramesInv, PopEmpty \/ PopFrame \/ PopGet \/ PopThrows
  PROVE  FramesInv'
<1>1. PcTyped
  BY DEF IInv
<1>2. /\ UNCHANGED <<recvArray, bleQueue, arrived, popped, released,
                     currentFrame, object, open>>
      /\ pc["recv"] \in {"pop", "get", "remove"}
      /\ pc'["app"] = pc["app"] /\ frame' \in {frame, NULL}
      /\ \/ pc'["recv"] \in {"idle", "dead", "get"} /\ got' \in {got, NULL}
         \/ /\ pc'["recv"] = "remove" /\ recvArray[object] # <<>>
            /\ got' = Head(recvArray[object])
  BY <1>1 DEF PcTyped, PopEmpty, PopFrame, PopGet, PopThrows, Goto, Threads,
              Unchanged, java, native
<1>3. open /\ object \in Objects
  BY <1>2, AndroidAssumption
     DEF FramesInv, StoreInv, IInv, AppInv, ObjectsTyped, Objects
<1>4. got' \in Nat /\ (pc'["recv"] = "remove" => got' = recvArray[object][1])
  BY <1>2, <1>3 DEF FramesInv, SeqTyped, NULL
<1>5. SeqTyped' /\ QueueInv'
  BY <1>2, <1>4 DEF FramesInv, SeqTyped, QueueInv
<1>6. ListInv'
  BY <1>2 DEF FramesInv, ListInv, ListOf
<1>7. \A n : Past(n) => Past(n)'
  BY <1>2 DEF Past
<1>8. PinInv'
  BY <1>2, <1>7 DEF FramesInv, PinInv, PinOf
<1>9. StoreInv' /\ PoppedInv' /\ FrameInv'
  BY <1>2, <1>3, <1>4 DEF FramesInv, StoreInv, PoppedInv, FrameInv
<1> QED
  BY <1>5, <1>6, <1>8, <1>9 DEF FramesInv

LEMMA RemoveFrames ==
  ASSUME IInv, FramesInv, PopRemove
  PROVE  FramesInv'
<1>1. PcTyped
  BY DEF IInv
<1>2. /\ UNCHANGED <<bleQueue, arrived, popped, released, currentFrame, frame,
                     object, open>>
      /\ pc["recv"] = "remove" /\ pc'["app"] = pc["app"]
      /\ recvArray[object] # <<>>
      /\ recvArray' = [recvArray EXCEPT ![object] = Tail(@)]
      /\ \/ pc'["recv"] = "idle" /\ got' = NULL
         \/ pc'["recv"] = "store" /\ got' = got
  BY <1>1 DEF PcTyped, PopRemove, At, Threads, Unchanged, native
<1>3. open /\ object \in Objects
  BY <1>2, AndroidAssumption
     DEF FramesInv, StoreInv, IInv, AppInv, ObjectsTyped, Objects
<1> DEFINE old == recvArray[object]
<1>4. /\ old \in Seq(Nat) /\ ListOf(object) /\ Rising(old) /\ Above(old, 0)
      /\ Below(old, arrived)
      /\ got = old[1]
      /\ \A i \in 1 .. Len(old) : Above(bleQueue, old[i])
  BY <1>2, <1>3 DEF FramesInv, SeqTyped, ListInv, ListOf, StoreInv
<1>5. /\ Tail(old) \in Seq(Nat) /\ Rising(Tail(old)) /\ Above(Tail(old), old[1])
      /\ 1 \in 1 .. Len(old) /\ old[1] \in Nat
      /\ \A i \in 1 .. Len(Tail(old)) :
           i + 1 \in 1 .. Len(old) /\ Tail(old)[i] = old[i + 1]
      /\ \A n : Above(old, n) => Above(Tail(old), n)
      /\ \A n : Below(old, n) => Below(Tail(old), n)
  BY <1>2, <1>4, TailRises
<1>6. /\ recvArray' \in [Objects -> Seq(Nat)] /\ recvArray'[object] = Tail(old)
      /\ \A a \in Objects \ {object} :
           recvArray'[a] = recvArray[a] /\ recvArray[a] = <<>>
  BY <1>2, <1>3, <1>5 DEF FramesInv, SeqTyped, ListInv, ListOf
<1> HIDE DEF old
<1>7. SeqTyped' /\ QueueInv'
  BY <1>2, <1>6 DEF FramesInv, SeqTyped, QueueInv, NULL
<1>8. ASSUME NEW a \in Objects
      PROVE  ListOf(a)'
  <2>1. CASE a = object
    <3>1. /\ Rising(recvArray'[a]) /\ Above(recvArray'[a], 0)
          /\ Below(recvArray'[a], arrived)
      BY <1>4, <1>5, <1>6, <2>1
    <3>2. \A i \in 1 .. Len(recvArray'[a]) : Above(bleQueue, recvArray'[a][i])
      BY <1>4, <1>5, <1>6, <2>1
    <3> QED
      BY <1>2, <1>3, <2>1, <3>1, <3>2 DEF ListOf
  <2>2. CASE a # object
    BY <1>2, <1>6, <2>2, EmptyRises DEF ListOf
  <2> QED
    BY <2>1, <2>2
<1>9. \A n : Past(n) => Past(n)'
  BY <1>2, <1>3, <1>5, <1>6, EmptyRises DEF Past, old
<1>10. Past(got)' \/ pc'["recv"] = "idle"
  <2>1. old[1] \in Nat /\ 0 < old[1] /\ old[1] <= arrived
    BY <1>4, <1>5 DEF Above, Below
  <2>2. Above(bleQueue, old[1])
    BY <1>4, <1>5
  <2>3. \A a \in Objects : Above(recvArray'[a], old[1])
    BY <1>5, <1>6, EmptyRises
  <2> QED
    BY <1>2, <1>4, <2>1, <2>2, <2>3 DEF Past
<1>11. /\ currentFrame[object] < got
       /\ \A n \in released : n < got
  <2>1. \A n : Past(n) => n < got
    BY <1>3, <1>4, <1>5 DEF Past, Above, old
  <2>2. 0 < got
    BY <1>4, <1>5 DEF Above
  <2> QED
    BY <1>3, <2>1, <2>2 DEF FramesInv, PinInv, PinOf, NULL
<1>12. PinInv'
  BY <1>2, <1>9 DEF FramesInv, PinInv, PinOf
<1>13. StoreInv'
  BY <1>2, <1>3, <1>10, <1>11 DEF StoreInv
<1>14. PoppedInv' /\ FrameInv'
  BY <1>2 DEF FramesInv, PoppedInv, FrameInv
<1> QED
  BY <1>7, <1>8, <1>12, <1>13, <1>14 DEF FramesInv, ListInv

LEMMA StoreFrames ==
  ASSUME IInv, FramesInv, StoreFrame
  PROVE  FramesInv'
<1>1. PcTyped
  BY DEF IInv
<1>2. /\ UNCHANGED <<recvArray, bleQueue, arrived, object, open>>
      /\ pc["recv"] = "store" /\ pc'["recv"] = "pop" /\ pc'["app"] = pc["app"]
      /\ released' = released \cup Pinned(object)
      /\ currentFrame' = [currentFrame EXCEPT ![object] = got]
      /\ got' = NULL /\ frame' = got /\ popped' = Append(popped, got)
  BY <1>1 DEF PcTyped, StoreFrame, Goto, Threads, Unchanged, java, native
<1>3. open /\ object \in Objects
  BY <1>2, AndroidAssumption
     DEF FramesInv, StoreInv, IInv, AppInv, ObjectsTyped, Objects
<1>4. /\ Past(got) /\ got \in Nat /\ 0 < got /\ currentFrame[object] < got
      /\ \A n \in released : n < got
  BY <1>2 DEF FramesInv, StoreInv, Past
<1>5. /\ currentFrame' \in [Objects -> Nat] /\ currentFrame'[object] = got
      /\ \A a \in Objects \ {object} :
           currentFrame'[a] = currentFrame[a] /\ currentFrame[a] = NULL
  BY <1>2, <1>3, <1>4 DEF FramesInv, SeqTyped, PinInv, PinOf
<1>6. SeqTyped'
  <2>1. popped' \in Seq(Nat)
    BY <1>2, <1>4 DEF FramesInv, SeqTyped
  <2>2. released' \subseteq Nat
    BY <1>2, <1>3 DEF FramesInv, SeqTyped, Pinned
  <2> QED
    BY <1>2, <1>5, <2>1, <2>2 DEF FramesInv, SeqTyped, NULL
<1>7. QueueInv' /\ ListInv'
  BY <1>2 DEF FramesInv, QueueInv, ListInv, ListOf
<1>8. \A n : Past(n) => Past(n)'
  BY <1>2 DEF Past
<1>9. \A n \in released' : Past(n)' /\ n # got
  BY <1>2, <1>3, <1>4, <1>8 DEF FramesInv, SeqTyped, PinInv, PinOf, Pinned
<1>10. PinInv'
  BY <1>2, <1>3, <1>4, <1>5, <1>8, <1>9 DEF PinInv, PinOf
<1>11. StoreInv' /\ FrameInv'
  BY <1>2, <1>3, <1>5 DEF StoreInv, FrameInv
<1>12. PoppedInv'
  <2>1. /\ popped \in Seq(Nat) /\ Len(popped') = Len(popped) + 1
        /\ Len(popped) \in Nat /\ popped'[Len(popped) + 1] = got
        /\ \A i \in 1 .. Len(popped) : popped'[i] = popped[i]
    BY <1>2, <1>4 DEF FramesInv, SeqTyped
  <2>2. \A i \in 1 .. Len(popped) :
          \/ popped[i] \in released
          \/ popped[i] = currentFrame[object] /\ popped[i] # NULL
    <3>1. PoppedInv
      BY DEF FramesInv
    <3>2. \A a \in Objects : currentFrame[a] # NULL => a = object
      BY <1>5
    <3> QED
      BY <3>1, <3>2 DEF PoppedInv
  <2>3. \A i \in 1 .. Len(popped) : popped'[i] \in released'
    BY <1>2, <2>1, <2>2 DEF Pinned
  <2>4. got # NULL /\ \E a \in Objects : currentFrame'[a] = got
    BY <1>3, <1>4, <1>5 DEF NULL
  <2>5. \A i \in 1 .. Len(popped') :
          i \in 1 .. Len(popped) \/ i = Len(popped) + 1
    BY <2>1
  <2> QED
    BY <2>1, <2>3, <2>4, <2>5 DEF PoppedInv
<1> QED
  BY <1>6, <1>7, <1>10, <1>11, <1>12 DEF FramesInv

LEMMA FramesStep ==
  ASSUME IInv, FramesInv, [Next]_vars
  PROVE  FramesInv'
BY QuietSteps, CleanupStep, NewFrames, QueueEmptied, CloseFrames, ArriveFrames,
   ReceiveFrames, PopFrames, RemoveFrames, StoreFrames
   DEF Next, Connecting, Cancelling, Closing, Disconnect, Receiving,
       OnBLEDisconnect

(***************************************************************************)
(* The bytes of a popped frame stay pinned while the client may read them  *)
(* and are released once, for any number of notifications, empty ones, and *)
(* disconnections in between (JNIBLENetwork.c:231-258, 554-586).           *)
(***************************************************************************)
THEOREM FramesPinnedHolds == Spec => []FramesPinned
<1>1. Init => FramesInv
  BY FramesInitially
<1>2. IInv /\ FramesInv /\ [Next]_vars => FramesInv'
  BY FramesStep
<1>3. IInv /\ FramesInv => FramesPinned
  <2> SUFFICES ASSUME IInv, FramesInv PROVE FramesPinned
    OBVIOUS
  <2>1. frame # NULL => object \in alive /\ currentFrame[object] = frame
    BY DEF IInv, AppInv, ObjectsTyped, FramesInv, FrameInv
  <2>2. \A a \in Objects : \A n \in Pinned(a) : n \notin released /\ a = object
    BY DEF FramesInv, PinInv, PinOf, Pinned
  <2>3. \A a \in Objects : Pinned(a) # {} => a \in alive
    BY DEF FramesInv, PinInv, PinOf, Pinned, IInv, AppInv, ObjectsTyped
  <2>4. \A i \in 1 .. Len(popped) :
          popped[i] \in (UNION {Pinned(a) : a \in Objects}) \cup released
    BY DEF FramesInv, PoppedInv, Pinned
  <2> QED
    BY <2>1, <2>2, <2>3, <2>4 DEF FramesPinned
<1> QED
  BY <1>1, <1>2, <1>3, ObjectsHold, PTL DEF Spec
-----------------------------------------------------------------------------
(* The order of what is popped.                                            *)

\* From RegisterNotifications on what is notified is the object's.
Live == open \/ pc["app"] = "ftp"

\* What waits for the client, in the order it will get it.
Waiting ==
  Elements(popped) \cup Elements(Unstored) \cup Elements(recvArray[object])
    \cup Elements(bleQueue)

\* Only cleanup and reset lose a notification, and cleanup comes first.
OrderInv ==
  /\ pc["cancel"] \in {"unlisten", "reset"} => down
  /\ pc["app"] \in ConnectPlaces => popped = <<>>
  /\ Rising(popped) /\ notified \in Seq(Nat)
  /\ Elements(popped) \cap Empty = {}
  /\ pc["recv"] = "store" => got \notin Empty
  /\ Live /\ ~down => Waiting \ Empty = Elements(notified) \ Empty

(***************************************************************************)
(* What the operations on a sequence do to its elements.                   *)
(***************************************************************************)
LEMMA EmptyElements == Elements(<<>>) = {}
BY DEF Elements

LEMMA AppendElements ==
  ASSUME NEW s \in Seq(Nat), NEW n \in Nat
  PROVE  Elements(Append(s, n)) = Elements(s) \cup {n}
<1>1. /\ Len(Append(s, n)) = Len(s) + 1 /\ Len(s) \in Nat
      /\ Append(s, n)[Len(s) + 1] = n
      /\ \A i \in 1 .. Len(s) : Append(s, n)[i] = s[i]
  OBVIOUS
<1>2. /\ Len(s) + 1 \in 1 .. Len(Append(s, n))
      /\ \A i \in 1 .. Len(s) : i \in 1 .. Len(Append(s, n))
      /\ \A i \in 1 .. Len(Append(s, n)) : i \in 1 .. Len(s) \/ i = Len(s) + 1
  BY <1>1
<1> QED
  BY <1>1, <1>2 DEF Elements

LEMMA SingleElement ==
  ASSUME NEW n \in Nat
  PROVE  /\ <<n>> \in Seq(Nat) /\ Len(<<n>>) = 1 /\ <<n>>[1] = n
         /\ Elements(<<n>>) = {n} /\ Rising(<<n>>)
<1>1. <<n>> \in Seq(Nat) /\ Len(<<n>>) = 1 /\ <<n>>[1] = n
  OBVIOUS
<1> QED
  BY <1>1 DEF Elements, Rising

LEMMA ConcatElements ==
  ASSUME NEW s \in Seq(Nat), NEW t \in Seq(Nat)
  PROVE  Elements(s \o t) = Elements(s) \cup Elements(t)
<1>1. /\ Len(s \o t) = Len(s) + Len(t) /\ Len(s) \in Nat /\ Len(t) \in Nat
      /\ \A i \in 1 .. Len(s) : (s \o t)[i] = s[i]
  OBVIOUS
<1>2. \A i \in 1 .. Len(t) : (s \o t)[Len(s) + i] = t[i]
  BY <1>1
<1>3. /\ \A i \in 1 .. Len(s) : i \in 1 .. Len(s \o t)
      /\ \A i \in 1 .. Len(t) : Len(s) + i \in 1 .. Len(s \o t)
  BY <1>1
<1>4. ASSUME NEW i \in 1 .. Len(s \o t)
      PROVE  \/ i \in 1 .. Len(s)
             \/ \E j \in 1 .. Len(t) : i = Len(s) + j
  <2>1. i \in 1 .. Len(s) \/ i - Len(s) \in 1 .. Len(t)
    BY <1>1
  <2>2. i = Len(s) + (i - Len(s))
    BY <1>1
  <2> QED
    BY <2>1, <2>2
<1>5. Elements(s) \cup Elements(t) \subseteq Elements(s \o t)
  BY <1>1, <1>2, <1>3 DEF Elements
<1>6. Elements(s \o t) \subseteq Elements(s) \cup Elements(t)
  <2> SUFFICES ASSUME NEW i \in 1 .. Len(s \o t)
               PROVE  (s \o t)[i] \in Elements(s) \cup Elements(t)
    BY Zenon DEF Elements
  <2>1. CASE i \in 1 .. Len(s)
    <3>1. (s \o t)[i] = s[i]
      BY <1>1, <2>1
    <3> QED
      BY <2>1, <3>1, Zenon DEF Elements
  <2>2. CASE \E j \in 1 .. Len(t) : i = Len(s) + j
    <3> PICK j \in 1 .. Len(t) : i = Len(s) + j
      BY <2>2
    <3>1. (s \o t)[i] = t[j]
      BY <1>2
    <3> QED
      BY <3>1, Zenon DEF Elements
  <2> QED
    BY <1>4, <2>1, <2>2
<1> QED
  BY <1>5, <1>6

LEMMA TailElements ==
  ASSUME NEW s \in Seq(Nat), s # <<>>, Rising(s)
  PROVE  Elements(s) = {s[1]} \cup Elements(Tail(s))
<1>1. /\ Len(s) \in Nat /\ Len(s) >= 1 /\ Len(Tail(s)) = Len(s) - 1
      /\ \A i \in 1 .. Len(Tail(s)) :
           i + 1 \in 1 .. Len(s) /\ Tail(s)[i] = s[i + 1]
  BY TailRises
<1>2. ASSUME NEW i \in 1 .. Len(s)
      PROVE  i = 1 \/ \E j \in 1 .. Len(Tail(s)) : i = j + 1
  <2>1. i = 1 \/ i - 1 \in 1 .. Len(Tail(s))
    BY <1>1
  <2>2. i = (i - 1) + 1
    OBVIOUS
  <2> QED
    BY <2>1, <2>2
<1>3. 1 \in 1 .. Len(s)
  BY <1>1
<1>4. Elements(s) \subseteq {s[1]} \cup Elements(Tail(s))
  BY <1>1, <1>2 DEF Elements
<1>5. {s[1]} \cup Elements(Tail(s)) \subseteq Elements(s)
  BY <1>1, <1>3 DEF Elements
<1> QED
  BY <1>4, <1>5

(***************************************************************************)
(* While the object is live it has a list of its own.                      *)
(***************************************************************************)
LEMMA LiveObject ==
  ASSUME IInv, FramesInv, Live
  PROVE  /\ object = allocs /\ object \in Objects
         /\ recvArray[object] \in Seq(Nat)
<1>1. PcTyped /\ ObjectsTyped /\ AppInv
  BY DEF IInv
<1>2. object # NULL
  BY <1>1 DEF Live, AppInv, ConnectPlaces
<1> QED
  BY <1>1, <1>2, AndroidAssumption DEF ObjectsTyped, Objects, FramesInv, SeqTyped

\* A step that neither pops nor is notified.
LEMMA OrderKept ==
  ASSUME OrderInv, popped' = popped, notified' = notified,
         pc'["cancel"] \in {"unlisten", "reset"} => down',
         pc'["app"] \in ConnectPlaces => pc["app"] \in ConnectPlaces,
         pc'["recv"] = "store" => got' \notin Empty,
         Live' /\ ~down' =>
           Live /\ ~down /\ Waiting' \ Empty = Waiting \ Empty
  PROVE  OrderInv'
BY DEF OrderInv

LEMMA QuietOrder ==
  ASSUME IInv, OrderInv, NEW t \in {"app", "cancel"},
         \/ Connect \/ InitFails \/ Discover \/ ConnectFields
         \/ ConnectListener \/ ConfigureCharacteristic \/ InitSucceeds
         \/ ServicesGone \/ CallCancel \/ SetOnDisconnectCallback
         \/ PushFrame \/ Sending \/ LinkLost \/ Dispatch
         \/ NativeOnDisconnect \/ UNCHANGED vars
         \/ DisconnectLink(t) \/ ClearListener(t)
         \/ PopEmpty \/ PopFrame \/ PopGet \/ PopThrows
  PROVE  OrderInv'
<1>1. PcTyped /\ AppInv /\ OrderInv
  BY DEF IInv
<1>2. /\ UNCHANGED <<popped, notified, recvArray, bleQueue, object, down>>
      /\ pc'["cancel"] \in {"unlisten", "reset"} =>
           pc["cancel"] \in {"unlisten", "reset", "join"}
      /\ pc'["app"] \in ConnectPlaces => pc["app"] \in ConnectPlaces
      /\ pc'["recv"] = "store" <=> pc["recv"] = "store"
      /\ pc["recv"] = "store" => got' = got
      /\ Live' => Live
      /\ pc'["cancel"] \in {"unlisten", "reset"} =>
           pc["cancel"] \in {"unlisten", "reset"}
  <2> USE <1>1 DEF PcTyped, AppInv, Live, ConnectPlaces, ClosePlaces, Goto, At,
              Threads, java, native, frames, connect, manager, callback
  <2>1. CASE \/ Connect \/ InitFails \/ Discover \/ ConnectFields
             \/ ConnectListener \/ ConfigureCharacteristic \/ InitSucceeds
             \/ ServicesGone
    BY <2>1 DEF Connect, InitFails, Discover, ConnectFields, StoreServices,
         ConnectListener, SetListener, ConfigureCharacteristic, InitSucceeds,
         ServicesGone
  <2>2. CASE CallCancel \/ SetOnDisconnectCallback \/ PushFrame \/ Sending
    BY <2>2 DEF CallCancel, SetOnDisconnectCallback, PushFrame, Sending,
         WriteFrame, PushThrows, Unchanged
  <2>3. CASE LinkLost \/ Dispatch \/ NativeOnDisconnect \/ UNCHANGED vars
    BY <2>3 DEF LinkLost, Dispatch, NativeOnDisconnect, vars
  <2>4. CASE DisconnectLink(t) \/ ClearListener(t)
    BY <2>4 DEF DisconnectLink, ClearListener, AfterDisconnect
  <2>5. CASE PopEmpty \/ PopFrame \/ PopGet \/ PopThrows
    BY <2>5 DEF PopEmpty, PopFrame, PopGet, PopThrows, Unchanged
  <2> QED
    BY <2>1, <2>2, <2>3, <2>4, <2>5
<1>3. Unstored' = Unstored
  BY <1>2 DEF Unstored, At
<1>4. Waiting' = Waiting
  BY <1>2, <1>3 DEF Waiting, Elements
<1> QED
  BY <1>1, <1>2, <1>4, OrderKept DEF OrderInv

LEMMA CleanupOrder ==
  ASSUME IInv, FramesInv, OrderInv, NEW t \in {"app", "cancel"},
         DisconnectCleanup(t) \/ OnBLEDisconnectCleanup
  PROVE  OrderInv'
<1>1. PcTyped /\ ObjectsTyped /\ AppInv /\ OrderInv
  BY DEF IInv
<1>2. PICK a \in {allocs, bleObject} :
        /\ recvArray' = [recvArray EXCEPT ![a] = <<>>]
        /\ down' = (down \/ a = allocs)
        /\ DisconnectCleanup(t) => a = allocs
  BY DEF DisconnectCleanup, OnBLEDisconnectCleanup, Cleanup
<1>3. /\ UNCHANGED <<popped, notified, bleQueue, object, got, open>>
      /\ pc'["recv"] = pc["recv"]
      /\ pc'["app"] = pc["app"] \/ pc'["app"] = "unlisten"
      /\ \/ DisconnectCleanup(t)
         \/ OnBLEDisconnectCleanup /\ pc'["cancel"] = pc["cancel"]
  BY <1>1 DEF PcTyped, DisconnectCleanup, OnBLEDisconnectCleanup, Goto,
              Threads, native, frames, connect, manager
<1>4. DisconnectCleanup(t) => down'
  BY <1>2
<1>5. ASSUME Live', ~down'
      PROVE  Live /\ ~down /\ Waiting' = Waiting
  <2>1. Live /\ ~down /\ a # allocs
    BY <1>2, <1>3, <1>5 DEF Live
  <2>2. object = allocs /\ object \in Objects
    BY <2>1, LiveObject
  <2>3. recvArray'[object] = recvArray[object]
    BY <1>2, <2>1, <2>2 DEF FramesInv, SeqTyped
  <2>4. Unstored' = Unstored
    BY <1>3 DEF Unstored, At
  <2> QED
    BY <1>3, <2>1, <2>3, <2>4 DEF Waiting, Elements
<1> QED
  BY <1>1, <1>2, <1>3, <1>4, <1>5, OrderKept DEF OrderInv, ConnectPlaces

LEMMA ClientOrder ==
  ASSUME IInv, FramesInv, OrderInv,
         \/ New \/ CallClose \/ CloseUnpins \/ CloseFrees \/ CancelReset
         \/ RegisterNotifications
  PROVE  OrderInv'
<1>1. PcTyped /\ AppInv /\ OrderInv /\ StoreInv
  BY DEF IInv, FramesInv
<1>2. CASE New
  <2>1. /\ ~open' /\ ~open /\ pc'["app"] = "connect" /\ popped' = <<>>
        /\ pc'["cancel"] = "idle" /\ pc'["recv"] = pc["recv"] /\ notified' = <<>>
    BY <1>1, <1>2 DEF New, PcTyped, Goto, At, Threads
  <2>2. Elements(popped)' = {}
    BY <2>1, EmptyElements
  <2>3. pc'["recv"] # "store" /\ ~Live'
    BY <1>1, <2>1 DEF StoreInv, Live
  <2> QED
    BY <1>1, <2>1, <2>2, <2>3, EmptyRises DEF OrderInv
<1>3. CASE CallClose \/ CloseUnpins \/ CloseFrees
  <2>1. /\ UNCHANGED <<popped, notified, got, down>> /\ ~open'
        /\ pc'["app"] \in ClosePlaces \cup {"idle"}
        /\ pc'["cancel"] = pc["cancel"] /\ pc'["recv"] = pc["recv"]
    BY <1>1, <1>3 DEF CallClose, CloseUnpins, CloseFrees, PcTyped, AppInv, Goto,
                 Threads, ClosePlaces, native, frames, connect, manager
  <2> QED
    BY <1>1, <2>1, OrderKept DEF OrderInv, Live, ConnectPlaces, ClosePlaces
<1>4. CASE CancelReset
  <2>1. /\ down /\ UNCHANGED <<popped, notified, got, down>>
        /\ pc'["app"] = pc["app"] /\ pc'["cancel"] = "idle"
        /\ pc'["recv"] = pc["recv"]
    BY <1>1, <1>4 DEF CancelReset, PcTyped, OrderInv, Goto, Threads, frames
  <2> QED
    BY <1>1, <2>1, OrderKept DEF OrderInv
<1>5. CASE RegisterNotifications
  <2>1. /\ bleQueue' = <<>> /\ notified' = <<>> /\ UNCHANGED <<recvArray, object>>
        /\ pc["app"] = "notify" /\ pc'["cancel"] = pc["cancel"]
        /\ pc'["recv"] = pc["recv"] /\ UNCHANGED <<popped, down>>
    BY <1>1, <1>5 DEF RegisterNotifications, PcTyped, At, Threads, java, native,
                      frames
  <2>2. ~open /\ pc["recv"] # "store" /\ popped = <<>>
    BY <1>1, <2>1 DEF AppInv, StoreInv, OrderInv, ConnectPlaces
  <2>3. object \in Objects /\ recvArray[object] = <<>>
    <3>1. object \in Objects
      BY <1>1, <2>1, AndroidAssumption
         DEF IInv, AppInv, ObjectsTyped, Objects, ConnectPlaces
    <3> QED
      BY <2>1, <2>2, <3>1 DEF FramesInv, ListInv, ListOf
  <2>4. Waiting' = {}
    BY <2>1, <2>2, <2>3, EmptyElements DEF Waiting, Unstored, At
  <2>5. Elements(notified)' = {} /\ Elements(popped)' = {}
    BY <2>1, <2>2, EmptyElements
  <2> QED
    BY <1>1, <2>1, <2>2, <2>4, <2>5, EmptyRises DEF OrderInv
<1> QED
  BY <1>2, <1>3, <1>4, <1>5

LEMMA NextWaiting ==
  Waiting' = Elements(popped') \cup Elements(Unstored')
               \cup Elements(recvArray'[object']) \cup Elements(bleQueue')
BY DEF Waiting, Elements

LEMMA ArriveOrder ==
  ASSUME IInv, FramesInv, OrderInv, Arrive
  PROVE  OrderInv'
<1>1. /\ UNCHANGED <<pc, popped, recvArray, object, open, got, down>>
      /\ bleQueue' = Append(bleQueue, arrived')
      /\ notified' = Append(notified, arrived') /\ arrived' \in Nat
      /\ arrived' = arrived + 1
  BY DEF Arrive, java, native, frames, FramesInv, SeqTyped
<1>2. bleQueue \in Seq(Nat) /\ notified \in Seq(Nat)
  BY DEF FramesInv, SeqTyped, OrderInv
<1>3. /\ Elements(bleQueue') = Elements(bleQueue) \cup {arrived'}
      /\ Elements(notified') = Elements(notified) \cup {arrived'}
  BY <1>1, <1>2, AppendElements
<1>4. Unstored' = Unstored /\ (Live' <=> Live) /\ notified' \in Seq(Nat)
  BY <1>1, <1>2 DEF Unstored, At, Live
<1>5. Waiting' = Waiting \cup {arrived'}
  BY <1>1, <1>3, <1>4, NextWaiting DEF Waiting
<1> QED
  BY <1>1, <1>3, <1>4, <1>5 DEF OrderInv, Elements, Rising

LEMMA ReceiveOrder ==
  ASSUME IInv, FramesInv, OrderInv, Receive
  PROVE  OrderInv'
<1>1. PcTyped /\ OrderInv
  BY DEF IInv
<1>2. /\ UNCHANGED <<popped, notified, object, got, open, down>> /\ open
      /\ pc["recv"] = "idle" /\ pc'["recv"] = "pop" /\ pc'["app"] = pc["app"]
      /\ pc'["cancel"] = pc["cancel"]
      /\ recvArray' = [recvArray EXCEPT ![object] = @ \o bleQueue]
      /\ bleQueue' = <<>>
  BY <1>1 DEF Receive, PcTyped, Goto, Threads, Unchanged, native, frames
<1>3. Live /\ object \in Objects /\ recvArray[object] \in Seq(Nat)
  BY <1>2, LiveObject DEF Live
<1>4. recvArray'[object] = recvArray[object] \o bleQueue
  BY <1>2, <1>3 DEF FramesInv, SeqTyped
<1>5. Elements(recvArray'[object])
        = Elements(recvArray[object]) \cup Elements(bleQueue)
  BY <1>3, <1>4, ConcatElements DEF FramesInv, SeqTyped
<1>6. Elements(bleQueue') = {} /\ Unstored' = Unstored
  BY <1>2, EmptyElements DEF Unstored, At
<1>7. Waiting' = Waiting
  BY <1>2, <1>5, <1>6, NextWaiting DEF Waiting
<1> QED
  BY <1>1, <1>2, <1>3, <1>7, OrderKept DEF OrderInv

LEMMA RemoveOrder ==
  ASSUME IInv, FramesInv, OrderInv, PopRemove
  PROVE  OrderInv'
<1>1. PcTyped /\ OrderInv
  BY DEF IInv
<1>2. /\ UNCHANGED <<popped, notified, object, bleQueue, open, down>>
      /\ pc["recv"] = "remove" /\ pc'["app"] = pc["app"]
      /\ pc'["cancel"] = pc["cancel"] /\ recvArray[object] # <<>>
      /\ recvArray' = [recvArray EXCEPT ![object] = Tail(@)]
      /\ \/ got \in Empty /\ pc'["recv"] = "idle"
         \/ got \notin Empty /\ pc'["recv"] = "store" /\ got' = got
  BY <1>1 DEF PopRemove, PcTyped, At, Threads, Unchanged, native, frames
<1>3. Live /\ open
  BY <1>2 DEF FramesInv, StoreInv, Live
<1>4. object \in Objects /\ recvArray[object] \in Seq(Nat)
  BY <1>3, LiveObject
<1>5. recvArray'[object] = Tail(recvArray[object]) /\ got = recvArray[object][1]
  BY <1>2, <1>4 DEF FramesInv, SeqTyped, StoreInv
<1>6. Elements(recvArray[object]) = {got} \cup Elements(recvArray'[object])
  BY <1>2, <1>4, <1>5, TailElements DEF FramesInv, ListInv, ListOf
<1>7. /\ Elements(Unstored) = {}
      /\ Elements(Unstored') = IF got \in Empty THEN {} ELSE {got}
  BY <1>2, EmptyElements, SingleElement DEF Unstored, At, FramesInv, SeqTyped
<1>8. Waiting' \ Empty = Waiting \ Empty
  BY <1>2, <1>6, <1>7, NextWaiting DEF Waiting
<1> QED
  BY <1>1, <1>2, <1>3, <1>8, OrderKept DEF OrderInv

\* What has been popped comes before what is being popped, and before the rest.
LEMMA PoppedFirst ==
  ASSUME IInv, FramesInv, Live
  PROVE  /\ \A i \in 1 .. Len(popped) :
              /\ Above(recvArray[object], popped[i])
              /\ Above(bleQueue, popped[i])
         /\ pc["recv"] = "store" => Below(popped, got - 1)
<1>1. object \in Objects
  BY LiveObject
<1>2. ASSUME NEW i \in 1 .. Len(popped)
      PROVE  /\ Past(popped[i])
             /\ \/ popped[i] \in released
                \/ popped[i] = currentFrame[object]
  <2>1. CASE popped[i] \in released
    BY <2>1 DEF FramesInv, PinInv
  <2>2. CASE popped[i] \notin released
    <3>1. PICK a \in Objects : currentFrame[a] = popped[i]
      BY <2>2 DEF FramesInv, PoppedInv
    <3>2. popped[i] # NULL
      BY <2>2 DEF FramesInv, PoppedInv
    <3> QED
      BY <3>1, <3>2 DEF FramesInv, PinInv, PinOf
  <2> QED
    BY <2>1, <2>2
<1>3. \A i \in 1 .. Len(popped) :
        Above(recvArray[object], popped[i]) /\ Above(bleQueue, popped[i])
  BY <1>1, <1>2 DEF Past
<1>4. ASSUME pc["recv"] = "store"
      PROVE  Below(popped, got - 1)
  <2>1. \A i \in 1 .. Len(popped) : popped[i] < got /\ popped[i] \in Nat
    BY <1>2, <1>4 DEF FramesInv, StoreInv, Past
  <2> QED
    BY <2>1 DEF FramesInv, SeqTyped, Below
<1> QED
  BY <1>3, <1>4

LEMMA StoreOrder ==
  ASSUME IInv, FramesInv, OrderInv, StoreFrame
  PROVE  OrderInv'
<1>1. PcTyped /\ OrderInv /\ AppInv
  BY DEF IInv
<1>2. /\ UNCHANGED <<notified, object, bleQueue, open, down, recvArray>>
      /\ pc["recv"] = "store" /\ pc'["recv"] = "pop" /\ pc'["app"] = pc["app"]
      /\ pc'["cancel"] = pc["cancel"] /\ popped' = Append(popped, got)
  BY <1>1 DEF StoreFrame, PcTyped, Goto, Threads, Unchanged, native, java
<1>3. open /\ Live /\ pc["app"] = "idle"
  BY <1>1, <1>2 DEF FramesInv, StoreInv, Live, AppInv
<1>4. popped \in Seq(Nat) /\ got \in Nat /\ Below(popped, got - 1)
  BY <1>2, <1>3, PoppedFirst DEF FramesInv, SeqTyped
<1>5. Rising(popped') /\ Elements(popped') = Elements(popped) \cup {got}
  BY <1>1, <1>2, <1>4, AppendRises, AppendElements DEF OrderInv
<1>6. Elements(Unstored) = {got} /\ Elements(Unstored') = {}
  BY <1>2, <1>4, EmptyElements, SingleElement DEF Unstored, At
<1>7. Waiting' = Waiting
  BY <1>2, <1>5, <1>6, NextWaiting DEF Waiting
<1> QED
  BY <1>1, <1>2, <1>3, <1>5, <1>7 DEF OrderInv, Live, ConnectPlaces, Elements

LEMMA OrderStep ==
  ASSUME IInv, FramesInv, OrderInv, [Next]_vars
  PROVE  OrderInv'
BY QuietOrder, CleanupOrder, ClientOrder, ArriveOrder, ReceiveOrder,
   RemoveOrder, StoreOrder
   DEF Next, Connecting, Cancelling, Closing, Disconnect, Receiving,
       OnBLEDisconnect

LEMMA WaitingRises ==
  ASSUME IInv, FramesInv, OrderInv, open
  PROVE  LET all == popped \o Unstored \o recvArray[object] \o bleQueue IN
         Rising(all) /\ Elements(all) = Waiting
<1> DEFINE first  == popped \o Unstored
           second == first \o recvArray[object]
<1>1. Live /\ object \in Objects /\ recvArray[object] \in Seq(Nat)
  BY LiveObject DEF Live
<1>2. /\ popped \in Seq(Nat) /\ bleQueue \in Seq(Nat) /\ got \in Nat
      /\ Rising(popped) /\ Rising(bleQueue) /\ Rising(recvArray[object])
      /\ \A i \in 1 .. Len(recvArray[object]) :
           Above(bleQueue, recvArray[object][i])
  BY <1>1 DEF FramesInv, SeqTyped, QueueInv, ListInv, ListOf, OrderInv
<1>3. /\ Unstored \in Seq(Nat) /\ Rising(Unstored)
      /\ \A i \in 1 .. Len(popped) : Above(Unstored, popped[i])
      /\ \A i \in 1 .. Len(Unstored) :
           Above(recvArray[object], Unstored[i]) /\ Above(bleQueue, Unstored[i])
  <2>1. CASE pc["recv"] = "store"
    <3>1. Unstored = <<got>> /\ Below(popped, got - 1)
      BY <1>1, <2>1, PoppedFirst DEF Unstored, At
    <3>2. \A i \in 1 .. Len(Unstored) : Unstored[i] = got
      BY <1>2, <3>1, SingleElement
    <3>3. \A i \in 1 .. Len(popped) : popped[i] < got
      BY <1>2, <3>1 DEF Below
    <3>4. Above(recvArray[object], got) /\ Above(bleQueue, got)
      BY <1>1, <2>1 DEF FramesInv, StoreInv, Past
    <3> QED
      BY <1>2, <3>1, <3>2, <3>3, <3>4, SingleElement DEF Above
  <2>2. CASE pc["recv"] # "store"
    BY <2>2, EmptyRises DEF Unstored, At
  <2> QED
    BY <2>1, <2>2
<1>4. /\ first \in Seq(Nat) /\ Rising(first)
      /\ Elements(first) = Elements(popped) \cup Elements(Unstored)
  BY <1>2, <1>3, ConcatRises, ConcatElements
<1>5. \A i \in 1 .. Len(first) :
        Above(recvArray[object], first[i]) /\ Above(bleQueue, first[i])
  <2>1. \A n \in Elements(popped) :
          Above(recvArray[object], n) /\ Above(bleQueue, n)
    BY <1>1, PoppedFirst DEF Elements
  <2>2. \A n \in Elements(Unstored) :
          Above(recvArray[object], n) /\ Above(bleQueue, n)
    BY <1>3 DEF Elements
  <2>3. \A i \in 1 .. Len(first) : first[i] \in Elements(first)
    BY DEF Elements
  <2> QED
    BY <1>4, <2>1, <2>2, <2>3
<1> HIDE DEF first
<1>6. /\ second \in Seq(Nat) /\ Rising(second)
      /\ Elements(second) = Elements(first) \cup Elements(recvArray[object])
  BY <1>1, <1>2, <1>4, <1>5, ConcatRises, ConcatElements
<1>7. \A i \in 1 .. Len(second) : Above(bleQueue, second[i])
  <2>1. \A n \in Elements(first) : Above(bleQueue, n)
    BY <1>5 DEF Elements
  <2>2. \A n \in Elements(recvArray[object]) : Above(bleQueue, n)
    BY <1>2 DEF Elements
  <2>3. \A i \in 1 .. Len(second) : second[i] \in Elements(second)
    BY DEF Elements
  <2> QED
    BY <1>6, <2>1, <2>2, <2>3
<1> HIDE DEF second
<1>8. /\ Rising(second \o bleQueue)
      /\ Elements(second \o bleQueue) = Elements(second) \cup Elements(bleQueue)
  BY <1>2, <1>6, <1>7, ConcatRises, ConcatElements
<1> QED
  BY <1>4, <1>6, <1>8 DEF Waiting, first, second

LEMMA OrderInitially == Init => OrderInv
<1> SUFFICES ASSUME Init PROVE OrderInv
  OBVIOUS
<1>1. /\ pc["app"] = "idle" /\ pc["recv"] = "idle" /\ pc["cancel"] = "idle"
      /\ popped = <<>> /\ notified = <<>> /\ ~open
  BY DEF Init, Threads
<1> QED
  BY <1>1, EmptyElements, EmptyRises DEF OrderInv, Live, ConnectPlaces

(***************************************************************************)
(* Until a disconnection an open manager pops every notification with      *)
(* bytes once and in order, for any number of notifications and wherever   *)
(* the empty ones are (java:375-441; JNIBLENetwork.c:520-586).             *)
(***************************************************************************)
THEOREM PoppedInOrderHolds == Spec => []PoppedInOrder
<1>1. Init => FramesInv /\ OrderInv
  BY FramesInitially, OrderInitially
<1>2. IInv /\ FramesInv /\ [Next]_vars => FramesInv'
  BY FramesStep
<1>3. IInv /\ FramesInv /\ OrderInv /\ [Next]_vars => OrderInv'
  BY OrderStep
<1>4. IInv /\ FramesInv /\ OrderInv => PoppedInOrder
  BY WaitingRises DEF PoppedInOrder, OrderInv, Live
<1> QED
  BY <1>1, <1>2, <1>3, <1>4, ObjectsHold, PTL DEF Spec
-----------------------------------------------------------------------------
\* The types of what only this part is about.
RestTyped ==
  /\ connectOk \in BOOLEAN /\ configured \in 0 .. Characteristics
  /\ lock \in {"none", "app", "cancel"}
  /\ open \in BOOLEAN /\ link \in BOOLEAN /\ registered \in BOOLEAN
  /\ down \in BOOLEAN /\ cancelled \in BOOLEAN
  /\ arrived \in 0 .. MaxNotifications /\ got \in 0 .. arrived
  /\ object \in {NULL, allocs}
  /\ notified \in Seq(Nat) /\ Elements(notified) \subseteq 1 .. arrived

LEMMA RestStep ==
  ASSUME IInv, FramesInv, RestTyped, [Next]_vars
  PROVE  RestTyped'
<1>1. PcTyped /\ ObjectsTyped /\ AppInv /\ RestTyped
  BY DEF IInv
<1>2. MaxNotifications \in Nat /\ Characteristics \in Nat /\ arrived \in Nat
  BY AndroidAssumption, <1>1 DEF RestTyped
<1> USE DEF Goto, At, java, native, frames, connect, manager, callback
<1>3. /\ connectOk' \in BOOLEAN /\ configured' \in 0 .. Characteristics
      /\ lock' \in {"none", "app", "cancel"}
      /\ open' \in BOOLEAN /\ link' \in BOOLEAN /\ registered' \in BOOLEAN
      /\ down' \in BOOLEAN /\ cancelled' \in BOOLEAN
  <2> USE <1>1, <1>2 DEF RestTyped
  <2>1. CASE \/ New \/ Connect \/ InitFails \/ Discover \/ ConnectFields
             \/ ConnectListener \/ RegisterNotifications \/ InitSucceeds
             \/ ServicesGone
    <3>1. CASE New
      <4>1. /\ connectOk' = TRUE /\ configured' = 0 /\ cancelled' = FALSE
            /\ down' = FALSE /\ UNCHANGED <<lock, open, link, registered>>
        BY <3>1 DEF New
      <4>2. 0 \in 0 .. Characteristics
        OBVIOUS
      <4> QED
        BY <4>1, <4>2, Zenon
    <3>2. CASE Connect \/ InitFails \/ Discover
      BY <3>2 DEF Connect, InitFails, Discover
    <3>3. CASE ConnectFields \/ ConnectListener \/ RegisterNotifications
      BY <3>3 DEF ConnectFields, StoreServices, ConnectListener, SetListener,
                  RegisterNotifications
    <3>4. CASE InitSucceeds \/ ServicesGone
      BY <3>4 DEF InitSucceeds, ServicesGone
    <3> QED
      BY <2>1, <3>1, <3>2, <3>3, <3>4
  <2>2. CASE CallClose \/ SetOnDisconnectCallback
    BY <2>2 DEF CallClose, SetOnDisconnectCallback
  <2>3. CASE Cancelling \/ Closing
    <3>1. \E t \in {"app", "cancel"} : lock' \in {lock, t, "none"}
      BY <2>3 DEF Cancelling, Closing, CloseUnpins, CloseFrees, CancelReset,
           Disconnect, DisconnectLink, DisconnectCleanup, ClearListener
    <3>2. /\ UNCHANGED <<connectOk, configured, open, cancelled>>
          /\ link' \in {link, FALSE} /\ registered' \in {registered, FALSE}
          /\ down' \in {down, down \/ allocs = allocs}
      BY <2>3 DEF Cancelling, Closing, CloseUnpins, CloseFrees, CancelReset,
           Disconnect, DisconnectLink, DisconnectCleanup, Cleanup, ClearListener
    <3> QED
      BY <3>1, <3>2
  <2>4. CASE Receive \/ Receiving \/ PushFrame \/ Sending
    BY <2>4 DEF Receive, Receiving, PopEmpty, PopFrame, PopGet, PopRemove,
         PopThrows, StoreFrame, PushFrame, Sending, WriteFrame, PushThrows,
         Unchanged
  <2>5. CASE LinkLost \/ OnBLEDisconnect \/ Arrive \/ UNCHANGED vars
    BY <2>5 DEF LinkLost, OnBLEDisconnect, Dispatch, NativeOnDisconnect,
         OnBLEDisconnectCleanup, Cleanup, Arrive, vars
  <2>6. CASE ConfigureCharacteristic
    <3>1. /\ configured' = configured + 1 /\ configured < Characteristics
          /\ UNCHANGED <<lock, open, link, registered, down, cancelled>>
      BY <2>6 DEF ConfigureCharacteristic
    <3>2. connectOk' \in BOOLEAN
      BY <2>6, Zenon DEF ConfigureCharacteristic
    <3> QED
      BY <3>1, <3>2
  <2>7. CASE CallCancel
    <3>1. UNCHANGED <<connectOk, configured, lock, open, link, registered, down>>
      BY <2>7 DEF CallCancel
    <3>2. cancelled' \in BOOLEAN
      BY <2>7, Zenon DEF CallCancel
    <3> QED
      BY <3>1, <3>2
  <2> QED
    BY <2>1, <2>2, <2>3, <2>4, <2>5, <2>6, <2>7 DEF Next, Connecting
<1>4. /\ arrived' \in 0 .. MaxNotifications /\ arrived <= arrived'
      /\ notified' \in Seq(Nat) /\ Elements(notified)' \subseteq 1 .. arrived'
  <2>1. CASE Arrive
    <3>1. /\ arrived' = arrived + 1 /\ arrived < MaxNotifications
          /\ notified' = Append(notified, arrived')
      BY <2>1 DEF Arrive
    <3>2. Elements(notified)' = Elements(notified) \cup {arrived'}
      <4>1. Elements(Append(notified, arrived')) = Elements(notified) \cup {arrived'}
        BY <1>1, <1>2, <3>1, AppendElements DEF RestTyped
      <4> QED
        BY <3>1, <4>1
    <3> QED
      BY <1>1, <1>2, <3>1, <3>2 DEF RestTyped
  <2>2. CASE New \/ RegisterNotifications
    <3>1. arrived' = arrived /\ notified' = <<>>
      BY <2>2 DEF New, RegisterNotifications
    <3> QED
      BY <1>1, <1>2, <3>1, EmptyElements, EmptyRises DEF RestTyped
  <2>3. CASE UNCHANGED <<arrived, notified>>
    BY <1>1, <1>2, <2>3 DEF RestTyped, Elements
  <2>4. UNCHANGED <<arrived, notified>> \/ Arrive \/ New \/ RegisterNotifications
    <3>1. CASE Connecting
      BY <3>1 DEF Connecting, Connect, InitFails, Discover, ConnectFields,
           StoreServices, ConnectListener, SetListener, ConfigureCharacteristic,
           InitSucceeds, ServicesGone
    <3>2. CASE CallCancel \/ CallClose \/ SetOnDisconnectCallback
      BY <3>2 DEF CallCancel, CallClose, SetOnDisconnectCallback
    <3>3. CASE Cancelling \/ Closing
      BY <3>3 DEF Cancelling, Closing, CloseUnpins, CloseFrees, CancelReset,
           Disconnect, DisconnectLink, DisconnectCleanup, ClearListener
    <3>4. CASE Receive \/ Receiving \/ PushFrame \/ Sending
      BY <3>4 DEF Receive, Receiving, PopEmpty, PopFrame, PopGet, PopRemove,
           PopThrows, StoreFrame, PushFrame, Sending, WriteFrame, PushThrows,
           Unchanged
    <3>5. CASE LinkLost \/ OnBLEDisconnect \/ UNCHANGED vars
      BY <3>5 DEF LinkLost, OnBLEDisconnect, Dispatch, NativeOnDisconnect,
           OnBLEDisconnectCleanup, vars
    <3> QED
      BY <3>1, <3>2, <3>3, <3>4, <3>5 DEF Next
  <2> QED
    BY <2>1, <2>2, <2>3, <2>4
<1>5. got' \in 0 .. arrived'
  <2>1. CASE PopGet
    <3>1. object \in Objects /\ recvArray[object] \in Seq(Nat)
      <4>1. open
        BY <2>1 DEF PopGet, FramesInv, StoreInv
      <4> QED
        BY <4>1, LiveObject DEF Live
    <3>2. got' = recvArray[object][1] /\ 1 \in 1 .. Len(recvArray[object])
      BY <2>1, <3>1 DEF PopGet
    <3>3. got' \in Nat /\ got' <= arrived
      BY <3>1, <3>2 DEF FramesInv, ListInv, ListOf, Below
    <3> QED
      BY <1>2, <1>4, <3>3
  <2>2. CASE got' \in {got, NULL}
    BY <1>1, <1>2, <1>4, <2>2 DEF RestTyped, NULL
  <2>3. PopGet \/ got' \in {got, NULL}
    <3>1. CASE New \/ Connecting
      BY <3>1 DEF New, Connecting, Connect, InitFails, Discover, ConnectFields,
           StoreServices, ConnectListener, SetListener, ConfigureCharacteristic,
           RegisterNotifications, InitSucceeds, ServicesGone
    <3>2. CASE CallCancel \/ CallClose \/ SetOnDisconnectCallback
      BY <3>2 DEF CallCancel, CallClose, SetOnDisconnectCallback
    <3>3. CASE Cancelling \/ Closing
      BY <3>3 DEF Cancelling, Closing, CloseUnpins, CloseFrees, CancelReset,
           Disconnect, DisconnectLink, DisconnectCleanup, ClearListener
    <3>4. CASE Receive \/ Receiving \/ PushFrame \/ Sending
      BY <3>4 DEF Receive, Receiving, PopEmpty, PopFrame, PopRemove,
           PopThrows, StoreFrame, PushFrame, Sending, WriteFrame, PushThrows,
           Unchanged
    <3>5. CASE LinkLost \/ OnBLEDisconnect \/ Arrive \/ UNCHANGED vars
      BY <3>5 DEF LinkLost, OnBLEDisconnect, Dispatch, NativeOnDisconnect,
           OnBLEDisconnectCleanup, Arrive, vars
    <3> QED
      BY <3>1, <3>2, <3>3, <3>4, <3>5 DEF Next
  <2> QED
    BY <2>1, <2>2, <2>3
<1>6. object' \in {NULL, allocs'}
  <2>1. ObjectsTyped'
    BY IStep DEF IInv
  <2> QED
    BY <2>1 DEF ObjectsTyped
<1> QED
  BY <1>3, <1>4, <1>5, <1>6 DEF RestTyped

LEMMA InRange ==
  ASSUME NEW n \in Nat, NEW s \in Seq(Nat), Elements(s) \subseteq 1 .. n
  PROVE  s \in Seq(1 .. n)
<1>1. \A i \in 1 .. Len(s) : s[i] \in 1 .. n
  BY DEF Elements
<1>2. s = [i \in 1 .. Len(s) |-> s[i]] /\ Len(s) \in Nat
  OBVIOUS
<1>3. s \in [1 .. Len(s) -> 1 .. n]
  BY <1>1, <1>2
<1> QED
  BY <1>2, <1>3, SeqDef

LEMMA RangeOf ==
  ASSUME NEW n \in Nat, NEW s \in Seq(Nat), Above(s, 0), Below(s, n)
  PROVE  s \in Seq(1 .. n)
<1>1. \A i \in 1 .. Len(s) : s[i] \in Nat
  OBVIOUS
<1>2. Elements(s) \subseteq 1 .. n
  BY <1>1 DEF Elements, Above, Below
<1> QED
  BY <1>2, InRange

(***************************************************************************)
(* Type correctness: among others no notification is ever in a list or a   *)
(* frame before it has arrived, and no thread reaches a place of another.  *)
(***************************************************************************)
THEOREM TypeCorrect == Spec => []TypeOK
<1>1. Init => FramesInv /\ RestTyped
  <2> SUFFICES ASSUME Init PROVE RestTyped
    BY FramesInitially
  <2>1. /\ connectOk = TRUE /\ configured = 0 /\ lock = "none" /\ open = FALSE
        /\ link = FALSE /\ registered = FALSE /\ down = FALSE
        /\ cancelled = FALSE /\ arrived = 0 /\ got = NULL /\ object = NULL
        /\ notified = <<>> /\ <<>> \in Seq(Nat)
    BY DEF Init
  <2>2. 0 \in 0 .. Characteristics /\ 0 \in 0 .. MaxNotifications
    BY AndroidAssumption
  <2>3. Elements(notified) = {}
    BY <2>1, EmptyElements
  <2>4. got \in 0 .. arrived
    BY <2>1 DEF NULL
  <2> QED
    BY <2>1, <2>2, <2>3, <2>4, Zenon DEF RestTyped
<1>2. IInv /\ FramesInv /\ [Next]_vars => FramesInv'
  BY FramesStep
<1>3. IInv /\ FramesInv /\ RestTyped /\ [Next]_vars => RestTyped'
  BY RestStep
<1>4. IInv /\ FramesInv /\ RestTyped => TypeOK
  <2> SUFFICES ASSUME IInv, FramesInv, RestTyped PROVE TypeOK
    OBVIOUS
  <2>1. PcTyped /\ ObjectsTyped /\ TablesTyped /\ AppInv
    BY DEF IInv
  <2>2. arrived \in Nat
    BY DEF FramesInv, SeqTyped
  <2>3. /\ recvArray \in [Objects -> Seq(1 .. arrived)]
        /\ bleQueue \in Seq(1 .. arrived)
    BY <2>2, RangeOf DEF FramesInv, SeqTyped, QueueInv, ListInv, ListOf
  <2>4. \A a \in Objects : currentFrame[a] \in 0 .. arrived
    BY <2>2 DEF FramesInv, SeqTyped, PinInv, PinOf, Past, NULL
  <2>5. currentFrame \in [Objects -> 0 .. arrived]
    BY <2>4 DEF FramesInv, SeqTyped
  <2>6. frame \in 0 .. arrived
    <3>1. frame # NULL => open /\ currentFrame[object] = frame
      BY DEF FramesInv, FrameInv
    <3>2. open => object \in Objects
      BY LiveObject DEF Live
    <3> QED
      BY <2>2, <2>4, <3>1, <3>2 DEF NULL
  <2>7. released \subseteq 1 .. arrived
    BY <2>2 DEF FramesInv, PinInv, Past
  <2>8. popped \in Seq(1 .. arrived)
    <3>1. \A i \in 1 .. Len(popped) : popped[i] \in 1 .. arrived
      <4>1. \A i \in 1 .. Len(popped) :
              popped[i] \in released \/ popped[i] \in (0 .. arrived) \ {NULL}
        BY <2>4 DEF FramesInv, PoppedInv
      <4>2. (0 .. arrived) \ {NULL} \subseteq 1 .. arrived
        BY <2>2 DEF NULL
      <4> QED
        BY <2>7, <4>1, <4>2, Zenon
    <3>2. Elements(popped) \subseteq 1 .. arrived
      BY <3>1 DEF Elements
    <3> QED
      BY <2>2, <3>2, InRange DEF FramesInv, SeqTyped
  <2>9. notified \in Seq(1 .. arrived)
    BY <2>2, InRange DEF RestTyped
  <2>10. /\ allocs \in 0 .. MaxInits /\ alive \subseteq 1 .. allocs
         /\ bleObject \in 0 .. allocs /\ listener \in 0 .. allocs
    BY <2>1, AndroidAssumption DEF ObjectsTyped
  <2> QED
    BY <2>1, <2>3, <2>5, <2>6, <2>7, <2>8, <2>9, <2>10
       DEF TypeOK, PcTyped, TablesTyped, RestTyped
<1> QED
  BY <1>1, <1>2, <1>3, <1>4, ObjectsHold, PTL DEF Spec
-----------------------------------------------------------------------------
(* Close and Cancel against each other and against the Bluetooth thread.   *)

\* The monitor of the Java object belongs to the thread inside disconnect.
MonitorInv ==
  /\ lock \in {"none", "app", "cancel"}
  /\ \A t \in {"app", "cancel"} : lock = t <=> pc[t] \in {"join", "unlisten"}

(***************************************************************************)
(* Who waits for the monitor waits for a thread inside disconnect, which   *)
(* waits at most for a call of the listener that can go on: it needs no    *)
(* monitor and works on a living object.                                   *)
(***************************************************************************)
NeverStuck ==
  \A t \in {"app", "cancel"} :
    /\ At(t, "disconnect") /\ lock # "none" => pc[lock] \in {"join", "unlisten"}
    /\ At(t, "join") /\ At("ble", "native") => bleObject \in alive

LEMMA MonitorKept ==
  ASSUME IInv, MonitorInv, [Next]_vars
  PROVE  MonitorInv'
<1>1. PcTyped /\ MonitorInv
  BY DEF IInv
<1> USE <1>1 DEF MonitorInv, PcTyped, ConnectPlaces, ClosePlaces, Goto, At,
                 Threads
<1>2. CASE Cancelling \/ Closing
  <2>1. CASE CloseUnpins \/ CloseFrees \/ CancelReset
    BY <2>1 DEF CloseUnpins, CloseFrees, CancelReset
  <2>2. ASSUME NEW t \in {"app", "cancel"}, DisconnectLink(t)
        PROVE  MonitorInv'
    BY <2>2 DEF DisconnectLink
  <2>3. ASSUME NEW t \in {"app", "cancel"}, DisconnectCleanup(t)
        PROVE  MonitorInv'
    BY <2>3 DEF DisconnectCleanup
  <2>4. ASSUME NEW t \in {"app", "cancel"}, ClearListener(t)
        PROVE  MonitorInv'
    BY <2>4 DEF ClearListener, AfterDisconnect
  <2> QED
    BY <1>2, <2>1, <2>2, <2>3, <2>4 DEF Cancelling, Closing, Disconnect
<1>3. CASE ~(Cancelling \/ Closing)
  <2>1. lock' = lock
    BY <1>3 DEF Next, New, Connecting, Connect, InitFails, Discover,
         ConnectFields, StoreServices, ConnectListener, SetListener,
         ConfigureCharacteristic, RegisterNotifications, InitSucceeds,
         ServicesGone, CallCancel, CallClose, SetOnDisconnectCallback, Receive,
         Receiving, PopEmpty, PopFrame, PopGet, PopRemove, PopThrows,
         StoreFrame, PushFrame, Sending, WriteFrame, PushThrows, Unchanged,
         LinkLost, OnBLEDisconnect, Dispatch, NativeOnDisconnect,
         OnBLEDisconnectCleanup, Arrive, vars
  <2>2. /\ pc'["app"] = pc["app"] \/ {pc["app"], pc'["app"]} \cap {"join", "unlisten"} = {}
        /\ pc'["cancel"] = pc["cancel"]
             \/ {pc["cancel"], pc'["cancel"]} \cap {"join", "unlisten"} = {}
    <3>1. CASE New \/ Connecting
      BY <3>1 DEF New, Connecting, Connect, InitFails, Discover, ConnectFields,
           ConnectListener, ConfigureCharacteristic, RegisterNotifications,
           InitSucceeds, ServicesGone
    <3>2. CASE CallCancel \/ CallClose \/ SetOnDisconnectCallback
      BY <3>2 DEF CallCancel, CallClose, SetOnDisconnectCallback
    <3>3. CASE Receive \/ Receiving \/ PushFrame \/ Sending
      BY <3>3 DEF Receive, Receiving, PopEmpty, PopFrame, PopGet, PopRemove,
           PopThrows, StoreFrame, PushFrame, Sending, WriteFrame, PushThrows
    <3>4. CASE LinkLost \/ OnBLEDisconnect \/ Arrive \/ UNCHANGED vars
      BY <3>4 DEF LinkLost, OnBLEDisconnect, Dispatch, NativeOnDisconnect,
           OnBLEDisconnectCleanup, Arrive, vars
    <3> QED
      BY <1>3, <3>1, <3>2, <3>3, <3>4 DEF Next
  <2> QED
    BY <2>1, <2>2
<1> QED
  BY <1>2, <1>3

(***************************************************************************)
(* Close and Cancel cannot deadlock, with each other or with the callback, *)
(* which does not take the monitor disconnect holds while it waits: what   *)
(* CloseReturns says short of the scheduling (java:330-352, 536-542).      *)
(***************************************************************************)
THEOREM CloseNeverStuck ==
  ASSUME DisconnectJoins
  PROVE  Spec => []NeverStuck
<1>1. Init => MonitorInv /\ JoinInv
  <2>1. Init => MonitorInv
    BY DEF Init, MonitorInv, Threads
  <2> QED
    BY <2>1, Initially
<1>2. IInv /\ MonitorInv /\ [Next]_vars => MonitorInv'
  BY MonitorKept
<1>3. IInv /\ JoinInv /\ [Next]_vars => JoinInv'
  BY JoinStep
<1>4. MonitorInv /\ JoinInv => NeverStuck
  BY DEF MonitorInv, JoinInv, NeverStuck, At
<1> QED
  BY <1>1, <1>2, <1>3, <1>4, ObjectsHold, PTL DEF Spec
-----------------------------------------------------------------------------
(* The loss of a watched link is told to the object it happened to.        *)

\* While the loss is on its way nobody takes the listener away.
DispatchInv ==
  ~cancelled /\ Watched /\ pc["ble"] = "dispatch" =>
    listener = object /\ pc["cancel"] \in {"idle", "disconnect", "join"}

Lost(a) ==
  /\ At("ble", "dispatch") /\ open /\ ~cancelled
  /\ object = a /\ onDisconnect[a]

OnItsWay(a) ==
  \/ calls[a] > 0
  \/ pc["ble"] = "dispatch" /\ listener = a
  \/ pc["ble"] = "native" /\ bleObject = a

Told(a) ==
  \/ calls[a] > 0
  \/ /\ onDisconnect[a] /\ pc["ble"] = "dispatch" /\ listener = a
     /\ pc["cancel"] \in {"idle", "disconnect", "join"}
  \/ onDisconnect[a] /\ pc["ble"] = "native" /\ bleObject = a

LEMMA DispatchStep ==
  ASSUME DisconnectJoins, Characteristics > 0, IInv, CountInv, LossInv, JoinInv,
         DispatchInv, [Next]_vars
  PROVE  DispatchInv'
<1>1. /\ PcTyped /\ ObjectsTyped /\ AppInv /\ LinkInv /\ CountInv /\ LossInv
      /\ Characteristics \in Nat
  BY AndroidAssumption DEF IInv
<1> USE <1>1 DEF DispatchInv, Watched, PcTyped, ObjectsTyped, AppInv, LinkInv,
            ConnectPlaces, ClosePlaces, Goto, At, Threads, NULL, java, native,
            frames, connect, manager, callback
<1>2. CASE New
  BY <1>2 DEF New, ObjectNew
<1>3. CASE Connect \/ Discover \/ ConnectFields
  BY <1>3 DEF Connect, Discover, ConnectFields, StoreServices
<1>4. CASE ConnectListener
  BY <1>4 DEF ConnectListener, SetListener, CountInv
<1>5. CASE InitFails \/ InitSucceeds \/ ServicesGone
  BY <1>5 DEF InitFails, InitSucceeds, ServicesGone
<1>6. CASE ConfigureCharacteristic
  BY <1>6 DEF ConfigureCharacteristic, CountInv
<1>7. CASE RegisterNotifications
  BY <1>7 DEF RegisterNotifications
<1>8. CASE CallCancel \/ CallClose \/ SetOnDisconnectCallback
  BY <1>8 DEF CallCancel, CallClose, SetOnDisconnectCallback
<1>9. CASE CloseUnpins \/ CloseFrees \/ CancelReset
  BY <1>9 DEF CloseUnpins, CloseFrees, CancelReset
<1>10. ASSUME NEW t \in {"app", "cancel"}, DisconnectLink(t)
       PROVE  DispatchInv'
  BY <1>10 DEF DisconnectLink, LossInv
<1>11. ASSUME NEW t \in {"app", "cancel"}, DisconnectCleanup(t)
       PROVE  DispatchInv'
  BY <1>11 DEF DisconnectCleanup, Cleanup
<1>12. ASSUME NEW t \in {"app", "cancel"}, ClearListener(t)
       PROVE  DispatchInv'
  BY <1>12 DEF ClearListener, AfterDisconnect
<1>13. CASE Receive \/ Receiving \/ PushFrame \/ Sending
  <2>1. UNCHANGED <<object, open, link, listener, configured, connectOk,
                    cancelled>>
    BY <1>13 DEF Receive, Receiving, PopEmpty, PopFrame, PopGet, PopRemove,
             PopThrows, StoreFrame, PushFrame, Sending, WriteFrame, PushThrows,
             Unchanged
  <2>2. /\ pc'["app"] = pc["app"] /\ pc'["cancel"] = pc["cancel"]
        /\ pc'["ble"] = pc["ble"]
    BY <1>13 DEF Receive, Receiving, PopEmpty, PopFrame, PopGet, PopRemove,
             PopThrows, StoreFrame, PushFrame, Sending, WriteFrame, PushThrows
  <2> QED
    BY <2>1, <2>2
<1>14. CASE LinkLost
  BY <1>14 DEF LinkLost, LossInv
<1>15. CASE OnBLEDisconnect
  BY <1>15 DEF OnBLEDisconnect, Dispatch, NativeOnDisconnect,
           OnBLEDisconnectCleanup, Cleanup
<1>16. CASE Arrive \/ UNCHANGED vars
  BY <1>16 DEF Arrive, vars
<1> QED
  BY <1>2, <1>3, <1>4, <1>5, <1>6, <1>7, <1>8, <1>9, <1>10, <1>11, <1>12,
     <1>13, <1>14, <1>15, <1>16
     DEF Next, Connecting, Cancelling, Closing, Disconnect

LEMMA ToldStep ==
  ASSUME DisconnectJoins, IInv, CallsInv, JoinInv, NEW a \in Objects, Told(a),
         [Next]_vars
  PROVE  Told(a)'
<1>1. PcTyped /\ ObjectsTyped /\ TablesTyped /\ AppInv /\ CallsOf(a) /\ a # NULL
  BY DEF IInv, CallsInv, Objects, NULL
<1> USE <1>1 DEF Told, PcTyped, TablesTyped, Goto, At, Threads
<1>2. CASE \/ Receive \/ Receiving \/ PushFrame \/ Sending
           \/ Arrive \/ UNCHANGED vars
  <2>1. UNCHANGED <<onDisconnect, listener, bleObject, calls>>
    BY <1>2 DEF Receive, Receiving, PopEmpty, PopFrame, PopGet, PopRemove,
             PopThrows, StoreFrame, PushFrame, Sending, WriteFrame, PushThrows,
             Unchanged, Arrive, vars, native, manager, callback
  <2>2. pc'["cancel"] = pc["cancel"] /\ pc'["ble"] = pc["ble"]
    BY <1>2 DEF Receive, Receiving, PopEmpty, PopFrame, PopGet, PopRemove,
             PopThrows, StoreFrame, PushFrame, Sending, WriteFrame, PushThrows,
             Arrive, vars
  <2> QED
    BY <2>1, <2>2
<1>3. CASE ConnectListener
  <2>1. ~(onDisconnect[a] /\ listener = a)
    BY <1>3 DEF ConnectListener, JoinInv, CallsOf, AppInv, ConnectPlaces,
                ClosePlaces, NULL
  <2> QED
    BY <1>3, <2>1 DEF ConnectListener, SetListener, native, callback
<1>4. CASE \/ New \/ Connect \/ InitFails \/ Discover \/ ConnectFields
           \/ InitSucceeds \/ ServicesGone
  BY <1>4 DEF New, Connect, InitFails, Discover, ConnectFields, StoreServices,
          InitSucceeds, ServicesGone, native, manager, callback
<1>5. CASE ConfigureCharacteristic \/ RegisterNotifications
  BY <1>5 DEF ConfigureCharacteristic, RegisterNotifications, native, manager,
          callback
<1>6. CASE CallCancel \/ CallClose
  BY <1>6 DEF CallCancel, CallClose, native, manager, callback
<1>7. CASE SetOnDisconnectCallback
  BY <1>7 DEF SetOnDisconnectCallback, native, manager, callback
<1>8. CASE CloseUnpins \/ CloseFrees \/ CancelReset
  BY <1>8 DEF CloseUnpins, CloseFrees, CancelReset, native, manager, callback
<1>9. ASSUME NEW t \in {"app", "cancel"}, DisconnectLink(t)
      PROVE  Told(a)'
  BY <1>9 DEF DisconnectLink, native, callback
<1>10. ASSUME NEW t \in {"app", "cancel"}, DisconnectCleanup(t)
       PROVE  Told(a)'
  BY <1>10 DEF DisconnectCleanup, Cleanup, native, manager, callback
<1>11. ASSUME NEW t \in {"app", "cancel"}, ClearListener(t)
       PROVE  Told(a)'
  BY <1>11 DEF ClearListener, AfterDisconnect, JoinInv, native, callback
<1>12. CASE LinkLost
  BY <1>12 DEF LinkLost, native, callback
<1>13. CASE Dispatch
  BY <1>13 DEF Dispatch, native, manager, NULL
<1>14. CASE NativeOnDisconnect
  BY <1>14 DEF NativeOnDisconnect, native, manager
<1>15. CASE OnBLEDisconnectCleanup
  BY <1>15 DEF OnBLEDisconnectCleanup, Cleanup, native, manager
<1> QED
  BY <1>2, <1>3, <1>4, <1>5, <1>6, <1>7, <1>8, <1>9, <1>10, <1>11, <1>12,
     <1>13, <1>14, <1>15
     DEF Next, Connecting, Cancelling, Closing, Disconnect, OnBLEDisconnect

(***************************************************************************)
(* The safety half of LossNotified: from the loss of an open manager's     *)
(* link on, the callback of its object has run or the Bluetooth thread is  *)
(* on its way to it, whatever Cancels and Closes come in between; none of  *)
(* them takes the listener away before it was called (java:230, 328-356,   *)
(* 536-542).                                                               *)
(***************************************************************************)
THEOREM LossNeverSwallowed ==
  ASSUME DisconnectJoins, Characteristics > 0, NEW a \in Objects
  PROVE  Spec => [](Lost(a) => []OnItsWay(a))
<1> DEFINE Inv == CountInv /\ LossInv /\ JoinInv /\ CallsInv /\ DispatchInv
<1>1. Init => Inv
  BY Initially DEF Init, DispatchInv, Watched, Threads
<1>2. IInv /\ Inv /\ [Next]_vars => Inv'
  BY CountStep, LossStep, JoinStep, CallsStep, DispatchStep DEF CallsInv
<1>3. IInv /\ Inv /\ Told(a) /\ [Next]_vars => Told(a)'
  BY ToldStep
<1>4. Inv /\ Lost(a) => Told(a)
  BY DEF Lost, Told, DispatchInv, Watched, At
<1>5. Told(a) => OnItsWay(a)
  BY DEF Told, OnItsWay
<1> HIDE DEF Inv
<1> QED
  BY <1>1, <1>2, <1>3, <1>4, <1>5, ObjectsHold, PTL DEF Spec
=============================================================================
