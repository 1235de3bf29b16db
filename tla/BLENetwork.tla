------------------------------ MODULE BLENetwork ------------------------------
(***************************************************************************)
(* The BLE network on iOS.  InitBLENetwork makes an Objective-C object and *)
(* connects it to a peripheral, CloseBLENetwork disconnects and releases   *)
(* it, and CancelBLENetwork, from another thread, disconnects it in the    *)
(* middle of Init.  Beside them run the bandwidth thread and the thread of *)
(* CoreBluetooth, which enters the object through the BLE manager's        *)
(* delegate.  That manager (ARSAL_BLEManager) is not in this repository    *)
(* and is modelled from the way this code uses it.                         *)
(***************************************************************************)
EXTENDS Integers

CONSTANTS
  MaxInits,   \* bound on the calls of InitBLENetwork
  MaxCancels  \* bound on the calls of CancelBLENetwork

ASSUME BLEAssumption == MaxInits \in Nat /\ MaxCancels \in Nat

Networks == 1 .. MaxInits  \* the objects made, in order
Callers  == {"app", "cancel"}

VARIABLES
  object,          \* what manager->senderObject points to, 0 for nil
  peripheral,      \* for each network: it keeps a peripheral
  bw_sem,          \* for each network
  bw_threadRunning,
  onDisconnect,    \* for each network: a callback is registered
  inits, cancels,  \* calls so far
  appPc,           \* where the client's thread is in Init and Close
  at, target,      \* where each caller is in disconnect, and of which network
  lock,            \* who is inside @synchronized (self), or "free"
  threadPc, held,  \* the bandwidth thread, and the network it retains
  link,            \* the peripheral is connected
  delegate,        \* the BLE manager's delegate, 0 for nil
  blePc, entered,  \* CoreBluetooth's thread, and the network it is in
  losses,          \* history: the networks told of a lost link
  cancelled        \* history: the networks a Cancel was called for

networks == <<peripheral, bw_sem, bw_threadRunning, onDisconnect>>
app      == <<object, inits, appPc>>
calls    == <<cancels, at, target, lock>>
thread   == <<threadPc, held>>
ble      == <<link, delegate, blePc, entered>>
history  == <<losses, cancelled>>
vars     == <<networks, app, calls, thread, ble, history>>

Init ==
  /\ object = 0 /\ inits = 0 /\ cancels = 0 /\ appPc = "none"
  /\ peripheral = [n \in Networks |-> FALSE]
  /\ bw_sem = [n \in Networks |-> 0]
  /\ bw_threadRunning = [n \in Networks |-> 0]
  /\ onDisconnect = [n \in Networks |-> FALSE]
  /\ at = [c \in Callers |-> "out"] /\ target = [c \in Callers |-> 0]
  /\ lock = "free"
  /\ threadPc = "none" /\ held = 0
  /\ link = FALSE /\ delegate = 0 /\ blePc = "idle" /\ entered = 0
  /\ losses = {} /\ cancelled = {}
-----------------------------------------------------------------------------
(* InitBLENetwork: New, then Connect.                                      *)

Goto(from, to) == appPc = from /\ appPc' = to

New ==
  /\ Goto("none", "connect")
  /\ inits < MaxInits /\ inits' = inits + 1
  /\ object' = inits'
  /\ UNCHANGED <<networks, calls, thread, ble, history>>

ConnectToPeripheral ==
  /\ Goto("connect", "discover")
  /\ link' = TRUE
  /\ UNCHANGED <<networks, object, inits, calls, thread, delegate, blePc,
                 entered, history>>

\* Services and characteristics are found.
Discover ==
  /\ Goto("discover", "post")
  /\ link
  /\ UNCHANGED <<networks, object, inits, calls, thread, ble, history>>

PostRunning ==
  /\ Goto("post", "keep")
  /\ bw_threadRunning' = [bw_threadRunning EXCEPT ![object] = @ + 1]
  /\ UNCHANGED <<peripheral, bw_sem, onDisconnect, object, inits, calls,
                 thread, ble, history>>

KeepPeripheral ==
  /\ Goto("keep", "delegate")
  /\ peripheral' = [peripheral EXCEPT ![object] = TRUE]
  /\ UNCHANGED <<bw_sem, bw_threadRunning, onDisconnect, object, inits,
                 calls, thread, ble, history>>

SetDelegate ==
  /\ Goto("delegate", "notify")
  /\ delegate' = object
  /\ UNCHANGED <<networks, object, inits, calls, thread, link, blePc, entered,
                 history>>

\* Faulty: what setNotificationCharacteristic returns is not looked at.
SetNotificationsUnchecked ==
  /\ Goto("notify", "open")
  /\ UNCHANGED <<networks, object, inits, calls, thread, ble, history>>

\* Notifications are set on a live link, and Init has succeeded.
SetNotifications ==
  /\ Goto("notify", "open")
  /\ link
  /\ UNCHANGED <<networks, object, inits, calls, thread, ble, history>>

\* Connecting, discovering or setting notifications fails: Delete undoes New.
InitFails ==
  /\ appPc \in {"connect", "discover", "notify"} /\ appPc' = "clear"
  /\ UNCHANGED <<networks, object, inits, calls, thread, ble, history>>
-----------------------------------------------------------------------------
(* disconnect, in the object's monitor: by Close, a failed Init or Cancel. *)

EnterDisconnect(c) ==
  LET n == target[c] IN
  /\ at[c] = "enter" /\ lock = "free"
  /\ at' = [at EXCEPT ![c] = IF peripheral[n] THEN "delegate" ELSE "out"]
  /\ lock' = IF peripheral[n] THEN c ELSE "free"
  /\ UNCHANGED <<networks, app, cancels, target, thread, ble, history>>

DisconnectGoto(c, from, to) == at[c] = from /\ at' = [at EXCEPT ![c] = to]

\* Faulty: the delegate is left.
KeepDelegate(c) ==
  /\ DisconnectGoto(c, "delegate", "stop")
  /\ UNCHANGED <<networks, app, cancels, target, lock, thread, ble, history>>

ClearDelegate(c) ==
  /\ DisconnectGoto(c, "delegate", "stop")
  /\ delegate' = 0
  /\ UNCHANGED <<networks, app, cancels, target, lock, thread, link, blePc,
                 entered, history>>

PostStop(c) ==
  /\ DisconnectGoto(c, "stop", "wait")
  /\ bw_sem' = [bw_sem EXCEPT ![target[c]] = @ + 1]
  /\ UNCHANGED <<peripheral, bw_threadRunning, onDisconnect, app, cancels,
                 target, lock, thread, ble, history>>

WaitForThread(c) ==
  /\ DisconnectGoto(c, "wait", "drop")
  /\ bw_threadRunning[target[c]] > 0
  /\ bw_threadRunning' = [bw_threadRunning EXCEPT ![target[c]] = @ - 1]
  /\ UNCHANGED <<peripheral, bw_sem, onDisconnect, app, cancels, target, lock,
                 thread, ble, history>>

\* Faulty: the peripheral is still kept, as if it were connected.
DropLinkOnly(c) ==
  /\ DisconnectGoto(c, "drop", "out")
  /\ link' = FALSE /\ lock' = "free"
  /\ UNCHANGED <<networks, app, cancels, target, thread, delegate, blePc,
                 entered, history>>

DropPeripheral(c) ==
  /\ DisconnectGoto(c, "drop", "out")
  /\ link' = FALSE /\ lock' = "free"
  /\ peripheral' = [peripheral EXCEPT ![target[c]] = FALSE]
  /\ UNCHANGED <<bw_sem, bw_threadRunning, onDisconnect, app, cancels, target,
                 thread, delegate, blePc, entered, history>>

Disconnect(c) ==
  \/ EnterDisconnect(c) \/ ClearDelegate(c) \/ PostStop(c)
  \/ WaitForThread(c) \/ DropPeripheral(c)
-----------------------------------------------------------------------------
(* CloseBLENetwork and CancelBLENetwork.                                   *)

Close ==
  /\ Goto("open", "clear")
  /\ UNCHANGED <<networks, object, inits, calls, thread, ble, history>>

\* Delete: the callback is taken away first, then the network disconnected.
ClearCallback ==
  /\ Goto("clear", "disconnect")
  /\ onDisconnect' = [onDisconnect EXCEPT ![object] = FALSE]
  /\ at' = [at EXCEPT !["app"] = "enter"]
  /\ target' = [target EXCEPT !["app"] = object]
  /\ UNCHANGED <<peripheral, bw_sem, bw_threadRunning, object, inits, cancels,
                 lock, thread, ble, history>>

\* Both of the manager's references are given up.  Whoever is inside the
\* object has a reference of his own (ARC).
Release ==
  /\ Goto("disconnect", "none")
  /\ at["app"] = "out"
  /\ object' = 0
  /\ UNCHANGED <<networks, inits, calls, thread, ble, history>>

Connecting == {"connect", "discover", "post", "keep", "delegate", "notify"}

Cancel ==
  /\ appPc \in Connecting
  /\ cancels < MaxCancels /\ cancels' = cancels + 1
  /\ at["cancel"] = "out"
  /\ at' = [at EXCEPT !["cancel"] = "enter"]
  /\ target' = [target EXCEPT !["cancel"] = object]
  /\ cancelled' = cancelled \cup {object}
  /\ UNCHANGED <<networks, app, lock, thread, ble, losses>>

\* The two stores of the callback and of its data.
SetOnDisconnectCallback ==
  /\ appPc = "open" /\ ~onDisconnect[object]
  /\ onDisconnect' = [onDisconnect EXCEPT ![object] = TRUE]
  /\ UNCHANGED <<peripheral, bw_sem, bw_threadRunning, app, calls, thread,
                 ble, history>>
-----------------------------------------------------------------------------
(* The bandwidth thread, which the client starts once on an open manager.  *)

StartThread ==
  /\ threadPc = "none" /\ appPc = "open"
  /\ threadPc' = "start"
  /\ UNCHANGED <<networks, app, calls, held, ble, history>>

\* A thread that comes after Close finds nil, and a message to nil is none.
LoadObject ==
  /\ threadPc = "start"
  /\ threadPc' = IF object = 0 THEN "done" ELSE "try"
  /\ held' = object
  /\ UNCHANGED <<networks, app, calls, ble, history>>

\* Faulty: the result of the trial is not looked at.
TryRunningAlways ==
  /\ threadPc = "try" /\ threadPc' = "loop"
  /\ UNCHANGED <<networks, app, calls, held, ble, history>>

TryRunning ==
  /\ threadPc = "try"
  /\ IF bw_threadRunning[held] > 0
     THEN /\ bw_threadRunning' = [bw_threadRunning EXCEPT ![held] = @ - 1]
          /\ threadPc' = "loop"
     ELSE threadPc' = "done" /\ UNCHANGED bw_threadRunning
  /\ UNCHANGED <<peripheral, bw_sem, onDisconnect, app, calls, held, ble,
                 history>>

\* A second without a stop: the counters are moved on.
Progress ==
  /\ threadPc = "loop" /\ bw_sem[held] = 0
  /\ UNCHANGED vars

StopSeen ==
  /\ threadPc = "loop" /\ threadPc' = "post"
  /\ bw_sem[held] > 0
  /\ bw_sem' = [bw_sem EXCEPT ![held] = @ - 1]
  /\ UNCHANGED <<peripheral, bw_threadRunning, onDisconnect, app, calls, held,
                 ble, history>>

\* Any errno but ETIMEDOUT, as EINTR, ends the thread as a stop does.
Interrupted ==
  /\ threadPc = "loop" /\ threadPc' = "post"
  /\ UNCHANGED <<networks, app, calls, held, ble, history>>

PostEnd ==
  /\ threadPc = "post" /\ threadPc' = "done"
  /\ bw_threadRunning' = [bw_threadRunning EXCEPT ![held] = @ + 1]
  /\ UNCHANGED <<peripheral, bw_sem, onDisconnect, app, calls, held, ble,
                 history>>

BandwidthThread ==
  \/ LoadObject \/ TryRunning \/ Progress \/ StopSeen \/ Interrupted \/ PostEnd
-----------------------------------------------------------------------------
(* CoreBluetooth.                                                          *)

LoseLink ==
  /\ link /\ link' = FALSE
  /\ blePc = "idle" /\ blePc' = "lost"
  /\ UNCHANGED <<networks, app, calls, thread, delegate, entered, history>>

\* The BLE manager tells its delegate, which it does not retain: one that
\* has been released counts as none.
TellDelegate ==
  /\ blePc = "lost"
  /\ IF delegate # 0 /\ delegate = object
     THEN /\ blePc' = "test" /\ entered' = delegate
          /\ losses' = losses \cup {delegate}
     ELSE blePc' = "idle" /\ UNCHANGED <<entered, losses>>
  /\ UNCHANGED <<networks, app, calls, thread, link, delegate, cancelled>>

\* onBLEDisconnect: the property is read for the test, and again for the call.
TestCallback ==
  /\ blePc = "test"
  /\ blePc' = IF onDisconnect[entered] THEN "call" ELSE "idle"
  /\ UNCHANGED <<networks, app, calls, thread, link, delegate, entered,
                 history>>

CallCallback ==
  /\ blePc = "call" /\ blePc' = "idle"
  /\ UNCHANGED <<networks, app, calls, thread, link, delegate, entered,
                 history>>

BLEThread == TellDelegate \/ TestCallback \/ CallCallback
-----------------------------------------------------------------------------
Connect ==
  \/ ConnectToPeripheral \/ Discover \/ PostRunning \/ KeepPeripheral
  \/ SetDelegate \/ SetNotifications \/ InitFails

Delete == ClearCallback \/ Disconnect("app") \/ Release

Next ==
  \/ New \/ Connect \/ Close \/ Delete
  \/ Cancel \/ Disconnect("cancel")
  \/ SetOnDisconnectCallback
  \/ StartThread \/ BandwidthThread
  \/ LoseLink \/ BLEThread

Spec == Init /\ [][Next]_vars

\* Every thread is scheduled; no interruption is counted on, and Init, Close
\* and Cancel are called or not.
FairSpec ==
  /\ Spec
  /\ WF_vars(Delete) /\ WF_vars(Disconnect("cancel"))
  /\ WF_vars(BandwidthThread /\ ~Interrupted) /\ WF_vars(BLEThread)
-----------------------------------------------------------------------------
CountersTyped ==
  /\ object \in 0 .. MaxInits /\ inits \in 0 .. MaxInits
  /\ cancels \in 0 .. MaxCancels
  /\ bw_sem \in [Networks -> Nat] /\ bw_threadRunning \in [Networks -> 0 .. 1]
  /\ target \in [Callers -> 0 .. MaxInits]
  /\ held \in 0 .. MaxInits /\ delegate \in 0 .. MaxInits
  /\ entered \in 0 .. MaxInits
  /\ losses \subseteq Networks /\ cancelled \subseteq Networks

FlagsTyped ==
  /\ peripheral \in [Networks -> BOOLEAN]
  /\ onDisconnect \in [Networks -> BOOLEAN]
  /\ link \in BOOLEAN

PcsTyped ==
  /\ appPc \in Connecting \cup {"none", "open", "clear", "disconnect"}
  /\ at \in [Callers -> {"out", "enter", "delegate", "stop", "wait", "drop"}]
  /\ lock \in Callers \cup {"free"}
  /\ threadPc \in {"none", "start", "try", "loop", "post", "done"}
  /\ blePc \in {"idle", "lost", "test", "call"}

TypeOK == CountersTyped /\ FlagsTyped /\ PcsTyped

(***************************************************************************)
(* A network the manager has released has no bandwidth thread inside its   *)
(* loop: Close, or the Cancel that came before it, has waited for the      *)
(* thread, and a thread that comes later, on a network it had loaded       *)
(* before, does not get in (BLENetwork.m:351-377, 534-563).                *)
(***************************************************************************)
NoThreadLeft ==
  threadPc \in {"loop", "post"} => held = object

(***************************************************************************)
(* Unless a Cancel has come in the middle of Init, the BLE manager never   *)
(* keeps a released network as its delegate (BLENetwork.m:269, 366).       *)
(***************************************************************************)
DelegateReleased ==
  delegate # 0 /\ delegate \notin cancelled => delegate = object

(***************************************************************************)
(* An open manager knows of its dead link: a link lost at any point of     *)
(* Init makes Init fail, and later on the network is told, unless it was   *)
(* cancelled (BLENetwork.m:269-318, 566-574).                              *)
(***************************************************************************)
LinkLossSeen ==
  appPc = "open" /\ ~link /\ object \notin cancelled =>
    blePc = "lost" \/ object \in losses

(***************************************************************************)
(* Close, an Init that fails and Cancel return, whatever the bandwidth     *)
(* thread does and whichever of them comes first: nobody waits for a       *)
(* bw_threadRunning that nobody will post (BLENetwork.m:368-369).          *)
(***************************************************************************)
CloseReturns ==
  /\ appPc = "clear" ~> appPc = "none"
  /\ at["cancel"] = "enter" ~> at["cancel"] = "out"
=============================================================================
