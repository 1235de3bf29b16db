--------------------------- MODULE BLENetwork_proofs ---------------------------
(***************************************************************************)
(* Proofs about the BLE network on iOS, for any number of connections and  *)
(* of Cancels.                                                             *)
(***************************************************************************)
EXTENDS BLENetwork, TLAPS

\* The bandwidth thread has taken the semaphore of network n.
Inside(n) == threadPc \in {"loop", "post"} /\ held = n

\* Connect has posted bw_threadRunning for n, and no disconnect has taken it.
Owed(n) ==
  \/ peripheral[n] /\ \A c \in Callers : at[c] = "drop" => target[c] # n
  \/ appPc = "keep" /\ object = n

\* The one token of bw_threadRunning is there or with the thread.
TokenInv ==
  \A n \in Networks :
    /\ Owed(n) => bw_threadRunning[n] = (IF Inside(n) THEN 0 ELSE 1)
    /\ ~Owed(n) => bw_threadRunning[n] = 0 /\ ~Inside(n)

ThreadInv == threadPc \in {"try", "loop", "post"} => held \in Networks

Busy == {"delegate", "stop", "wait", "drop"}

\* Who is busy in disconnect is in the monitor, on a connected network.
LockInv ==
  \A c \in Callers :
    /\ at[c] \in Busy <=> lock = c
    /\ at[c] \in Busy => peripheral[target[c]]
    /\ at[c] # "out" => target[c] \in Networks

AppInv ==
  /\ appPc = "none" <=> object = 0
  /\ appPc # "none" => object = inits
  /\ at["app"] # "out" => appPc = "disconnect"
  /\ appPc = "disconnect" => target["app"] = object

\* Only the manager's network keeps a peripheral, from the middle of Init to
\* the disconnection; before that only a Cancel takes it away.
PeripheralInv ==
  /\ \A n \in Networks : peripheral[n] => n = object
  /\ appPc \in {"connect", "discover", "post", "keep"} => ~peripheral[object]
  /\ appPc = "disconnect" /\ at["app"] = "out" => ~peripheral[object]
  /\ appPc \in {"delegate", "notify", "open"} /\ object \notin cancelled =>
       peripheral[object]
  /\ at["cancel"] # "out" => target["cancel"] \in cancelled
  /\ \A n \in Networks : n > inits => ~peripheral[n]

\* Without a Cancel the delegate is the manager's connected network.
DelegateInv ==
  /\ delegate # 0 /\ delegate \notin cancelled =>
       /\ delegate = object /\ peripheral[object]
       /\ appPc \in {"notify", "open", "clear", "disconnect"}
       /\ at["app"] \in {"out", "enter", "delegate"}
  /\ appPc \in {"notify", "open"} /\ object \notin cancelled =>
       delegate = object

IInv ==
  /\ TypeOK /\ TokenInv /\ ThreadInv /\ LockInv /\ AppInv /\ PeripheralInv
  /\ DelegateInv /\ LinkLossSeen

\* The steps of Next, named for the proofs below.
DisconnectStep == \E c \in Callers : Disconnect(c)
ConnectStep    == ConnectToPeripheral \/ Discover \/ SetNotifications \/ InitFails
ThreadStep     == StartThread \/ BandwidthThread
BLEStep        == LoseLink \/ BLEThread

LEMMA NextSteps ==
  ASSUME Next
  PROVE  \/ New \/ ConnectStep \/ PostRunning \/ KeepPeripheral \/ SetDelegate
         \/ Close \/ ClearCallback \/ Release \/ DisconnectStep \/ Cancel
         \/ SetOnDisconnectCallback \/ ThreadStep \/ BLEStep
BY DEF Next, Connect, Delete, DisconnectStep, ConnectStep, ThreadStep, BLEStep,
       Callers

LEMMA Initially == Init => IInv
<1> USE BLEAssumption
<1> SUFFICES ASSUME Init PROVE IInv
  OBVIOUS
<1>1. CountersTyped
  BY DEF Init, CountersTyped, Callers
<1>2. FlagsTyped /\ PcsTyped
  BY DEF Init, FlagsTyped, PcsTyped, Callers
<1>3. TokenInv /\ ThreadInv
  BY DEF Init, TokenInv, ThreadInv, Owed, Inside
<1>4. LockInv /\ AppInv
  BY DEF Init, LockInv, AppInv, Callers, Busy
<1>5. PeripheralInv
  BY DEF Init, PeripheralInv, Callers
<1>6. DelegateInv /\ LinkLossSeen
  BY DEF Init, DelegateInv, LinkLossSeen
<1> QED
  BY <1>1, <1>2, <1>3, <1>4, <1>5, <1>6 DEF IInv, TypeOK

(***************************************************************************)
(* While the client is inside Init, Close or between them, there is a      *)
(* network, and no token of bw_threadRunning is ever posted twice.         *)
(***************************************************************************)
LEMMA ThereIsANetwork ==
  ASSUME IInv, appPc # "none"
  PROVE  object \in Networks
BY BLEAssumption DEF IInv, TypeOK, CountersTyped, AppInv, Networks

LEMMA NoTokenToPost ==
  ASSUME IInv
  PROVE  /\ appPc = "post" => bw_threadRunning[object] = 0 /\ ~Owed(object)
         /\ threadPc = "post" => held \in Networks /\ bw_threadRunning[held] = 0
<1>1. ASSUME appPc = "post" PROVE bw_threadRunning[object] = 0 /\ ~Owed(object)
  <2>1. object \in Networks
    BY <1>1, ThereIsANetwork
  <2>2. ~Owed(object)
    BY <1>1 DEF IInv, PeripheralInv, Owed
  <2> QED
    BY <2>1, <2>2 DEF IInv, TokenInv
<1>2. ASSUME threadPc = "post"
      PROVE  held \in Networks /\ bw_threadRunning[held] = 0
  BY <1>2 DEF IInv, ThreadInv, TokenInv, Inside
<1> QED
  BY <1>1, <1>2

(***************************************************************************)
(* A function updated with a value of its range keeps its type.            *)
(***************************************************************************)
LEMMA ValueStaysTyped ==
  ASSUME NEW D, NEW R, NEW f \in [D -> R], NEW x, NEW v \in R
  PROVE  [f EXCEPT ![x] = v] \in [D -> R]
OBVIOUS

(***************************************************************************)
(* Typing.                                                                 *)
(***************************************************************************)
LEMMA CountersKept ==
  ASSUME IInv, [Next]_vars
  PROVE  CountersTyped'
<1> USE BLEAssumption DEF networks, app, calls, thread, ble, history
<1>1. CountersTyped
  BY DEF IInv, TypeOK
<1> USE <1>1 DEF CountersTyped
<1>2. CASE New
  BY <1>2 DEF New
<1>3. CASE ConnectStep
  BY <1>3 DEF ConnectStep, ConnectToPeripheral, Discover, SetNotifications,
              InitFails
<1>4. CASE PostRunning
  <2>1. bw_threadRunning[object] = 0
    BY <1>4, NoTokenToPost DEF PostRunning, Goto
  <2>2. bw_threadRunning' \in [Networks -> 0 .. 1]
    BY <1>4, <2>1, ValueStaysTyped DEF PostRunning
  <2> QED
    BY <1>4, <2>2 DEF PostRunning
<1>5. CASE KeepPeripheral \/ SetDelegate
  BY <1>5 DEF KeepPeripheral, SetDelegate
<1>6. CASE Close \/ Release
  BY <1>6 DEF Close, Release
<1>7. CASE ClearCallback
  <2>1. target' \in [Callers -> 0 .. MaxInits]
    BY <1>7, ValueStaysTyped DEF ClearCallback
  <2> QED
    BY <1>7, <2>1 DEF ClearCallback
<1>8. CASE Cancel
  <2>1. object \in Networks
    BY <1>8, ThereIsANetwork DEF Cancel, Connecting
  <2>2. target' \in [Callers -> 0 .. MaxInits]
    BY <1>8, ValueStaysTyped DEF Cancel
  <2>3. cancels' \in 0 .. MaxCancels /\ cancelled' \subseteq Networks
    BY <1>8, <2>1 DEF Cancel
  <2> QED
    BY <1>8, <2>2, <2>3 DEF Cancel
<1>9. CASE SetOnDisconnectCallback
  BY <1>9 DEF SetOnDisconnectCallback
<1>10. CASE BLEStep
  <2>1. \/ losses' = losses
        \/ losses' = losses \cup {delegate} /\ delegate # 0
    BY <1>10 DEF BLEStep, LoseLink, BLEThread, TellDelegate, TestCallback,
                 CallCallback
  <2>2. losses' \subseteq Networks
    <3>1. delegate # 0 => delegate \in Networks
      BY DEF Networks
    <3> QED
      BY <2>1, <3>1
  <2>3. entered' \in 0 .. MaxInits
    BY <1>10 DEF BLEStep, LoseLink, BLEThread, TellDelegate, TestCallback,
                 CallCallback
  <2>4. UNCHANGED <<networks, app, calls, thread, delegate, cancelled>>
    BY <1>10 DEF BLEStep, LoseLink, BLEThread, TellDelegate, TestCallback,
                 CallCallback
  <2> QED
    BY <2>2, <2>3, <2>4
<1>11. CASE ThreadStep
  <2>1. CASE PostEnd
    <3>1. bw_threadRunning' = [bw_threadRunning EXCEPT ![held] = 1]
      BY <2>1, NoTokenToPost DEF PostEnd
    <3>2. bw_threadRunning' \in [Networks -> 0 .. 1]
      BY <3>1, ValueStaysTyped
    <3> QED
      BY <2>1, <3>2 DEF PostEnd
  <2>2. CASE TryRunning
    <3>1. held \in Networks
      BY <2>2 DEF TryRunning, IInv, ThreadInv
    <3>2. bw_threadRunning' \in [Networks -> 0 .. 1]
      BY <2>2, <3>1, ValueStaysTyped DEF TryRunning
    <3> QED
      BY <2>2, <3>2 DEF TryRunning
  <2>3. CASE StopSeen
    <3>1. held \in Networks
      BY <2>3 DEF StopSeen, IInv, ThreadInv
    <3>2. bw_sem' \in [Networks -> Nat]
      BY <2>3, <3>1, ValueStaysTyped DEF StopSeen
    <3> QED
      BY <2>3, <3>2 DEF StopSeen
  <2>4. CASE StartThread \/ LoadObject \/ Progress \/ Interrupted
    BY <2>4 DEF StartThread, LoadObject, Progress, Interrupted, vars
  <2> QED
    BY <1>11, <2>1, <2>2, <2>3, <2>4 DEF ThreadStep, BandwidthThread
<1>12. CASE DisconnectStep
  <2> PICK c \in Callers : Disconnect(c)
    BY <1>12 DEF DisconnectStep
  <2>1. CASE EnterDisconnect(c)
    BY <2>1 DEF EnterDisconnect
  <2>2. CASE ClearDelegate(c)
    BY <2>2 DEF ClearDelegate
  <2>3. CASE PostStop(c)
    <3>1. target[c] \in Networks
      BY <2>3 DEF PostStop, DisconnectGoto, IInv, LockInv
    <3>2. bw_sem' \in [Networks -> Nat]
      BY <2>3, <3>1, ValueStaysTyped DEF PostStop
    <3> QED
      BY <2>3, <3>2 DEF PostStop
  <2>4. CASE WaitForThread(c)
    <3>1. target[c] \in Networks
      BY <2>4 DEF WaitForThread, DisconnectGoto, IInv, LockInv
    <3>2. bw_threadRunning' \in [Networks -> 0 .. 1]
      BY <2>4, <3>1, ValueStaysTyped DEF WaitForThread
    <3> QED
      BY <2>4, <3>2 DEF WaitForThread
  <2>5. CASE DropPeripheral(c)
    BY <2>5 DEF DropPeripheral
  <2> QED
    BY <2>1, <2>2, <2>3, <2>4, <2>5 DEF Disconnect
<1>13. CASE UNCHANGED vars
  BY <1>13 DEF vars
<1> QED
  BY NextSteps, <1>2, <1>3, <1>4, <1>5, <1>6, <1>7, <1>8, <1>9, <1>10, <1>11,
     <1>12, <1>13

LEMMA FlagsKept ==
  ASSUME IInv, [Next]_vars
  PROVE  FlagsTyped' /\ PcsTyped'
<1> USE DEF networks, app, calls, thread, ble, history
<1>1. FlagsTyped /\ PcsTyped
  BY DEF IInv, TypeOK
<1> USE <1>1 DEF FlagsTyped, PcsTyped, Connecting
<1>2. CASE New \/ PostRunning \/ KeepPeripheral \/ SetDelegate
  BY <1>2 DEF New, PostRunning, KeepPeripheral, SetDelegate, Goto
<1>3. CASE ConnectStep
  BY <1>3 DEF ConnectStep, ConnectToPeripheral, Discover, SetNotifications,
              InitFails, Goto
<1>4. CASE Close \/ ClearCallback \/ Release
  BY <1>4 DEF Close, ClearCallback, Release, Goto
<1>5. CASE Cancel \/ SetOnDisconnectCallback
  BY <1>5 DEF Cancel, SetOnDisconnectCallback
<1>6. CASE BLEStep
  BY <1>6 DEF BLEStep, LoseLink, BLEThread, TellDelegate, TestCallback,
              CallCallback
<1>7. CASE ThreadStep
  BY <1>7 DEF ThreadStep, StartThread, BandwidthThread, LoadObject, TryRunning,
              Progress, StopSeen, Interrupted, PostEnd, vars
<1>8. CASE DisconnectStep
  <2> PICK c \in Callers : Disconnect(c)
    BY <1>8 DEF DisconnectStep
  <2>1. CASE EnterDisconnect(c)
    BY <2>1 DEF EnterDisconnect
  <2>2. CASE ClearDelegate(c) \/ PostStop(c) \/ WaitForThread(c)
    BY <2>2 DEF ClearDelegate, PostStop, WaitForThread, DisconnectGoto
  <2>3. CASE DropPeripheral(c)
    BY <2>3 DEF DropPeripheral, DisconnectGoto
  <2> QED
    BY <2>1, <2>2, <2>3 DEF Disconnect
<1>9. CASE UNCHANGED vars
  BY <1>9 DEF vars
<1> QED
  BY NextSteps, <1>2, <1>3, <1>4, <1>5, <1>6, <1>7, <1>8, <1>9

(***************************************************************************)
(* The manager's network and who works for it.                             *)
(***************************************************************************)
LEMMA AppKept ==
  ASSUME IInv, [Next]_vars
  PROVE  AppInv'
<1> USE BLEAssumption DEF networks, app, calls, thread, ble, history
<1>1. TypeOK /\ AppInv
  BY DEF IInv
<1> USE <1>1 DEF TypeOK, CountersTyped, PcsTyped, AppInv, Callers
<1>2. CASE New
  BY <1>2 DEF New, Goto
<1>3. CASE ConnectStep
  BY <1>3 DEF ConnectStep, ConnectToPeripheral, Discover, SetNotifications,
              InitFails, Goto
<1>4. CASE PostRunning \/ KeepPeripheral \/ SetDelegate \/ Close
  BY <1>4 DEF PostRunning, KeepPeripheral, SetDelegate, Close, Goto
<1>5. CASE ClearCallback \/ Release
  BY <1>5 DEF ClearCallback, Release, Goto
<1>6. CASE Cancel
  BY <1>6 DEF Cancel
<1>7. CASE SetOnDisconnectCallback \/ BLEStep \/ ThreadStep \/ UNCHANGED vars
  BY <1>7 DEF SetOnDisconnectCallback, BLEStep, LoseLink, BLEThread,
              TellDelegate, TestCallback, CallCallback, ThreadStep, StartThread,
              BandwidthThread, LoadObject, TryRunning, Progress, StopSeen,
              Interrupted, PostEnd, vars
<1>8. CASE DisconnectStep
  <2> PICK c \in Callers : Disconnect(c)
    BY <1>8 DEF DisconnectStep
  <2>1. /\ UNCHANGED <<object, inits, appPc, target>>
        /\ at[c] # "out" /\ \A d \in Callers : d # c => at'[d] = at[d]
    BY DEF Disconnect, EnterDisconnect, ClearDelegate, PostStop, WaitForThread,
           DropPeripheral, DisconnectGoto
  <2> QED
    BY <2>1
<1> QED
  BY NextSteps, <1>2, <1>3, <1>4, <1>5, <1>6, <1>7, <1>8

(***************************************************************************)
(* Inside the monitor: one caller at a time, on a connected network.       *)
(***************************************************************************)
LEMMA LockKept ==
  ASSUME IInv, [Next]_vars
  PROVE  LockInv'
<1> USE DEF networks, app, calls, thread, ble, history
<1>1. TypeOK /\ LockInv /\ AppInv
  BY DEF IInv
<1> USE <1>1 DEF TypeOK, FlagsTyped, PcsTyped, LockInv, Callers, Busy
<1>2. CASE New \/ PostRunning \/ SetDelegate \/ Close \/ Release
  BY <1>2 DEF New, PostRunning, SetDelegate, Close, Release
<1>3. CASE ConnectStep
  BY <1>3 DEF ConnectStep, ConnectToPeripheral, Discover, SetNotifications,
              InitFails
<1>4. CASE KeepPeripheral
  BY <1>4 DEF KeepPeripheral
<1>5. CASE ClearCallback
  <2>1. object \in Networks /\ at["app"] = "out"
    BY <1>5, ThereIsANetwork DEF ClearCallback, Goto, AppInv
  <2> QED
    BY <1>5, <2>1 DEF ClearCallback, CountersTyped
<1>6. CASE Cancel
  <2>1. object \in Networks
    BY <1>6, ThereIsANetwork DEF Cancel, Connecting
  <2> QED
    BY <1>6, <2>1 DEF Cancel, CountersTyped
<1>7. CASE SetOnDisconnectCallback \/ BLEStep \/ ThreadStep \/ UNCHANGED vars
  BY <1>7 DEF SetOnDisconnectCallback, BLEStep, LoseLink, BLEThread,
              TellDelegate, TestCallback, CallCallback, ThreadStep, StartThread,
              BandwidthThread, LoadObject, TryRunning, Progress, StopSeen,
              Interrupted, PostEnd, vars
<1>8. CASE DisconnectStep
  <2> PICK c \in Callers : Disconnect(c)
    BY <1>8 DEF DisconnectStep
  <2>1. CASE EnterDisconnect(c)
    BY <2>1 DEF EnterDisconnect
  <2>2. CASE ClearDelegate(c) \/ PostStop(c) \/ WaitForThread(c)
    BY <2>2 DEF ClearDelegate, PostStop, WaitForThread, DisconnectGoto
  <2>3. CASE DropPeripheral(c)
    BY <2>3 DEF DropPeripheral, DisconnectGoto
  <2> QED
    BY <2>1, <2>2, <2>3 DEF Disconnect
<1> QED
  BY NextSteps, <1>2, <1>3, <1>4, <1>5, <1>6, <1>7, <1>8

(***************************************************************************)
(* Which network keeps a peripheral.                                       *)
(***************************************************************************)
LEMMA PeripheralKept ==
  ASSUME IInv, [Next]_vars
  PROVE  PeripheralInv'
<1> USE BLEAssumption DEF networks, app, calls, thread, ble, history
<1>1. TypeOK /\ LockInv /\ AppInv /\ PeripheralInv
  BY DEF IInv
<1> USE <1>1 DEF TypeOK, CountersTyped, FlagsTyped, PcsTyped, PeripheralInv,
                 Callers
<1>2. CASE New
  BY <1>2 DEF New, Goto, AppInv, Networks
<1>3. CASE ConnectStep
  BY <1>3 DEF ConnectStep, ConnectToPeripheral, Discover, SetNotifications,
              InitFails, Goto
<1>4. CASE PostRunning \/ SetDelegate \/ Close
  BY <1>4 DEF PostRunning, SetDelegate, Close, Goto
<1>5. CASE KeepPeripheral
  <2>1. object \in Networks /\ object = inits
    BY <1>5, ThereIsANetwork DEF KeepPeripheral, Goto, AppInv
  <2> QED
    BY <1>5, <2>1 DEF KeepPeripheral, Goto
<1>6. CASE ClearCallback
  BY <1>6 DEF ClearCallback, Goto
<1>7. CASE Release
  BY <1>7 DEF Release, Goto
<1>8. CASE Cancel
  BY <1>8 DEF Cancel
<1>9. CASE SetOnDisconnectCallback \/ BLEStep \/ ThreadStep \/ UNCHANGED vars
  BY <1>9 DEF SetOnDisconnectCallback, BLEStep, LoseLink, BLEThread,
              TellDelegate, TestCallback, CallCallback, ThreadStep, StartThread,
              BandwidthThread, LoadObject, TryRunning, Progress, StopSeen,
              Interrupted, PostEnd, vars
<1>10. CASE DisconnectStep
  <2> PICK c \in Callers : Disconnect(c)
    BY <1>10 DEF DisconnectStep
  <2>1. CASE EnterDisconnect(c)
    BY <2>1 DEF EnterDisconnect, AppInv, LockInv
  <2>2. CASE ClearDelegate(c) \/ PostStop(c) \/ WaitForThread(c)
    BY <2>2 DEF ClearDelegate, PostStop, WaitForThread, DisconnectGoto
  <2>3. CASE DropPeripheral(c)
    BY <2>3 DEF DropPeripheral, DisconnectGoto, AppInv, LockInv, Busy
  <2> QED
    BY <2>1, <2>2, <2>3 DEF Disconnect
<1> QED
  BY NextSteps, <1>2, <1>3, <1>4, <1>5, <1>6, <1>7, <1>8, <1>9, <1>10

(***************************************************************************)
(* The token of bw_threadRunning: posted once, taken once.                 *)
(***************************************************************************)
LEMMA ThreadKept ==
  ASSUME IInv, [Next]_vars
  PROVE  ThreadInv'
<1> USE BLEAssumption DEF networks, app, calls, thread, ble, history
<1>1. TypeOK /\ ThreadInv
  BY DEF IInv
<1> USE <1>1 DEF TypeOK, CountersTyped, PcsTyped, ThreadInv
<1>2. CASE ThreadStep
  BY <1>2 DEF ThreadStep, StartThread, BandwidthThread, LoadObject, TryRunning,
              Progress, StopSeen, Interrupted, PostEnd, vars, Networks
<1>3. CASE UNCHANGED vars
  BY <1>3 DEF vars
<1>4. CASE ~ThreadStep /\ Next
  <2>1. UNCHANGED thread
    BY <1>4 DEF Next, ThreadStep, New, Connect, ConnectToPeripheral, Discover,
                PostRunning, KeepPeripheral, SetDelegate, SetNotifications,
                InitFails, Close, Delete, ClearCallback, Disconnect,
                EnterDisconnect, ClearDelegate, PostStop, WaitForThread,
                DropPeripheral, Release, Cancel, SetOnDisconnectCallback,
                LoseLink, BLEThread, TellDelegate, TestCallback, CallCallback
  <2> QED
    BY <2>1
<1> QED
  BY <1>2, <1>3, <1>4

LEMMA TokenKept ==
  ASSUME IInv, [Next]_vars
  PROVE  TokenInv'
<1> USE DEF networks, app, calls, thread, ble, history
<1>1. TypeOK /\ TokenInv
  BY DEF IInv
<1>2. /\ bw_threadRunning \in [Networks -> 0 .. 1]
      /\ at \in [Callers ->
                   {"out", "enter", "delegate", "stop", "wait", "drop"}]
  BY <1>1 DEF TypeOK, CountersTyped, PcsTyped
<1> USE <1>1, <1>2 DEF TokenInv
<1>3. CASE New
  BY <1>3 DEF New, Goto, Owed, Inside
<1>4. CASE ConnectStep
  BY <1>4 DEF ConnectStep, ConnectToPeripheral, Discover, SetNotifications,
              InitFails, Goto, Owed, Inside
<1>5. CASE PostRunning
  <2>1. object \in Networks /\ bw_threadRunning[object] = 0 /\ ~Owed(object)
    BY <1>5, ThereIsANetwork, NoTokenToPost DEF PostRunning, Goto
  <2> QED
    BY <1>5, <2>1 DEF PostRunning, Goto, Owed, Inside
<1>6. CASE KeepPeripheral
  <2>1. object \in Networks /\ ~peripheral[object]
    BY <1>6, ThereIsANetwork DEF KeepPeripheral, Goto, IInv, PeripheralInv
  <2>2. \A c \in Callers : at[c] = "drop" => target[c] # object
    BY <2>1 DEF IInv, LockInv, Busy
  <2>3. peripheral \in [Networks -> BOOLEAN]
    BY DEF TypeOK, FlagsTyped
  <2>4. \A n \in Networks : Owed(n)' <=> Owed(n)
    BY <1>6, <2>1, <2>2, <2>3 DEF KeepPeripheral, Goto, Owed
  <2> QED
    BY <1>6, <2>4 DEF KeepPeripheral, Inside
<1>7. CASE SetDelegate \/ Close \/ Release
  BY <1>7 DEF SetDelegate, Close, Release, Goto, Owed, Inside
<1>8. CASE ClearCallback
  <2>1. at["app"] = "out"
    BY <1>8 DEF ClearCallback, Goto, IInv, AppInv
  <2>2. \A n \in Networks : Owed(n)' <=> Owed(n)
    BY <1>8, <2>1 DEF ClearCallback, Goto, Owed, Callers
  <2> QED
    BY <1>8, <2>2 DEF ClearCallback, Inside
<1>9. CASE Cancel
  <2>1. \A n \in Networks : Owed(n)' <=> Owed(n)
    BY <1>9 DEF Cancel, Owed, Callers
  <2> QED
    BY <1>9, <2>1 DEF Cancel, Inside
<1>10. CASE SetOnDisconnectCallback \/ BLEStep \/ UNCHANGED vars
  BY <1>10 DEF SetOnDisconnectCallback, BLEStep, LoseLink, BLEThread,
               TellDelegate, TestCallback, CallCallback, vars, Owed, Inside
<1>11. CASE ThreadStep
  <2>1. \A n \in Networks : Owed(n)' <=> Owed(n)
    BY <1>11 DEF ThreadStep, StartThread, BandwidthThread, LoadObject,
                 TryRunning, Progress, StopSeen, Interrupted, PostEnd, vars,
                 Owed
  <2>2. CASE TryRunning
    <3>1. held \in Networks
      BY <2>2 DEF TryRunning, IInv, ThreadInv
    <3> QED
      BY <2>1, <2>2, <3>1 DEF TryRunning, Inside
  <2>3. CASE PostEnd
    <3>1. held \in Networks /\ bw_threadRunning[held] = 0
      BY <2>3, NoTokenToPost DEF PostEnd
    <3> QED
      BY <2>1, <2>3, <3>1 DEF PostEnd, Inside
  <2>4. CASE StartThread \/ LoadObject \/ Progress \/ StopSeen \/ Interrupted
    BY <2>1, <2>4 DEF StartThread, LoadObject, Progress, StopSeen, Interrupted,
                      vars, Inside
  <2> QED
    BY <1>11, <2>2, <2>3, <2>4 DEF ThreadStep, BandwidthThread
<1>12. CASE DisconnectStep
  <2> PICK c \in Callers : Disconnect(c)
    BY <1>12 DEF DisconnectStep
  <2>1. CASE EnterDisconnect(c) \/ ClearDelegate(c) \/ PostStop(c)
    <3>1. \A n \in Networks : Owed(n)' <=> Owed(n)
      BY <2>1 DEF EnterDisconnect, ClearDelegate, PostStop, DisconnectGoto, Owed
    <3> QED
      BY <2>1, <3>1 DEF EnterDisconnect, ClearDelegate, PostStop, Inside
  <2> PICK n : n = target[c]
    OBVIOUS
  <2>2. at[c] \in Busy => n \in Networks /\ ~(appPc = "keep" /\ object = n)
    BY DEF IInv, LockInv, PeripheralInv, Busy
  <2>3. CASE WaitForThread(c)
    <3>1. n \in Networks /\ ~Owed(n)'
      BY <2>2, <2>3 DEF WaitForThread, DisconnectGoto, Owed, Busy
    <3>2. \A m \in Networks \ {n} : Owed(m)' <=> Owed(m)
      BY <2>3 DEF WaitForThread, DisconnectGoto, Owed
    <3>3. bw_threadRunning[n] = 1 /\ ~Inside(n)
      BY <2>3, <3>1 DEF WaitForThread
    <3>4. \A m \in Networks : Inside(m)' <=> Inside(m)
      BY <2>3 DEF WaitForThread, Inside
    <3>5. bw_threadRunning' = [bw_threadRunning EXCEPT ![n] = 0]
      BY <2>3, <3>3 DEF WaitForThread
    <3> QED
      BY <3>1, <3>2, <3>3, <3>4, <3>5
  <2>4. CASE DropPeripheral(c)
    <3>1. n \in Networks /\ ~Owed(n)
      BY <2>2, <2>4 DEF DropPeripheral, DisconnectGoto, Owed, Busy
    <3>2. \A m \in Networks : Owed(m)' <=> Owed(m)
      <4>1. peripheral \in [Networks -> BOOLEAN]
        BY DEF TypeOK, FlagsTyped
      <4>2. ~Owed(n)'
        BY <2>2, <2>4, <4>1, <3>1 DEF DropPeripheral, DisconnectGoto, Owed, Busy
      <4>3. \A m \in Networks \ {n} : Owed(m)' <=> Owed(m)
        BY <2>4, <4>1 DEF DropPeripheral, DisconnectGoto, Owed
      <4> QED
        BY <3>1, <4>2, <4>3
    <3> QED
      BY <2>4, <3>2 DEF DropPeripheral, Inside
  <2> QED
    BY <2>1, <2>3, <2>4 DEF Disconnect
<1> QED
  BY NextSteps, <1>3, <1>4, <1>5, <1>6, <1>7, <1>8, <1>9, <1>10, <1>11, <1>12

(***************************************************************************)
(* The delegate, and what is known of a lost link.                         *)
(***************************************************************************)
LEMMA CancelledOrClosed ==
  ASSUME IInv, NEW c \in Callers, at[c] \in Busy
  PROVE  object \in cancelled \/ (c = "app" /\ appPc = "disconnect")
BY DEF IInv, LockInv, AppInv, PeripheralInv, Callers, Busy

LEMMA DelegateKept ==
  ASSUME IInv, [Next]_vars
  PROVE  DelegateInv'
<1> USE DEF networks, app, calls, thread, ble, history
<1>1. TypeOK /\ AppInv /\ PeripheralInv /\ DelegateInv
  BY DEF IInv
<1>2. at \in [Callers -> {"out", "enter", "delegate", "stop", "wait", "drop"}]
  BY <1>1 DEF TypeOK, PcsTyped
<1>3. peripheral \in [Networks -> BOOLEAN]
  BY <1>1 DEF TypeOK, FlagsTyped
<1> USE <1>1, <1>2, <1>3 DEF DelegateInv
<1>4. CASE New
  BY <1>4 DEF New, Goto, AppInv
<1>5. CASE ConnectStep
  BY <1>5 DEF ConnectStep, ConnectToPeripheral, Discover, SetNotifications,
              InitFails, Goto
<1>6. CASE PostRunning \/ KeepPeripheral \/ Close
  BY <1>6 DEF PostRunning, KeepPeripheral, Close, Goto
<1>7. CASE SetDelegate
  BY <1>7 DEF SetDelegate, Goto, AppInv, PeripheralInv
<1>8. CASE ClearCallback
  BY <1>8 DEF ClearCallback, Goto, Callers
<1>9. CASE Release
  BY <1>9 DEF Release, Goto, PeripheralInv
<1>10. CASE Cancel
  BY <1>10 DEF Cancel, Connecting
<1>11. CASE SetOnDisconnectCallback \/ BLEStep \/ ThreadStep \/ UNCHANGED vars
  BY <1>11 DEF SetOnDisconnectCallback, BLEStep, LoseLink, BLEThread,
               TellDelegate, TestCallback, CallCallback, ThreadStep,
               StartThread, BandwidthThread, LoadObject, TryRunning, Progress,
               StopSeen, Interrupted, PostEnd, vars
<1>12. CASE DisconnectStep
  <2> PICK c \in Callers : Disconnect(c)
    BY <1>12 DEF DisconnectStep
  <2>1. CASE EnterDisconnect(c)
    BY <2>1 DEF EnterDisconnect, AppInv, Callers
  <2>2. CASE ClearDelegate(c)
    <3>1. object \in cancelled \/ appPc = "disconnect"
      BY <2>2, CancelledOrClosed DEF ClearDelegate, DisconnectGoto, Busy
    <3> QED
      BY <2>2, <3>1 DEF ClearDelegate
  <2>3. CASE PostStop(c) \/ WaitForThread(c)
    BY <2>3 DEF PostStop, WaitForThread, DisconnectGoto, Callers
  <2>4. CASE DropPeripheral(c)
    <3>1. object \in cancelled \/ c = "app"
      BY <2>4, CancelledOrClosed DEF DropPeripheral, DisconnectGoto, Busy
    <3> QED
      BY <2>4, <3>1 DEF DropPeripheral, DisconnectGoto
  <2> QED
    BY <2>1, <2>2, <2>3, <2>4 DEF Disconnect
<1> QED
  BY NextSteps, <1>4, <1>5, <1>6, <1>7, <1>8, <1>9, <1>10, <1>11, <1>12

LEMMA LinkLossKept ==
  ASSUME IInv, [Next]_vars
  PROVE  LinkLossSeen'
<1> USE DEF networks, app, calls, thread, ble, history
<1>1. LinkLossSeen
  BY DEF IInv
<1> USE <1>1 DEF LinkLossSeen
<1>2. CASE New \/ PostRunning \/ KeepPeripheral \/ SetDelegate
  BY <1>2 DEF New, PostRunning, KeepPeripheral, SetDelegate, Goto
<1>3. CASE ConnectStep
  BY <1>3 DEF ConnectStep, ConnectToPeripheral, Discover, SetNotifications,
              InitFails, Goto
<1>4. CASE Close \/ ClearCallback \/ Release
  BY <1>4 DEF Close, ClearCallback, Release, Goto
<1>5. CASE Cancel
  BY <1>5 DEF Cancel, Connecting
<1>6. CASE BLEStep
  <2>1. appPc = "open" /\ object \notin cancelled =>
          object # 0 /\ delegate = object
    BY DEF IInv, DelegateInv, AppInv
  <2> QED
    BY <1>6, <2>1 DEF BLEStep, LoseLink, BLEThread, TellDelegate, TestCallback,
                      CallCallback
<1>7. CASE SetOnDisconnectCallback \/ ThreadStep \/ UNCHANGED vars
  BY <1>7 DEF SetOnDisconnectCallback, ThreadStep, StartThread,
              BandwidthThread, LoadObject, TryRunning, Progress, StopSeen,
              Interrupted, PostEnd, vars
<1>8. CASE DisconnectStep
  <2> PICK c \in Callers : Disconnect(c)
    BY <1>8 DEF DisconnectStep
  <2>1. CASE DropPeripheral(c)
    <3>1. object \in cancelled \/ appPc = "disconnect"
      BY <2>1, CancelledOrClosed DEF DropPeripheral, DisconnectGoto, Busy
    <3> QED
      BY <2>1, <3>1 DEF DropPeripheral
  <2>2. CASE ~DropPeripheral(c)
    BY <2>2 DEF Disconnect, EnterDisconnect, ClearDelegate, PostStop,
                WaitForThread
  <2> QED
    BY <2>1, <2>2
<1> QED
  BY NextSteps, <1>2, <1>3, <1>4, <1>5, <1>6, <1>7, <1>8

(***************************************************************************)
(* The inductive invariant, and what it implies.                           *)
(***************************************************************************)
LEMMA Inductive == Spec => []IInv
<1>1. Init => IInv
  BY Initially
<1>2. IInv /\ [Next]_vars => IInv'
  BY CountersKept, FlagsKept, TokenKept, ThreadKept, LockKept, AppKept,
     PeripheralKept, DelegateKept, LinkLossKept DEF IInv, TypeOK
<1> QED
  BY <1>1, <1>2, PTL DEF Spec

\* Every variable keeps its type: bw_threadRunning is never above one.
THEOREM TypeCorrect == Spec => []TypeOK
<1>1. IInv => TypeOK
  BY DEF IInv
<1> QED
  BY <1>1, Inductive, PTL

\* A network that has been released has no bandwidth thread in its loop,
\* whoever disconnected it (BLENetwork.m:351-377, 534-563).
THEOREM NoThreadLeftHolds == Spec => []NoThreadLeft
<1>1. IInv => NoThreadLeft
  <2> SUFFICES ASSUME IInv, threadPc \in {"loop", "post"} PROVE held = object
    BY DEF NoThreadLeft
  <2>1. held \in Networks /\ Inside(held)
    BY DEF IInv, ThreadInv, Inside
  <2>2. Owed(held)
    BY <2>1 DEF IInv, TokenInv
  <2> QED
    BY <2>1, <2>2 DEF IInv, PeripheralInv, Owed
<1> QED
  BY <1>1, Inductive, PTL

\* The BLE manager keeps no released network as its delegate, unless a
\* Cancel came in the middle of Init (BLENetwork.m:269, 366).
THEOREM DelegateReleasedHolds == Spec => []DelegateReleased
<1>1. IInv => DelegateReleased
  BY DEF IInv, DelegateInv, DelegateReleased
<1> QED
  BY <1>1, Inductive, PTL

\* An open manager has been told of the loss of its link, or is about to be
\* (BLENetwork.m:269-318, 566-574).
THEOREM LinkLossSeenHolds == Spec => []LinkLossSeen
<1>1. IInv => LinkLossSeen
  BY DEF IInv
<1> QED
  BY <1>1, Inductive, PTL

(***************************************************************************)
(* Who waits in disconnect waits for a semaphore that is posted, or that   *)
(* the bandwidth thread has and is about to post: it has seen the stop, or *)
(* will.  Who waits for the monitor waits for one of those.                *)
(***************************************************************************)
NeverStuck ==
  \A c \in Callers :
    /\ at[c] = "wait" /\ bw_threadRunning[target[c]] = 0 =>
         /\ held = target[c]
         /\ threadPc = "post" \/ (threadPc = "loop" /\ bw_sem[held] > 0)
    /\ at[c] = "enter" /\ lock # "free" => at[lock] \in Busy

\* A stop stays posted until the thread leaves its loop for it.
StopPosted ==
  \A c \in Callers :
    at[c] = "wait" =>
      \/ bw_sem[target[c]] > 0
      \/ held = target[c] /\ threadPc \in {"post", "done"}

LEMMA StopKept ==
  ASSUME IInv, StopPosted, [Next]_vars
  PROVE  StopPosted'
<1> USE BLEAssumption DEF networks, app, calls, thread, ble, history
<1>1. /\ StopPosted /\ PcsTyped /\ LockInv /\ bw_sem \in [Networks -> Nat]
      /\ ThreadInv /\ AppInv
  BY DEF IInv, TypeOK, CountersTyped
<1> USE <1>1 DEF StopPosted, PcsTyped
<1>2. CASE \/ New \/ ConnectStep \/ PostRunning \/ KeepPeripheral
           \/ SetDelegate \/ Close \/ Release \/ SetOnDisconnectCallback
           \/ BLEStep \/ UNCHANGED vars
  <2>1. UNCHANGED <<at, target, bw_sem, held, threadPc>>
    BY <1>2 DEF New, ConnectStep, ConnectToPeripheral, Discover,
         SetNotifications, InitFails, PostRunning, KeepPeripheral,
         SetDelegate, Close, Release, SetOnDisconnectCallback, BLEStep,
         LoseLink, BLEThread, TellDelegate, TestCallback, CallCallback, vars
  <2> QED
    BY <2>1
<1>3. CASE ClearCallback
  <2>1. at["app"] = "out"
    BY <1>3 DEF ClearCallback, Goto, AppInv
  <2>2. /\ at' = [at EXCEPT !["app"] = "enter"]
        /\ target' = [target EXCEPT !["app"] = object]
        /\ UNCHANGED <<bw_sem, held, threadPc>>
    BY <1>3 DEF ClearCallback
  <2> QED
    BY <2>1, <2>2 DEF Callers
<1>4. CASE Cancel
  BY <1>4 DEF Cancel, Callers
<1>5. CASE ThreadStep
  <2>1. UNCHANGED <<at, target>>
    BY <1>5 DEF ThreadStep, StartThread, BandwidthThread, LoadObject,
         TryRunning, Progress, StopSeen, Interrupted, PostEnd, vars
  <2>2. CASE StopSeen
    BY <2>1, <2>2 DEF StopSeen, ThreadInv
  <2>3. CASE LoadObject \/ StartThread
    BY <2>1, <2>3 DEF LoadObject, StartThread
  <2>4. CASE TryRunning \/ Progress \/ Interrupted \/ PostEnd
    BY <2>1, <2>4 DEF TryRunning, Progress, Interrupted, PostEnd, vars
  <2> QED
    BY <1>5, <2>2, <2>3, <2>4 DEF ThreadStep, BandwidthThread
<1>6. CASE DisconnectStep
  <2> PICK c \in Callers : Disconnect(c)
    BY <1>6 DEF DisconnectStep
  <2>1. CASE PostStop(c)
    <3>1. target[c] \in Networks /\ lock = c
      BY <2>1 DEF PostStop, DisconnectGoto, LockInv, Busy
    <3>2. \A d \in Callers : at[d] = "wait" => d = c
      BY <3>1 DEF LockInv, Busy
    <3>3. bw_sem'[target[c]] > 0 /\ UNCHANGED <<target, held, threadPc>>
      BY <2>1, <3>1 DEF PostStop
    <3>4. \A d \in Callers : at'[d] = "wait" => d = c
      BY <2>1, <3>2 DEF PostStop, DisconnectGoto
    <3> QED
      BY <3>3, <3>4
  <2>2. CASE ~PostStop(c)
    BY <2>2 DEF Disconnect, EnterDisconnect, ClearDelegate, WaitForThread,
                DropPeripheral, DisconnectGoto
  <2> QED
    BY <2>1, <2>2
<1> QED
  BY NextSteps, <1>2, <1>3, <1>4, <1>5, <1>6

\* Close, an Init that fails and a Cancel cannot deadlock with each other
\* or with the bandwidth thread: what CloseReturns says short of the
\* scheduling (BLENetwork.m:351-377, 534-563).
THEOREM CloseNeverStuck == Spec => []NeverStuck
<1>1. Init => StopPosted
  BY DEF Init, StopPosted, Callers
<1>2. IInv /\ StopPosted /\ [Next]_vars => StopPosted'
  BY StopKept
<1>3. IInv /\ StopPosted => NeverStuck
  <2> SUFFICES ASSUME IInv, StopPosted, NEW c \in Callers
               PROVE  /\ at[c] = "wait" /\ bw_threadRunning[target[c]] = 0 =>
                           /\ held = target[c]
                           /\ \/ threadPc = "post"
                              \/ threadPc = "loop" /\ bw_sem[held] > 0
                      /\ at[c] = "enter" /\ lock # "free" => at[lock] \in Busy
    BY DEF NeverStuck
  <2>1. ASSUME at[c] = "wait", bw_threadRunning[target[c]] = 0
        PROVE  /\ held = target[c]
               /\ threadPc = "post" \/ (threadPc = "loop" /\ bw_sem[held] > 0)
    <3>1. target[c] \in Networks /\ peripheral[target[c]] /\ lock = c
      BY <2>1 DEF IInv, LockInv, Busy
    <3>2. \A d \in Callers : at[d] # "drop"
      BY <2>1, <3>1 DEF IInv, LockInv, Busy
    <3>3. Owed(target[c])
      BY <3>1, <3>2 DEF Owed
    <3>4. Inside(target[c])
      BY <2>1, <3>1, <3>3 DEF IInv, TokenInv
    <3> QED
      BY <2>1, <3>4 DEF Inside, StopPosted
  <2>2. ASSUME at[c] = "enter", lock # "free"
        PROVE  at[lock] \in Busy
    BY <2>2 DEF IInv, TypeOK, PcsTyped, LockInv
  <2> QED
    BY <2>1, <2>2
<1> QED
  BY <1>1, <1>2, <1>3, Inductive, PTL DEF Spec
=============================================================================
