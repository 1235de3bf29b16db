# A verification of libARNetworkAL

libARNetworkAL gives the network layer above it (libARNetwork) one interface,
the *manager*, over several transports: UDP ("Wifi"), a multiplexed channel
("Mux"), and Bluetooth LE on iOS and on Android.  A client calls `Init` for
one transport, then runs a sending thread (`pushFrame`, `send`) and a receiving
thread (`receive`, `popFrame`), may start a bandwidth thread, is told by a
callback when the link is lost, calls `Unlock` to get its threads out of the
manager and ends with `Close` and `Delete`.

This directory holds TLA+ modules translated from that code, TLC
configurations that check them on small instances, and proofs, checked by
TLAPS, of theorems about them for every value of their constants.

Contents: 1 inventory, 2 how the project is divided, 3 the modules, 4 the
runs, 5 fairness, 6 the proofs, 7 what the code does that differs from its
documentation, 8 what is not modelled.

References such as `c:893` are lines of `src/Sources/Wifi/ARNETWORKAL_WifiNetwork.c`;
others name the file: `Manager.c`, `Manager.h`, `Mux.c`
(`ARNETWORKAL_MuxNetwork.c`), `JNI.c` (`ARNETWORKAL_JNIBLENetwork.c`),
`JNIManager.c`, `java` (`ARNetworkALBLENetwork.java`), `.m`
(`ARNETWORKAL_BLENetwork.m`), `Error.h` (`ARNETWORKAL_Error.h`).

## 1. Inventory

| Component | State it keeps | Operations |
|---|---|---|
| Manager (`ARNETWORKAL_Manager.c`) | sender and receiver object, a function pointer per operation, limits, dump file | New, InitXxx, CancelXxx, CloseXxx, Delete, wrappers that call through the pointers |
| Wifi sender | batch buffer, its size, write cursor, size of the socket's buffer, `isDisconnected`, callback and its data, pipe, bandwidth counters | Connect, PushFrame, Send, SetSendBufferSize, GetSendBufferSize |
| Wifi receiver | receive buffer, its size, read cursor, date of the last reception, `recvIsFlushed`, `isDisconnected`, callback and its data, pipe, bandwidth counters | Bind, Receive, Flush, PopFrame |
| Wifi manager | both objects at once | New, Signal (Unlock), SetOnDisconnectCallback, Delete |
| Bandwidth thread | two semaphores per object (`bw_sem`, `bw_threadRunning`), ring of counters | BandwidthThread, GetBandwidth |
| Mux network | channel, queue, buffer received, buffer popped, `disconnected`, callback, a reference to the mux context | Init, PushFrame, Receive, PopFrame, Unlock, Close |
| BLE on Android, C side | C object: global reference to its Java twin, array pinned for the client, callback | New, Connect, Cancel, Delete, PushFrame, PopFrame, Receive, callback from Java |
| BLE on Android, Java side | services, list of notifications received, a monitor | connect, cancel, disconnect, receive, popFrame, pushFrame, onBLEDisconnect |
| BLE on iOS (`ARNETWORKAL_BLENetwork.m`) | peripheral, services, two semaphores of a bandwidth thread, a monitor, callback | connect, disconnect, Cancel, Delete, bw_thread, receive, popFrame, pushFrame, onBLEDisconnect |
| Java manager (`ARNetworkALManager.java`, `JNIManager.c`) | address of the C manager, `m_initOk` | constructor, dispose, one native call per operation |
| Errors, frames, enums | none | constants and generated string tables |

### How they interact

The sender and the receiver of a Wifi manager share nothing but the manager's
two pointers, through which each reads the other's `isDisconnected` when it
has detected a disconnection itself: whoever finds the other's flag set leaves
the callback to it (c:787, c:916).  `Unlock` writes one byte into either
object's pipe; only the receiver ever reads its own.  The bandwidth thread
works on both objects, and `Delete` stops it by posting `bw_sem` and waiting
for `bw_threadRunning`.  On Android the Bluetooth thread enters the Java object
through a process-wide BLE manager (`ARSALBLEManager`, not in this repository)
and from there the C object, whose address the Java object keeps as a number.
In the Mux network libmux wakes the receiving thread and both threads test and
set one flag.  On iOS CoreBluetooth's thread enters the object through the
delegate of a process-wide BLE manager, which does not retain it, and
`disconnect` stops the bandwidth thread as `Delete` does for Wifi.  Above all of
them the manager is a table of function pointers: each Init sets those its
network has, no Close resets one.

### What is hard, and what makes each component correct

* **Wifi receiver.** Timeouts against late data, and stale data after a gap:
  a disconnection only after real silence, silence noticed, datagrams from
  before a gap dropped and never handed over, the peer heard again after it,
  a blocked thread woken by Unlock.
* **Wifi sender.** A batch across pushes, full sockets and failed sends: the
  cursor inside the buffer, each accepted frame sent at most once and in order,
  the room check good enough, a disconnection only for a cause, a kept batch
  sent once the link is back.
* **Wifi manager.** Two threads and a client, no lock: one callback per
  disconnection; Unlock wakes whoever is blocked.
* **Lifecycle.** Close against the bandwidth thread: nothing used after it was
  freed, Close returns, the thread stops, a failed Init undoes what it did.
* **Mux.** Reference counts of two buffers over failing calls; one callback.
* **iOS BLE.** Close, Cancel, the bandwidth thread and CoreBluetooth: no thread
  left on a released object, no delegate left behind, a lost link known, Close
  and Cancel return.
* **Manager.** A long life of one table: the open network's functions, objects
  and limits belong together, what any call does follows from the Inits that
  succeeded, failed Inits leak nothing, the mux context lives as long as it is
  used.
* **Android BLE.** Five threads: no callback on a freed C object, an open
  manager knows of its dead link, frames pinned while they are read and
  released once, Close returns, a loss is reported once.

`PROJECT.json` lists every hazard at its line with the properties that watch it.

## 2. How the project is divided

One module per component, parameterised by constants with named assumptions:

| Module | Component | Proofs |
|---|---|---|
| `WifiReceiver` | receiving half of a Wifi manager; implements `DatagramQueue` | `WifiReceiver_proofs` |
| `DatagramQueue` | abstract: a queue that hands a datagram over frame by frame or loses it whole | (theorem in `WifiReceiver_proofs`) |
| `WifiSender` | sending half; implements `BatchChannel` | `WifiSender_proofs` |
| `BatchChannel` | abstract: a channel that delivers or loses whole batches, in order | (theorem in `WifiSender_proofs`) |
| `WifiNetwork` | both halves (INSTANCE), the callback, Unlock; implements each half | `WifiNetwork_proofs`, and the two above |
| `WifiLifecycle` | Init, Close and the bandwidth thread of a Wifi manager | `WifiLifecycle_proofs` |
| `MuxNetwork` | a manager over libmux, from Init to Close | `MuxNetwork_proofs` |
| `AndroidBLE` | C object, Java twin, five threads | `AndroidBLE_proofs` |
| `BLENetwork` | the iOS object, its bandwidth thread, CoreBluetooth | `BLENetwork_proofs` |
| `Manager` | the table of functions over three transports, with its Java twin | `Manager_proofs` |

The `MC` module of each gives TLC its finite sets.  `Manager` composes with the
others by abstraction: to it a network is the set of functions its Init sets,
the objects it makes and the limits it declares; what goes on inside a call is
in the network's own module.

The order of work was by use: Wifi first, half by half and then composed, its
lifecycle, Mux, Android, and last the iOS network and the manager above all.
Type correctness was proved first in each module, then the invariant that its
hardest safety property needs.  What was left out, and why, is in section 8.

## 3. The modules

An action is what one thread does between two points at which another thread,
the kernel or the peer can be noticed.  Where a thread is, is a program counter
(`rcvPc`, `sndPc`, `threadPc`, `deleteStep`, `pc`).  Variables marked
*history* do not influence the others: they record what a property speaks of.
Definitions that begin with "Faulty" in their comment are single plausible
errors put in the place of the definition after them, to see each property
fail; no specification uses them.

### WifiReceiver

`ARNETWORKAL_WifiNetwork_Receive`, statement group by statement group: `Enter`
(the clock's first reading), the `select` (`SelectReady`, `SelectTimesOut`,
`SelectFails`), `CheckAge` and the flush (`FlushOne`, `FlushDone`,
`FlushFails`), the `recv` (`RecvData`, `RecvNothing`), `Account` and `SaveDate`,
`NoData` and `Notify` for the disconnection, `Return` for emptying the pipe.
`PopFrame` and `PopFails` are the client's reading loop, `Arrive`, `Unlock` and
`Tick` the network, the other threads and the clock.  A datagram is a sequence
of frames that may end in a malformed one.  Dates are ages: `dateAge` and
`sinceData` count up to one tick past the timeout and stay there.  A `Tick` may
happen between any two steps but for one bound: a thread blocked in select
times out by itself.  `rcvBuffer` keeps what the memory physically holds, since
a flush overwrites it without changing `size`.

`DatagramQueue` is what a client sees of all this: datagrams wait in the order
they came, one at a time is read and handed over frame by frame until its end or
a malformed frame, and what is lost is a whole datagram that nothing was handed
over of.  `Queue` maps it onto the receiver (`waiting` to the socket's queue,
`reading` to what lies between cursor and size in the buffer), and
`ImplementsDatagrams` is its specification under that mapping: `RecvData` takes,
`FlushOne` and a failed `recv` lose, `PopFrame` hands over, `PopFails` gives up.

`OpenSpec` is the receiver among other threads: besides its own steps it allows
what a manager's other threads do to the variables it shares (`Others`:
the sender's flag, a store into the callback, a call made for the sender).
`WifiSender` has the same.

### WifiSender

`PushFrame` with both outcomes of the room check and both outcomes of the ioctl
behind it (`PushFrameUnchecked` is a push whose ioctl failed with ENXIO),
`Send` by outcome (`SendSucceeds`, `SendWouldBlock`, `SendFails`, then
`Notify`), `SetSendBufferSize`.  Sizes are the code's: a 65527-byte buffer and
a 7-byte header.  `setsockopt` doubles SO_SNDBUF as Linux does and
`GetSendBufferSize` halves what it reads back.

`BatchChannel` says what this amounts to for a client: a frame is accepted once,
waits behind those accepted before it, and all that wait go out together in
their order or are lost together.  `Channel` maps it onto the sender (`accepted`
to `pushed`, `waiting` to the batch buffer, `sent` to what is on the wire), and
`ImplementsChannel` is its specification under that mapping: refused pushes,
failed sends, ioctls and the socket's changes are stutters, `Write` accepts,
`SendSucceeds` delivers, `SendWouldBlock` loses.

### WifiNetwork

Instances of both, whose shared parts (`isDisconnected` as the other sees it,
the callbacks, the pipes) are joined.  The other thread's flag is a plain
variable that nothing orders, so what a thread sees of it (`senderSeen`,
`receiverSeen`) follows only with `PublishSender` and `PublishReceiver`.
`SetOnDisconnectCallback` is four stores; `Signal` writes the sender's pipe,
then the receiver's.  `raced` is history: both detections were under way at once.
The composition implements `OpenSpec` of both halves, which is proved
(`SenderInsideManager`, `ReceiverInsideManager`), so that what is proved of a half
is true inside a manager.

### WifiLifecycle

`InitSucceeds`, `InitFails` (at any step), `Close` with `Delete` for the sender
and then the receiver: post `bw_sem`, wait for `bw_threadRunning`, free.  The
bandwidth thread loads the two pointers, takes both `bw_threadRunning`, loops
on a timed wait for `bw_sem`, and posts both back.  `object[o]` is the number of
the allocation behind the pointer and `held[o]` the one the thread loaded, so a
thread that survives a Close and a new Init is seen to hold the wrong one.

### MuxNetwork

`Receive`, `GetBuffer` and `PopFrame` on the receiving thread, `PushFrame` on
the sending one, `CloseChannel` for Unlock, and the disconnection both threads
report: test the flag, set it, call.  `Close` frees the object with the buffers
it still holds.  Buffers are numbers; `released` is history.  A failed
allocation of the queue in Init goes unnoticed there too.

### AndroidBLE

`nativeInitBLENetwork` as `New`, `Connect`, `Discover` (twice: discovery, then
the search for both services), `ConnectFields`, `ConnectListener`,
`ConfigureCharacteristic`, `RegisterNotifications` and `InitSucceeds`, with
`InitFails` and `ServicesGone` (an exception) on the way.  The Java
`disconnect`, which `Close` and `Cancel` share, is `DisconnectLink`,
`DisconnectCleanup` and `ClearListener` inside the object's monitor (`lock`).
`Close` goes on with `CloseUnpins` and `CloseFrees`.  `popFrame` is cut at its
accesses to the list (`PopFrame`, `PopGet`, `PopRemove`), `pushFrame` at its two
accesses to `sendService`, since `onBLEDisconnect` clears both from its own
thread without the monitor.  An access that comes too late is a Java exception
(`PopThrows`, `PushThrows`): the thread does not run on.

### BLENetwork

`InitBLENetwork` as `New`, `ConnectToPeripheral`, `Discover`, `PostRunning` (the
token of `bw_threadRunning`), `KeepPeripheral`, `SetDelegate` and
`SetNotifications`, or `InitFails`, which goes on as a Close does.  `disconnect`,
inside the monitor, is `EnterDisconnect`, `ClearDelegate`, `PostStop`,
`WaitForThread` and `DropPeripheral`; `Delete` (Close, or a failed Init) and
`Cancel` share it, each on its own thread (`Callers`).  The bandwidth thread
loads the object, which ARC then retains (`held`), tries to take the token, and
loops.  `onBLEDisconnect` reads the callback for its test and again for its call.
The BLE manager's delegate is a weak reference: one that has been released
counts as none.

### Manager

`New`, the Init of each transport with its failures, the Close of each, `Delete`
and `EnableDataDump`.  A network object is a number with the transport whose
structure it is (`madeBy`); a pointer of the table is the transport whose
function it points to.  A Mux Init is three steps, between which the application
may give up its Mux: Java's own reference (`NewMuxRef`), Init, `ReleaseMuxRef`.
The build is an Android one with libmux, where a failed BLE Init leaves its
object to Close (JNIManager.c:259-281); on iOS Init undoes it, which is in
`BLENetwork`.

A call of an operation changes nothing here, so that it is not an action: what
it would do is asked of every state, whatever the client has opened, closed or
seen fail before.  `Answer` is what the wrapper returns or whose function it
runs.  `GoesAstray` says when a call goes through a pointer nobody has set or into
an object that is NULL or of another network; `Uses` and `TestForNull` are the
functions that go into the objects and those that look first whether there is
one.

## 4. The runs

Each is a `.cfg` beside the `MC` module of its component.

| Run | What it asks | Result |
|---|---|---|
| `WifiReceiver_receive` | the receiver alone, against `DatagramQueue` too; 3 of the properties are liveness | holds, 559,140 states |
| `WifiSender_send` | the sender alone, with the real sizes, against `BatchChannel` too | holds, 353,524 states |
| `WifiNetwork_notify` | both threads, callback registered before or during, Unlock up to a full pipe | holds, 2,154,816 states |
| `WifiLifecycle_close` | Init, Close and the bandwidth thread | holds, 282 states |
| `MuxNetwork_threads` | both threads, buffers good and bad, Close | holds, 11,644 states |
| `AndroidBLE_threads` | five threads, two connections | holds, 626,552 states |
| `BLENetwork_threads` | four threads, two connections, two Cancels | holds, 81,173 states |
| `Manager_networks` | two managers over three transports | holds, 39,058 states |
| `WifiReceiver_lost` | is a connection only lost after the timeout? | no |
| `WifiSender_oversize` | does only a network failure disconnect a sender? | no |
| `WifiNetwork_lost` | is a disconnection always reported? | no |
| `WifiLifecycle_early` | may a Close follow the thread's start at once? | no |

What the properties say is written above each in its module.  In short:

* `WifiReceiver_receive`: no disconnection without a silence
  (`DisconnectNeedsSilence`); no frame of a dropped datagram is popped
  (`NoDroppedFramePopped`); the refinement `ImplementsDatagrams`; lasting silence is flagged unless unlocks go on
  for ever (`SilenceDetected`); a byte in the pipe ends a Receive even if the
  clock stands still (`UnlockReturns`); a peer that keeps sending is heard in
  spite of flushes (`DataGetsThrough`).
* `WifiSender_send`: `WritesInsideBuffer`; `SentOnceInOrder`; the refinement
  `ImplementsChannel`; `RoomCheckSuffices` (no accepted batch is thrown away on
  EAGAIN as long as the size of the socket is known and constant);
  `DisconnectNeedsCause` (only a network failure or an oversize batch disconnects,
  and such a batch stays); `BatchGoesOut`, which excepts an oversize batch.
* `WifiNetwork_notify`: one callback per disconnection unless the detections
  overlap (`NotifiedOnce`), at most one per object even then
  (`NoObjectNotifiesTwice`); an Unlock is held up only at the sender's pipe, only
  after `FifoCap` calls, and never at the receiver's (`WritesSucceed`).  With
  `UnlockReturns`, a byte in the pipe gets the receiver out of its wait.
* `WifiLifecycle_close`: `NoUseAfterFree`, `AllOrNothing` (a manager has both
  objects and its pointers or neither object), `CloseStopsThread`,
  `CloseReturns`.
* `MuxNetwork_threads`: `BuffersHeldOnce`, `PopBufferIsFree`,
  `NotifiedAtMostOnce` (unless the detections overlap), `DisconnectNotified`,
  `UnlockSticks`.  `BuffersHeldOnce` says that none is released twice or lost
  while the object lives; Close does leak those it holds (section 7).
* `AndroidBLE_threads`: `NoUseAfterFree`, `LinkLossSeen`, `FramesPinned`,
  `PoppedInOrder`, `NotifiedAtMostOnce`, `CloseReturns`, `LossNotified`.
* `BLENetwork_threads`: `NoThreadLeft` (a released network has no bandwidth thread
  in its loop), `DelegateReleased`, `LinkLossSeen`, `CloseReturns` (Close, a failed
  Init and Cancel).
* `Manager_networks`: `OpenNetworkWhole` (objects, limits and functions of the open
  network belong together), `CallsFollowInits` (which calls are refused, which
  run and which go astray, on an open, closed or failed manager), `NothingLost` (objects and dump file), `MuxContextKept`.

No run lists a type invariant: each module's `TypeOK` was checked by TLC and
then proved for all constants (section 6).

### Bounds

* `Timeout = 2`, `SelectTimeout = 1`: a select ends before the timeout does, as
  for a client whose receive timeout is below the five seconds of `DISCONNECT_TIMEOUT_MS` (Manager.h:51), so a
  disconnection takes several calls of Receive; ages are counted to 3, one past
  what the code distinguishes.  `WifiNetwork_notify` and
  `WifiNetwork_lost` use 1 and 0 to keep the product of both machines small.
* `QueueCap = 1 or 2` datagrams: with one waiting the flush has something to
  drop and something can arrive behind it; `FifoCap = 1 or 2` bytes: a write to
  a pipe that already holds one is a case, and so is a full pipe.
* Frames: one or two per datagram, with a malformed tail and an empty datagram,
  and four to send: three fill a datagram to the byte (65507), the fourth the
  buffer (65527), with a batch that is too large for a datagram.  Sizes of the
  socket are chosen below and above a batch, and what is left in it below and
  above a frame.
* `MaxInits = 4` (lifecycle): a thread may survive a Close, see another object
  in its place, and have a successor.  `MaxInits = 2` (Android): a listener left
  over from one connection meets the next.  `MaxInits = 2`, `MaxCancels = 2` (iOS):
  a Cancel or a thread that loaded the first object meets the second, and a
  second Cancel comes while or after the first one disconnects.
* `MaxManagers = 2`, `MaxObjects = 6` (manager): one manager goes through Wifi, Mux
  and BLE (four objects) or a failed BLE and another network, and a second one
  is made after it.
* `MaxNotifications = 3`, `Empty = {2}`: two frames, so that one is released by
  the next, and an empty notification between them.  `Characteristics = 1`: the
  loop is entered; a dead link is met in it.
* `Buffers = 3`, one of them without data, `QueueCap = 2` (Mux): a buffer waits
  in the queue while one is received and one is popped.
* `MaxSignals` bounds calls of Unlock.  In `WifiNetwork_notify` it is one more than
  `FifoCap`, so that the sender's pipe is full and a call blocks.

Deadlock is checked in the Wifi runs.  It is off where the system really may
stop: a Java exception on the connecting thread (`AndroidBLE_threads`), a Mux
object that has been closed, an iOS client or a manager that has made all its
calls.

### Constants that choose the client

* `ClientDrains`: the client pops until PopFrame fails before it receives again
  (`mainpage.dox`).  With FALSE, frames dropped by a flush are popped.
* `StartsFirst`: the client closes only after its bandwidth thread has taken its
  semaphores.  `WifiLifecycle_early` is the run with FALSE.
* `ClosesFailed`: the Android client closes a manager whose Init failed;
  otherwise the next Init overwrites the only pointer to the object.
* `DisconnectJoins`: `bleManager.disconnect` returns only when no call of the
  listener is under way.  The code relies on it: without it Close may free the C
  object under `onBLEDisconnect`.  It is a property of `ARSALBLEManager`, which
  is not in this repository, and an assumption here.

The client of `Manager` is bound in the order of its Inits and Closes only; its
calls of the operations are not: any of them at any time.

## 5. Fairness

Only threads that the code or its client runs in a loop are fair, step by step
and, but for one action, weakly:

* the receiving thread (`ThreadStep`, `ClientStep`), which the client runs in a
  loop that never gives up on a time-out; the sending thread (`Send`), which
  libARNetwork wakes periodically; `Delete`, once Close has begun; the bandwidth
  thread, but not its interruption by a signal; the steps of a Close or Cancel
  that has begun.  The kernel schedules each of them.
* `Transmit`: the device drains its socket.
* `FlushDone` is strongly fair: the flush loop (c:1187) ends only when it finds
  the socket empty.  Under a load that refills the socket as fast as it is read
  it never ends; strong fairness says the peer is not that fast for ever.
* iOS: `Delete` and a `Cancel` once they have begun, the bandwidth thread but for
  its interruption, CoreBluetooth's thread.  Mux: both threads; an open or
  closed channel does not go on failing with an unknown error for ever.
* `PublishSender`, `PublishReceiver`: a store is seen by the other thread in the
  end.
* Time (`Tick`), arrivals, unlocks, failures, `Init`, `Close` and `Cancel` are
  not fair: nothing makes them happen.  Where a property needs time to pass it
  says so.  `Connecting` is fair: `bleManager.connect` and its discovery come
  back, with a result or an error.

## 6. The proofs

TLAPS checks, for every value of the constants that satisfies the named
assumptions of the modules, what follows.  The theorems of the two Wifi halves
are about `OpenSpec`, the half among threads that do to it what a manager's
threads may, so that they carry over to a manager.

`WifiReceiver_proofs`
* `TypeCorrect`.  Needs `OverwriteProperties`: reading a datagram into the
  buffer leaves a sequence of frames no shorter than either.
* `DisconnectNeedsSilenceHolds`.  The property is not inductive: nothing in it
  relates the saved date to the age of the data.  `SilenceInv` adds that the
  clock runs only once it has been set, that without a gap the data is not older
  than the timeout, and that then the saved date is no older than the data,
  except between the `recv` and the saving of the date.
* `NoDroppedFramePoppedHolds`, assuming `ClientDrains`.  `DropInv`: no position
  below `size` holds a dropped frame, and `size` is 0 wherever a flush can
  happen.  Without the assumption the statement is false.
* `ImplementsDatagramsHolds`, assuming `ClientDrains` too, step by step from the
  types and `DropInv`.  What it needs besides: a read datagram is read back whole
  from the start of the buffer whatever was in it (`ReadBack`), and a popped
  frame is the head of what is left (`LeftProperties`).
* `ReceiverInsideManager`: `WifiNetwork`'s specification, for any sender beside it,
  implements the receiver's `OpenSpec`.  A step of the sending thread, a store of
  the callback and the sender's call are `Others`; Unlock, arrivals and time are
  the receiver's own.  `PeerInv`, that what the receiver sees of the sender's
  flag is never ahead of the flag, is what makes a published flag `SenderDown`.
  `ManagerReceivesSafely` then states the properties above of a manager.

`WifiSender_proofs`
* `TypeCorrect`, and `WritesInsideBufferHolds` (inductive as it stands).
* `RoomCheckSufficesHolds`.  `RoomInv`: with a known size, what is in the socket
  and what is in the batch fit in it together, so that EAGAIN cannot follow.
* `DisconnectNeedsCauseHolds`, with no assumption on the sizes: inductive with
  the types, since an oversize batch only grows and leaves neither by
  `SendSucceeds` nor by `SendWouldBlock`.
* `SentOnceInOrderHolds`.  Inductive with the types: appending to the batch what
  was just appended to `pushed` keeps the order (`AppendIsOrdered`), and a batch
  taken away leaves a prefix (`PrefixIsOrdered`).
* `ImplementsChannelHolds`.  Initial states map to initial states, and each step
  of the sender to one of `BatchChannel` or a stutter, by cases on the actions.
  A `PushFrame` of a frame already pushed does not exist by the action's guard,
  which is the client's: every frame is a frame object of its own.
* `SenderInsideManager` and `ManagerSendsSafely`, as for the receiver.

`WifiNetwork_proofs`
* `TypeCorrect`, for the manager's own variables; the halves' types come with the
  composition.
* `NotifiedOnceHolds`.  `OnceInv`, as long as the detections have not overlapped:
  whoever is detecting sees the other's flag as it is, before a decision there
  is no call, the first decision makes the only one.  The actions of the two
  halves are first reduced to the few that touch flags, callbacks or calls
  (`Steps`).
* `NoObjectNotifiesTwiceHolds`.  `CallerInv`: an object that has not set its flag,
  or is still detecting, has made no call; this needs nothing about overlaps.
* `UnlockBlocksOnlyWhenFull`, which is `WritesSucceed`: the sender's pipe holds a
  byte per call, the receiver's never more than that (`PipeInv`), so a call is
  held up only at the first write and only after `FifoCap` calls.

`MuxNetwork_proofs`
* `TypeCorrect`; `BuffersHeldOnceHolds` and `PopBufferIsFreeHolds`, from `BufferInv`:
  the queue is a stretch of the arrivals, what has left it (`Taken`) is released
  but for the two buffers held, the one being popped being older.
* `NotifiedAtMostOnceHolds`, with `NotifyInv`.
* `QueueGoneForGood`, the safety half of `UnlockSticks`: the thread waits only on a
  queue it has, and one it has given up never comes back.
* `NeverSwallowed`, the safety half of `DisconnectNotified`: with a callback
  registered before the loss, a set flag always has a call made or a thread on
  its way to it.  Two detections may both call; neither leaves it to the other,
  as the Wifi threads do (section 7).

`BLENetwork_proofs`
* `TypeCorrect`, `NoThreadLeftHolds`, `DelegateReleasedHolds`, `LinkLossSeenHolds`,
  from one inductive invariant.  Its core is `TokenInv`: for each network the one
  token of `bw_threadRunning` exists from its post to the wait in `disconnect`
  (`Owed`) and is in the semaphore or with the thread, never both.  `LockInv`
  puts at most one caller inside `disconnect`, `PeripheralInv` says that only the
  manager's network keeps a peripheral, `DelegateInv` follows the delegate.
* `CloseNeverStuck`, the safety half of `CloseReturns`: a caller that finds no token
  at its wait faces a bandwidth thread of that very network that is giving it
  back or has a stop posted to it, and a caller that waits for the monitor faces
  one inside `disconnect`.  `StopPosted` keeps the stop until it is taken.

`Manager_proofs`
* `TypeCorrect`, `OpenNetworkWholeHolds`, `CallsFollowInitsHolds`, `NothingLostHolds`,
  `MuxContextKeptHolds`, from `ObjectsInv` (live objects are the manager's and of the
  open network), `FunctionInv` (a pointer is set exactly if some network that has
  been open has the operation, and to one that has), `FilesInv` and `MuxInv` (the
  count of references).

`AndroidBLE_proofs`
* `ObjectsHold`: `IInv`, on which the others stand: whoever is connecting or
  closing has an object, an open manager's application is idle, and a link that
  is up has no disconnection under way.
* `NoUseAfterFreeHolds`, assuming `DisconnectJoins`.  `JoinInv`: from the join on
  the Bluetooth thread is idle, from the unlisten on there is no listener, and a
  listener is an object not freed.
* `NotifiedAtMostOnceHolds`, without that assumption.  `CallsInv`: a callback is
  registered only on the manager's object or a freed one, and once it has run
  the link is down until that object is freed.
* `LinkLossSeenHolds`, assuming `Characteristics > 0` (see section 7).  `LossInv`
  names who still knows of the loss: a Cancel in its join, or the Bluetooth
  thread on its way to this object.
* `FramesPinnedHolds`.  What is missing in the property is that no notification
  comes twice: `ListInv` and `QueueInv` say that list and queue rise and the one is
  below the other, `Past` that what was ever pinned is below both, `StoreInv` that
  the frame about to be stored is above all of those.
* `PoppedInOrderHolds`.  `SelectSeq` is recursive and nothing can be proved of it, so
  the property is stated with the sets of elements and `Rising`, the order of the
  numbers notifications get as they come.  That all of them rise follows from
  `ListInv` and `QueueInv`.  `OrderInv` adds that nothing is missing: as long as the
  link is up, what was popped, is about to be stored, is in the list or in the
  BLE manager's queue is all that was notified but for empty ones, because only
  a cleanup or a reset drops a notification and each comes after the loss.
* `TypeCorrect`: the object and thread parts come with `IInv`, the rest is `RestTyped`.
* `CloseNeverStuck`, assuming `DisconnectJoins`: who waits for the monitor waits for
  a thread inside `disconnect`, and who waits there for the listener waits for a
  call on an object that still exists.
* `LossNeverSwallowed`, the safety half of `LossNotified`, assuming `DisconnectJoins`
  and `Characteristics > 0`: once the link of an open manager with a callback is
  lost, the callback has run or the Bluetooth thread is on its way to it.
  `DispatchInv` keeps the listener in its place until it has been called.

`WifiLifecycle_proofs`
* `TypeCorrect`, with `MutexInv`: between taking and posting a
  `bw_threadRunning` the thread's allocation is the one the manager points to,
  the semaphore is 0, and Delete is not past its wait for it.
* `NoUseAfterFreeHolds`, assuming `StartsFirst`, with `StartInv`.
* `AllOrNothingHolds`, with `PairInv`: outside Delete both objects are of one
  Init or absent; inside it the sender goes first.
* `CloseNeverStuck`, assuming `StartsFirst`: where Delete waits for a
  `bw_threadRunning` that is taken, the thread is posting it back, or is in its
  timed wait with a stop posted.  `OwnerInv` says for each semaphore who has it.

Each proof has one step per action of `Next`, and the temporal step at its end
combines initial states, steps and implication.  Every invariant used in an
induction step was checked by TLC as an invariant of the component's run before
it was proved.

Only model-checked: what depends on fairness or ENABLED, which are beyond the
prover.  These are `SilenceDetected`, `UnlockReturns`, `DataGetsThrough`,
`BatchGoesOut`, `CloseStopsThread`, the three `CloseReturns`, `DisconnectNotified`
and `UnlockSticks` of Mux, and `LossNotified`; of the three `CloseReturns` and the
last three the safety half is proved, as said above.  Every other property of
the passing runs is a theorem.

## 7. Where the code and its documentation differ

The four runs that end in a violation:

* `WifiReceiver_lost` (c:893): the date of the last reception is saved only if
  it is not too old already.  After one gap longer than the timeout it is never
  saved again, and the next select that times out declares a disconnection,
  although data has just come in ("too long time without reception").
* `WifiNetwork_lost` (c:787, c:916): both threads set their own flag, then read
  the other's.  If both detect the disconnection at about the same time, each
  leaves the callback to the other and none runs.
* `WifiSender_oversize` (c:613, c:779): the batch buffer takes 65527 bytes, UDP
  over IPv4 carries 65507.  PushFrame accepts a batch in between, which fails
  with EMSGSIZE, counts as a disconnection and is kept, so that every later send
  fails too; WifiNetwork.h:57 calls the size the "maximum amount of data you can
  put in a single ARNetwork packet over IP".
* `WifiLifecycle_early` (c:326): `bw_threadRunning` is free until the bandwidth
  thread takes it, so a Close right after the start does not wait for it, and
  the thread waits on freed semaphores.

Seen on the way and not kept as runs.  Wifi:

* The sender's pipe is written at every Unlock and never read (c:253): after
  65536 unlocks the write blocks and the receiver is not woken.
* A callback registered while a disconnection is being detected may be called
  with NULL for its data (c:982-983).

Mux:

* The flag is tested and set without a lock (Mux.c:119, 239), so that two
  overlapping detections both call; `NotifiedAtMostOnce` leaves them out.
* A receive that times out gives its queue up for good (Mux.c:231-246).
* `pomp_buffer_new` failing makes `PushFrame` return DEFAULT (Mux.c:79).
* Close frees the object without the buffers it holds, which nobody then
  releases (Mux.c:415).

Android:

* A Cancel that comes before `bleManager.connect` (java:128) is forgotten: Init
  goes on and succeeds, and the Cancel's `setListener(null)`, if it comes late
  enough, leaves an open manager that never hears of a lost link.
  `LinkLossSeen` leaves that Cancel out (`cancelled`).
* With no characteristic to notify, nothing in connect after `setListener` meets
  a link that died before it: hence the theorem's assumption, and
  `Characteristics = 1` in the run.
* `nativeInitBLENetwork` leaves the object behind when connect fails
  (JNIManager.c:259-281), where `ARNETWORKAL_Manager_InitBLENetwork` deletes it.
* A one-byte notification is given a size smaller than a frame's header
  (JNI.c:571-584).

iOS:

* `onBLEDisconnect` reads the callback twice (.m:570): a Close between test and
  call makes it call NULL.
* A Cancel before `connect` keeps the peripheral is forgotten, and one between
  that and `setDelegate` leaves the delegate on an object that is then released;
  `DelegateReleased` and `LinkLossSeen` leave cancelled networks out.
* A connect that fails early leaves the peripheral connected.
* `popFrame` hands out a pointer into a notification it then removes (.m:481);
  nothing in this code keeps the bytes alive, unlike on Android.

Manager:

* Pointers an Init does not set stay those of the network before: on a manager
  that changes transports a call the new one does not support runs the old
  one's function on the new one's object, where Error.h:54 promises "The
  current manager does not support this operation".
* Close resets no pointer: after it nearly every call runs the closed network's
  function on NULL; on Wifi only Unlock, GetBandwidth and
  SetOnDisconnectCallback look first.  A failed BLE Init leaves its object under
  the functions of the network before.  `CallsFollowInits` says exactly which
  calls go astray.
* `nativeInitMuxNetwork` answers OK for a NULL manager or context
  (JNIManager.c:352-357), and `nativeCloseMuxNetwork` then reads through NULL.

## 8. What is not modelled

* **Frames on iOS** (`pushFrame`, `popFrame`, `receive`, Unlock): one thread works
  on the list, and what keeps the bytes of a popped frame alive is the BLE
  manager's, not in this repository.
* **A Close on iOS's main thread** (.m:352-377), which releases the object without
  disconnecting it.
* **The counters of the bandwidth threads** (c:338-346, c:767) and GetBandwidth:
  an estimate that nothing else depends on.  They are read and written without
  a lock, so that no exact statement about them holds.
* **The byte layout of frames** (c:632-661, c:691-731): sizes are modelled, fields
  are not; a size field is taken to count at least the header.
* **GetSendBufferSize step by step** (c:1044): it stores the doubled size before
  the halved one.  `SetSendBufferSize` is one step, for a client that sets the
  size from its sending thread.
* **Unlock on Android** and a failing attachment to the virtual machine: the
  first only releases a semaphore of `ARSALBLEManager`, the second makes each
  call return an error before it does anything.
* **A failing `NewObject`** (JNI.c:166-193): `ObjectDelete` then reads fields
  nobody has set; its behaviour is undefined.
* **PopFrame before the first Receive** (c:679), which compares a cursor nobody
  has set: the clients of the models receive first, as `mainpage.dox` has it.
* **What is written into the data dump** (Manager.c:542-591): output that no other
  state depends on; opening and closing it is in `Manager`.
* **Errors, frames, generated enums**: constants and string tables.
* **Type of service, buffer sizes of the receiving socket, addresses, ports**:
  options passed to the kernel that no property tells apart.
