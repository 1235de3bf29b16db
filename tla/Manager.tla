------------------------------- MODULE Manager -------------------------------
(***************************************************************************)
(* A manager from New to Delete, over the three transports of an Android   *)
(* build, as its Java twin drives it.  Init makes the network's objects    *)
(* and points the manager's functions at that network's; Close frees the   *)
(* objects and leaves the functions.  A call of an operation goes through  *)
(* its function pointer to whatever objects the manager then holds.  What  *)
(* a network does inside its calls is the matter of the other modules.     *)
(***************************************************************************)
EXTENDS Naturals, FiniteSets

CONSTANTS
  MaxManagers,  \* bound on the managers made, one after the other
  MaxObjects    \* bound on the network objects made

ASSUME ManagerAssumption == MaxManagers \in Nat /\ MaxObjects \in Nat

Transports == {"Wifi", "Mux", "BLE"}
Objects    == 1 .. MaxObjects

Frames         == {"pushFrame", "popFrame", "send", "receive"}
Bandwidth      == {"getBandwidth", "bandwidthThread"}
BufferSizes    == {"setSendBufferSize", "getSendBufferSize",
                   "setRecvBufferSize", "getRecvBufferSize"}
ClassSelectors == {"setSendClassSelector", "getSendClassSelector",
                   "setRecvClassSelector", "getRecvClassSelector"}
Everywhere     == Frames \cup {"unlock", "setOnDisconnectCallback"}
Operations     == Everywhere \cup Bandwidth \cup BufferSizes \cup ClassSelectors

\* The function pointers the Init of each transport sets.
Sets == [Wifi |-> Operations,
         Mux  |-> Operations \ ClassSelectors,
         BLE  |-> Everywhere]

\* The functions that go into the network's objects, and the names of those
\* which on Wifi leave alone an object that is NULL.
Uses == [Wifi |-> Operations,
         Mux  |-> Everywhere \ {"send"},
         BLE  |-> Everywhere \ {"send"}]

TestForNull == {"unlock", "getBandwidth", "setOnDisconnectCallback"}

MaxIds        == [Wifi |-> 256, Mux |-> 256, BLE |-> 32]
MaxBufferSize == [Wifi |-> 65520, Mux |-> 16384, BLE |-> 18]

VARIABLES
  m_initOk,        \* the Java object has a C manager
  managers,        \* C managers made so far
  function,        \* for each operation: whose function its pointer is
  senderObject, receiverObject,  \* numbers of objects, 0 for NULL
  maxIds, maxBufferSize,
  dumpFile,        \* traffic is dumped
  filesOpen,       \* files not closed
  madeBy,          \* for each object: the transport whose structure it is
  objects, live,   \* objects made so far, and those not freed
  net,             \* the open network; "failed": a BLE Init left its object
  opened,          \* history: the transports that have been open on it
  muxHeld,         \* the application has not given up its Mux
  muxStep,         \* where initMuxNetwork is
  muxRefs          \* references to the mux context

pointers == <<senderObject, receiverObject>>
limits   == <<maxIds, maxBufferSize>>
dump     == <<dumpFile, filesOpen>>
heap     == <<madeBy, objects, live>>
client   == <<net, opened>>
mux      == <<muxHeld, muxStep, muxRefs>>
vars     == <<m_initOk, managers, function, pointers, limits, dump, heap,
              client, mux>>

Init ==
  /\ m_initOk = FALSE /\ managers = 0
  /\ function = [op \in Operations |-> "none"]
  /\ senderObject = 0 /\ receiverObject = 0
  /\ maxIds = 0 /\ maxBufferSize = 0
  /\ dumpFile = FALSE /\ filesOpen = 0
  /\ madeBy = [o \in Objects |-> "none"] /\ objects = 0 /\ live = {}
  /\ net = "none" /\ opened = {}
  /\ muxHeld = TRUE /\ muxStep = "out" /\ muxRefs = 1
-----------------------------------------------------------------------------
(* New and Delete.                                                         *)

New ==
  /\ ~m_initOk /\ m_initOk' = TRUE
  /\ managers < MaxManagers /\ managers' = managers + 1
  /\ function' = [op \in Operations |-> "none"]
  /\ senderObject' = 0 /\ receiverObject' = 0
  /\ maxIds' = 256 /\ maxBufferSize' = 0
  /\ dumpFile' = FALSE
  /\ opened' = {}
  /\ UNCHANGED <<filesOpen, heap, net, mux>>

Idle == m_initOk /\ net = "none" /\ muxStep = "out"

\* dispose, of a manager whose network has been closed.
Delete ==
  /\ Idle /\ m_initOk' = FALSE
  /\ filesOpen' = IF dumpFile THEN filesOpen - 1 ELSE filesOpen
  /\ UNCHANGED <<managers, function, pointers, limits, dumpFile, heap, client,
                 mux>>

\* A second call is refused, and one whose file cannot be opened changes
\* nothing.
EnableDataDump ==
  /\ m_initOk /\ ~dumpFile
  /\ dumpFile' = TRUE /\ filesOpen' = filesOpen + 1
  /\ UNCHANGED <<m_initOk, managers, function, pointers, limits, heap, client,
                 mux>>
-----------------------------------------------------------------------------
(* What the Inits have in common.                                          *)

\* n objects of transport t are allocated.
Allocate(t, n) ==
  /\ objects + n <= MaxObjects /\ objects' = objects + n
  /\ madeBy' = [o \in Objects |->
                  IF o \in objects + 1 .. objects + n THEN t ELSE madeBy[o]]
  /\ live' = live \cup (objects + 1 .. objects + n)

SetFunctions(t) ==
  function' = [op \in Operations |-> IF op \in Sets[t] THEN t ELSE function[op]]

SetLimits(t) == maxIds' = MaxIds[t] /\ maxBufferSize' = MaxBufferSize[t]

Open(t) ==
  /\ SetFunctions(t) /\ SetLimits(t)
  /\ net' = t /\ opened' = opened \cup {t}

\* The network's objects are freed and the manager's pointers cleared; its
\* functions stay.
Free ==
  /\ live' = live \ {senderObject, receiverObject}
  /\ senderObject' = 0 /\ receiverObject' = 0
  /\ net' = "none"
  /\ UNCHANGED <<m_initOk, managers, function, limits, dump, madeBy, objects,
                 opened>>
-----------------------------------------------------------------------------
(* Wifi.                                                                   *)

InitWifi ==
  /\ Idle
  /\ Allocate("Wifi", 2)
  /\ senderObject' = objects + 1 /\ receiverObject' = objects + 2
  /\ Open("Wifi")
  /\ UNCHANGED <<m_initOk, managers, dump, mux>>

\* Faulty: the objects stay when Connect or Bind has failed.
InitWifiKeepsObjects ==
  /\ Idle
  /\ Allocate("Wifi", 2)
  /\ UNCHANGED <<m_initOk, managers, function, pointers, limits, dump, client,
                 mux>>

\* Faulty: the functions are set before the network is known to work.
InitWifiSetsFunctions ==
  /\ Idle
  /\ SetFunctions("Wifi")
  /\ UNCHANGED <<m_initOk, managers, pointers, limits, dump, heap, client, mux>>

\* New, Connect or Bind fails, and Delete undoes what was done.
InitWifiFails ==
  /\ Idle
  /\ senderObject' = 0 /\ receiverObject' = 0
  /\ UNCHANGED <<m_initOk, managers, function, limits, dump, heap, client, mux>>

CloseWifi == net = "Wifi" /\ Free /\ UNCHANGED mux
-----------------------------------------------------------------------------
(* Mux.  Java holds a reference of its own to the context during Init; the *)
(* application gives up its Mux when it likes.                             *)

NewMuxRef ==
  /\ Idle /\ muxHeld
  /\ muxStep' = "init" /\ muxRefs' = muxRefs + 1
  /\ UNCHANGED <<m_initOk, managers, function, pointers, limits, dump, heap,
                 client, muxHeld>>

InitMux ==
  /\ muxStep = "init" /\ muxStep' = "release"
  /\ Allocate("Mux", 1)
  /\ senderObject' = objects + 1 /\ receiverObject' = objects + 1
  /\ muxRefs' = muxRefs + 1
  /\ Open("Mux")
  /\ UNCHANGED <<m_initOk, managers, dump, muxHeld>>

\* The object cannot be allocated.
InitMuxFails ==
  /\ muxStep = "init" /\ muxStep' = "release"
  /\ UNCHANGED <<m_initOk, managers, function, pointers, limits, dump, heap,
                 client, muxHeld, muxRefs>>

ReleaseMuxRef ==
  /\ muxStep = "release" /\ muxStep' = "out"
  /\ muxRefs' = muxRefs - 1
  /\ UNCHANGED <<m_initOk, managers, function, pointers, limits, dump, heap,
                 client, muxHeld>>

\* Faulty: the object is freed with its reference.
CloseMuxKeepsRef ==
  /\ net = "Mux" /\ muxStep = "out"
  /\ Free
  /\ UNCHANGED mux

CloseMux ==
  /\ net = "Mux" /\ muxStep = "out"
  /\ Free
  /\ muxRefs' = muxRefs - 1
  /\ UNCHANGED <<muxHeld, muxStep>>

GiveUpMux ==
  /\ muxHeld /\ muxHeld' = FALSE
  /\ muxRefs' = muxRefs - 1
  /\ UNCHANGED <<m_initOk, managers, function, pointers, limits, dump, heap,
                 client, muxStep>>
-----------------------------------------------------------------------------
(* BLE.                                                                    *)

\* Faulty: unlock is forgotten among the functions.
InitBLEForgetsUnlock ==
  /\ Idle
  /\ Allocate("BLE", 1)
  /\ senderObject' = objects + 1 /\ receiverObject' = objects + 1
  /\ function' = [op \in Operations |->
       IF op \in Sets.BLE \ {"unlock"} THEN "BLE" ELSE function[op]]
  /\ SetLimits("BLE")
  /\ net' = "BLE" /\ opened' = opened \cup {"BLE"}
  /\ UNCHANGED <<m_initOk, managers, dump, mux>>

InitBLE ==
  /\ Idle
  /\ Allocate("BLE", 1)
  /\ senderObject' = objects + 1 /\ receiverObject' = objects + 1
  /\ Open("BLE")
  /\ UNCHANGED <<m_initOk, managers, dump, mux>>

\* The object is made and does not connect: Init leaves it to Close.  (One
\* that cannot be made changes nothing.)
InitBLEFails ==
  /\ Idle
  /\ Allocate("BLE", 1)
  /\ senderObject' = objects + 1 /\ receiverObject' = objects + 1
  /\ net' = "failed"
  /\ UNCHANGED <<m_initOk, managers, function, limits, dump, opened, mux>>

\* The client closes after an Init that failed, too.
CloseBLE == net \in {"BLE", "failed"} /\ Free /\ UNCHANGED mux
-----------------------------------------------------------------------------
Next ==
  \/ New \/ Delete \/ EnableDataDump
  \/ InitWifi \/ InitWifiFails \/ CloseWifi
  \/ NewMuxRef \/ InitMux \/ InitMuxFails \/ ReleaseMuxRef \/ CloseMux
  \/ GiveUpMux
  \/ InitBLE \/ InitBLEFails \/ CloseBLE

Spec == Init /\ [][Next]_vars
-----------------------------------------------------------------------------
(* What a call of an operation runs.  The client may call any of them at   *)
(* any time: on an open manager, a closed one, after an Init that failed   *)
(* and after another transport.  A call changes nothing here; whether it   *)
(* is refused or goes astray is asked of every state.                      *)

\* The wrapper's answer (bandwidthThread's refuses by returning at once); the
\* functions of Frames have no wrapper and are called as they stand.
Answer(op) ==
  IF m_initOk /\ function[op] # "none" THEN function[op]
  ELSE IF op \in Frames THEN "NULL_POINTER"
  ELSE IF m_initOk THEN "MANAGER_OPERATION_NOT_SUPPORTED"
  ELSE "BAD_PARAMETER"

Runs(op) == Answer(op) \in Transports

OfNetwork(o, t) == o \in live /\ madeBy[o] = t

\* A call through a pointer nobody has set, or of a function that goes into
\* an object that is missing or of another network.
GoesAstray(op) ==
  \/ Answer(op) = "NULL_POINTER"
  \/ /\ Runs(op) /\ op \in Uses[Answer(op)]
     /\ \E o \in {senderObject, receiverObject} :
          /\ ~OfNetwork(o, Answer(op))
          /\ o = 0 => ~(Answer(op) = "Wifi" /\ op \in TestForNull)

\* The transport whose objects the manager holds, if it holds any.
Holds == IF net = "failed" THEN "BLE" ELSE net
-----------------------------------------------------------------------------
LimitsTyped ==
  /\ maxIds \in {0, 32, 256} /\ maxBufferSize \in {0, 18, 16384, 65520}
  /\ managers \in 0 .. MaxManagers
  /\ filesOpen \in Nat

HeapTyped ==
  /\ senderObject \in 0 .. MaxObjects /\ receiverObject \in 0 .. MaxObjects
  /\ objects \in 0 .. MaxObjects /\ live \subseteq Objects
  /\ madeBy \in [Objects -> Transports \cup {"none"}]
  /\ function \in [Operations -> Transports \cup {"none"}]

ClientTyped ==
  /\ m_initOk \in BOOLEAN /\ muxHeld \in BOOLEAN /\ dumpFile \in BOOLEAN
  /\ net \in Transports \cup {"none", "failed"} /\ opened \subseteq Transports
  /\ muxStep \in {"out", "init", "release"} /\ muxRefs \in 0 .. 3

TypeOK == LimitsTyped /\ HeapTyped /\ ClientTyped

(***************************************************************************)
(* Whatever was open, closed or failed on it before, an open manager is    *)
(* that of one network: its objects, its limits and every function the     *)
(* network has (Manager.c:147-166, 240-250, MuxNetwork.c:350-391,          *)
(* JNIManager.c:268-279).                                                  *)
(***************************************************************************)
OpenNetworkWhole ==
  net \in Transports =>
    /\ OfNetwork(senderObject, net) /\ OfNetwork(receiverObject, net)
    /\ maxIds = MaxIds[net] /\ maxBufferSize = MaxBufferSize[net]
    /\ \A op \in Sets[net] : Runs(op) /\ Answer(op) = net

(***************************************************************************)
(* What a call of any operation does, at any time, follows from the        *)
(* networks that have been open on the manager, those closed since         *)
(* included, and from nothing that a failed Init has left: it is refused   *)
(* only if none of them has the operation, and else runs the function of   *)
(* one of them.  It goes astray exactly if that is not the network of the  *)
(* objects the manager holds, as after every Close (Manager.c:147-196,     *)
(* 326-540, MuxNetwork.c:350-391, 415-419, JNIManager.c:241-332).          *)
(***************************************************************************)
CallsFollowInits ==
  \A op \in Operations :
    /\ Answer(op) = "MANAGER_OPERATION_NOT_SUPPORTED" <=>
         m_initOk /\ op \notin Frames /\ \A t \in opened : op \notin Sets[t]
    /\ Runs(op) => Answer(op) \in opened /\ op \in Sets[Answer(op)]
    /\ GoesAstray(op) <=>
         \/ op \in Frames /\ (m_initOk => opened = {})
         \/ /\ Runs(op) /\ op \in Uses[Answer(op)] /\ Answer(op) # Holds
            /\ ~(Holds = "none" /\ Answer(op) = "Wifi" /\ op \in TestForNull)

(***************************************************************************)
(* An object that is not freed is in one of the manager's pointers, an     *)
(* open file is the manager's, and neither outlives it (Manager.c:168-171, *)
(* 306-324, JNIManager.c:241-282).                                         *)
(***************************************************************************)
NothingLost ==
  /\ live = {senderObject, receiverObject} \ {0}
  /\ filesOpen = IF m_initOk /\ dumpFile THEN 1 ELSE 0
  /\ ~m_initOk => live = {}

(***************************************************************************)
(* The mux context has one reference from each who uses it: it is not      *)
(* freed under the network when the application gives up its Mux in the    *)
(* middle of Init or later, nor kept when all are done                     *)
(* (ARNetworkALManager.java:361-363, MuxNetwork.c:363, 416).               *)
(***************************************************************************)
MuxContextKept ==
  muxRefs = (IF muxHeld THEN 1 ELSE 0) + (IF muxStep # "out" THEN 1 ELSE 0)
              + Cardinality({o \in live : madeBy[o] = "Mux"})
=============================================================================
