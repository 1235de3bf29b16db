---------------------------- MODULE Manager_proofs ----------------------------
(***************************************************************************)
(* Proofs about the manager, for any number of managers, of Inits that     *)
(* succeed or fail, and of network objects.                                *)
(***************************************************************************)
EXTENDS Manager, FiniteSetTheorems, TLAPS

\* The steps of Next, named for the proofs below.
OpenStep  == InitWifi \/ InitMux \/ InitBLE
CloseStep == CloseWifi \/ CloseMux \/ CloseBLE
MuxStep   == NewMuxRef \/ InitMuxFails \/ ReleaseMuxRef \/ GiveUpMux
OtherStep == Delete \/ EnableDataDump \/ InitWifiFails

\* The objects alive are the manager's, and of the network it has open.
ObjectsInv ==
  /\ live = {senderObject, receiverObject} \ {0}
  /\ senderObject <= objects /\ receiverObject <= objects
  /\ net = "none" => senderObject = 0 /\ receiverObject = 0
  /\ net # "none" =>
       /\ m_initOk
       /\ senderObject # 0 /\ madeBy[senderObject] = Holds
       /\ receiverObject # 0 /\ madeBy[receiverObject] = Holds
       /\ Holds = "Mux" => senderObject = receiverObject

\* A pointer is unset if no network that has been open has its operation, and
\* one of theirs otherwise; the open network has all of its own.
FunctionInv ==
  /\ \A op \in Operations :
       IF \E t \in opened : op \in Sets[t]
       THEN function[op] \in opened /\ op \in Sets[function[op]]
       ELSE function[op] = "none"
  /\ net \in Transports =>
       /\ net \in opened
       /\ \A op \in Sets[net] : function[op] = net
       /\ maxIds = MaxIds[net] /\ maxBufferSize = MaxBufferSize[net]

FilesInv == filesOpen = IF m_initOk /\ dumpFile THEN 1 ELSE 0

Count(b) == IF b THEN 1 ELSE 0

MuxInv ==
  /\ muxStep # "out" => m_initOk
  /\ muxStep = "init" => net = "none"
  /\ muxRefs = Count(muxHeld) + Count(muxStep # "out") + Count(net = "Mux")

IInv == TypeOK /\ ObjectsInv /\ FunctionInv /\ FilesInv /\ MuxInv

(***************************************************************************)
(* Every transport sets functions that a manager has.                      *)
(***************************************************************************)
LEMMA SetsAreOperations == \A t \in Transports : Sets[t] \subseteq Operations
BY DEF Sets, Transports, Operations, Everywhere

(***************************************************************************)
(* Init and New.                                                           *)
(***************************************************************************)
LEMMA Initially == Init => IInv
<1> USE ManagerAssumption
<1> SUFFICES ASSUME Init PROVE IInv
  OBVIOUS
<1>1. LimitsTyped
  BY DEF Init, LimitsTyped
<1>2. HeapTyped
  BY DEF Init, HeapTyped
<1>3. ClientTyped
  <2>1. /\ m_initOk \in BOOLEAN /\ muxHeld \in BOOLEAN
        /\ dumpFile \in BOOLEAN
    BY DEF Init
  <2>2. net \in Transports \cup {"none", "failed"} /\ opened \subseteq Transports
    BY DEF Init
  <2>3. muxStep \in {"out", "init", "release"} /\ muxRefs \in 0 .. 3
    BY DEF Init
  <2> QED
    BY <2>1, <2>2, <2>3 DEF ClientTyped
<1>4. ObjectsInv
  BY DEF Init, ObjectsInv
<1>5. FunctionInv
  BY DEF Init, FunctionInv, Transports
<1>6. FilesInv
  BY DEF Init, FilesInv
<1>7. MuxInv
  BY DEF Init, MuxInv, Count
<1> QED
  BY <1>1, <1>2, <1>3, <1>4, <1>5, <1>6, <1>7 DEF IInv, TypeOK

(***************************************************************************)
(* An Init that succeeds: what it makes, and what that makes true.         *)
(***************************************************************************)
LEMMA OpenMakes ==
  ASSUME IInv, OpenStep
  PROVE  \E t \in Transports, n \in {1, 2} :
           /\ m_initOk /\ net = "none"
           /\ Allocate(t, n) /\ Open(t)
           /\ senderObject' = objects + 1 /\ receiverObject' = objects + n
           /\ muxRefs' = muxRefs + Count(t = "Mux")
           /\ muxStep' = IF t = "Mux" THEN "release" ELSE muxStep
           /\ t = "Mux" => n = 1
           /\ t = "Mux" <=> muxStep = "init"
           /\ UNCHANGED <<m_initOk, managers, dump, muxHeld>>
<1> USE DEF IInv, TypeOK, ClientTyped, MuxInv, Transports, Idle, Count
<1>1. CASE InitWifi
  BY <1>1 DEF InitWifi, mux
<1>2. CASE InitMux
  BY <1>2 DEF InitMux
<1>3. CASE InitBLE
  BY <1>3 DEF InitBLE, mux
<1> QED
  BY <1>1, <1>2, <1>3 DEF OpenStep

LEMMA OpenKeeps == IInv /\ OpenStep => IInv'
<1> SUFFICES ASSUME IInv, OpenStep PROVE IInv'
  OBVIOUS
<1> USE ManagerAssumption
<1> PICK t \in Transports, n \in {1, 2} :
           /\ m_initOk /\ net = "none"
           /\ Allocate(t, n) /\ Open(t)
           /\ senderObject' = objects + 1 /\ receiverObject' = objects + n
           /\ muxRefs' = muxRefs + Count(t = "Mux")
           /\ muxStep' = IF t = "Mux" THEN "release" ELSE muxStep
           /\ t = "Mux" => n = 1
           /\ t = "Mux" <=> muxStep = "init"
           /\ UNCHANGED <<m_initOk, managers, dump, muxHeld>>
  BY OpenMakes
<1>1. /\ LimitsTyped /\ HeapTyped /\ ClientTyped
      /\ ObjectsInv /\ FunctionInv /\ FilesInv /\ MuxInv
  BY DEF IInv, TypeOK
<1>2. objects \in Nat /\ MaxObjects \in Nat
  BY <1>1 DEF HeapTyped
<1>3. /\ net' = t /\ opened' = opened \cup {t}
      /\ maxIds' = MaxIds[t] /\ maxBufferSize' = MaxBufferSize[t]
      /\ function' = [op \in Operations |->
                        IF op \in Sets[t] THEN t ELSE function[op]]
  BY DEF Open, SetFunctions, SetLimits
<1>4. LimitsTyped'
  BY <1>1, <1>3 DEF LimitsTyped, MaxIds, MaxBufferSize, Transports, dump
<1>5. HeapTyped'
  <2>1. function' \in [Operations -> Transports \cup {"none"}]
    BY <1>1, <1>3 DEF HeapTyped
  <2>2. objects' \in 0 .. MaxObjects /\ live' \subseteq Objects
    BY <1>1, <1>2 DEF HeapTyped, Allocate, Objects
  <2>3. madeBy' \in [Objects -> Transports \cup {"none"}]
    BY <1>1 DEF HeapTyped, Allocate
  <2>4. senderObject' \in 0 .. MaxObjects /\ receiverObject' \in 0 .. MaxObjects
    BY <1>2 DEF Allocate
  <2> QED
    BY <2>1, <2>2, <2>3, <2>4 DEF HeapTyped
<1>6. MuxInv'
  BY <1>1, <1>3 DEF MuxInv, Count, Transports, ClientTyped
<1>7. ClientTyped'
  <2>1. muxRefs' \in 0 .. 3
    BY <1>1, <1>6 DEF MuxInv, Count
  <2> QED
    BY <1>1, <1>3, <2>1 DEF ClientTyped, dump, Transports
<1>8. ObjectsInv'
  <2>1. live = {} /\ live' = objects + 1 .. objects + n
    BY <1>1 DEF ObjectsInv, Allocate
  <2>2. live' = {senderObject', receiverObject'} \ {0}
    BY <1>2, <2>1
  <2>3. senderObject' <= objects' /\ receiverObject' <= objects'
    BY <1>2 DEF Allocate
  <2>4. /\ senderObject' \in Objects /\ receiverObject' \in Objects
        /\ madeBy'[senderObject'] = t /\ madeBy'[receiverObject'] = t
    BY <1>2 DEF Allocate, Objects
  <2>5. net' # "none" /\ Holds' = t
    BY <1>3 DEF Holds, Transports
  <2> QED
    BY <1>2, <2>2, <2>3, <2>4, <2>5 DEF ObjectsInv
<1>9. FunctionInv'
  <2>1. ASSUME NEW op \in Operations
        PROVE  IF \E u \in opened' : op \in Sets[u]
               THEN function'[op] \in opened' /\ op \in Sets[function'[op]]
               ELSE function'[op] = "none"
    <3>1. CASE op \in Sets[t]
      BY <1>3, <3>1
    <3>2. CASE op \notin Sets[t]
      BY <1>1, <1>3, <3>2 DEF FunctionInv
    <3> QED
      BY <3>1, <3>2
  <2>2. \A op \in Sets[t] : function'[op] = t
    BY <1>3, SetsAreOperations
  <2> QED
    BY <1>3, <2>1, <2>2 DEF FunctionInv
<1>10. FilesInv'
  BY <1>1 DEF FilesInv, dump
<1> QED
  BY <1>4, <1>5, <1>6, <1>7, <1>8, <1>9, <1>10 DEF IInv, TypeOK

(***************************************************************************)
(* A BLE Init whose object does not connect.                               *)
(***************************************************************************)
LEMMA FailureKeeps == IInv /\ InitBLEFails => IInv'
<1> SUFFICES ASSUME IInv, InitBLEFails PROVE IInv'
  OBVIOUS
<1> USE ManagerAssumption
<1>1. /\ LimitsTyped /\ HeapTyped /\ ClientTyped
      /\ ObjectsInv /\ FunctionInv /\ FilesInv /\ MuxInv
  BY DEF IInv, TypeOK
<1>2. /\ m_initOk /\ net = "none" /\ net' = "failed"
      /\ Allocate("BLE", 1)
      /\ senderObject' = objects + 1 /\ receiverObject' = objects + 1
      /\ UNCHANGED <<m_initOk, managers, function, limits, dump, opened,
                     mux>>
  BY DEF InitBLEFails, Idle
<1>3. objects \in Nat /\ MaxObjects \in Nat
  BY <1>1 DEF HeapTyped
<1>4. LimitsTyped' /\ ClientTyped'
  BY <1>1, <1>2 DEF LimitsTyped, ClientTyped, limits, dump, mux
<1>5. HeapTyped'
  <2>1. objects' \in 0 .. MaxObjects /\ live' \subseteq Objects
    BY <1>1, <1>2, <1>3 DEF HeapTyped, Allocate, Objects
  <2>2. madeBy' \in [Objects -> Transports \cup {"none"}]
    BY <1>1, <1>2 DEF HeapTyped, Allocate, Transports
  <2>3. senderObject' \in 0 .. MaxObjects /\ receiverObject' \in 0 .. MaxObjects
    BY <1>2, <1>3 DEF Allocate
  <2> QED
    BY <1>1, <1>2, <2>1, <2>2, <2>3 DEF HeapTyped
<1>6. ObjectsInv'
  <2>1. live = {} /\ live' = objects + 1 .. objects + 1
    BY <1>1, <1>2 DEF ObjectsInv, Allocate
  <2>2. live' = {senderObject', receiverObject'} \ {0}
    BY <1>2, <1>3, <2>1
  <2>3. senderObject' <= objects' /\ receiverObject' <= objects'
    BY <1>2, <1>3 DEF Allocate
  <2>4. madeBy'[senderObject'] = "BLE" /\ madeBy'[receiverObject'] = "BLE"
    BY <1>2, <1>3 DEF Allocate, Objects
  <2> QED
    BY <1>2, <1>3, <2>2, <2>3, <2>4 DEF ObjectsInv, Holds
<1>7. FunctionInv'
  BY <1>1, <1>2 DEF FunctionInv, limits, Transports
<1>8. FilesInv'
  BY <1>1, <1>2 DEF FilesInv, dump
<1>9. MuxInv'
  BY <1>1, <1>2 DEF MuxInv, Count, mux, Idle, InitBLEFails
<1> QED
  BY <1>4, <1>5, <1>6, <1>7, <1>8, <1>9 DEF IInv, TypeOK

(***************************************************************************)
(* Close: the objects are freed and nothing else changes but the count of  *)
(* references to a mux context.                                            *)
(***************************************************************************)
LEMMA CloseKeeps == IInv /\ CloseStep => IInv'
<1> SUFFICES ASSUME IInv, CloseStep PROVE IInv'
  OBVIOUS
<1> USE ManagerAssumption
<1>1. /\ LimitsTyped /\ HeapTyped /\ ClientTyped
      /\ ObjectsInv /\ FunctionInv /\ FilesInv /\ MuxInv
  BY DEF IInv, TypeOK
<1>2. /\ net # "none" /\ Free
      /\ muxRefs' = muxRefs - Count(net = "Mux")
      /\ UNCHANGED <<muxHeld, muxStep>>
  <2> USE <1>1 DEF ClientTyped, Count, mux
  <2>1. CASE CloseWifi
    BY <2>1 DEF CloseWifi
  <2>2. CASE CloseMux
    BY <2>2 DEF CloseMux
  <2>3. CASE CloseBLE
    BY <2>3 DEF CloseBLE
  <2> QED
    BY <2>1, <2>2, <2>3 DEF CloseStep
<1>3. /\ live' = live \ {senderObject, receiverObject}
      /\ senderObject' = 0 /\ receiverObject' = 0 /\ net' = "none"
      /\ UNCHANGED <<m_initOk, managers, function, limits, dump, madeBy, objects,
                     opened>>
  BY <1>2 DEF Free
<1>4. LimitsTyped' /\ HeapTyped'
  BY <1>1, <1>3 DEF LimitsTyped, HeapTyped, limits, dump
<1>5. ObjectsInv'
  BY <1>1, <1>3 DEF ObjectsInv, HeapTyped
<1>6. FunctionInv'
  BY <1>1, <1>3 DEF FunctionInv, Transports
<1>7. FilesInv'
  BY <1>1, <1>3 DEF FilesInv, dump
<1>8. MuxInv'
  BY <1>1, <1>2, <1>3 DEF MuxInv, Count
<1>9. ClientTyped'
  <2>1. muxRefs' \in 0 .. 3
    BY <1>8 DEF MuxInv, Count
  <2> QED
    BY <1>1, <1>2, <1>3, <2>1 DEF ClientTyped, dump
<1> QED
  BY <1>4, <1>5, <1>6, <1>7, <1>8, <1>9 DEF IInv, TypeOK

(***************************************************************************)
(* The references to the mux context come and go one by one.               *)
(***************************************************************************)
LEMMA MuxKeeps == IInv /\ MuxStep => IInv'
<1> SUFFICES ASSUME IInv, MuxStep PROVE IInv'
  OBVIOUS
<1> USE ManagerAssumption
<1>1. /\ LimitsTyped /\ HeapTyped /\ ClientTyped
      /\ ObjectsInv /\ FunctionInv /\ FilesInv /\ MuxInv
  BY DEF IInv, TypeOK
<1>2. UNCHANGED <<m_initOk, managers, function, pointers, limits, dump, heap,
                  client>>
  BY DEF MuxStep, NewMuxRef, InitMuxFails, ReleaseMuxRef, GiveUpMux
<1>3. LimitsTyped' /\ HeapTyped'
  BY <1>1, <1>2 DEF LimitsTyped, HeapTyped, pointers, limits, dump, heap
<1>4. ObjectsInv' /\ FunctionInv' /\ FilesInv'
  BY <1>1, <1>2 DEF ObjectsInv, Holds, FunctionInv, FilesInv, pointers, limits,
                    dump, heap, client
<1>5. MuxInv'
  <2> USE <1>1, <1>2 DEF MuxInv, Count, ClientTyped, client
  <2>1. CASE NewMuxRef
    BY <2>1 DEF NewMuxRef, Idle
  <2>2. CASE InitMuxFails \/ ReleaseMuxRef
    BY <2>2 DEF InitMuxFails, ReleaseMuxRef
  <2>3. CASE GiveUpMux
    BY <2>3 DEF GiveUpMux
  <2> QED
    BY <2>1, <2>2, <2>3 DEF MuxStep
<1>6. ClientTyped'
  <2>1. muxRefs' \in 0 .. 3
    BY <1>5 DEF MuxInv, Count
  <2>2. muxHeld' \in BOOLEAN /\ muxStep' \in {"out", "init", "release"}
    BY <1>1 DEF ClientTyped, MuxStep, NewMuxRef, InitMuxFails, ReleaseMuxRef,
                GiveUpMux
  <2> QED
    BY <1>1, <1>2, <2>1, <2>2 DEF ClientTyped, dump, client
<1> QED
  BY <1>3, <1>4, <1>5, <1>6 DEF IInv, TypeOK

(***************************************************************************)
(* New, Delete, the dump file and a failed Wifi Init.                      *)
(***************************************************************************)
LEMMA NewKeeps == IInv /\ New => IInv'
<1> SUFFICES ASSUME IInv, New PROVE IInv'
  OBVIOUS
<1> USE ManagerAssumption
<1>1. /\ LimitsTyped /\ HeapTyped /\ ClientTyped
      /\ ObjectsInv /\ FunctionInv /\ FilesInv /\ MuxInv
  BY DEF IInv, TypeOK
<1>2. net = "none" /\ live = {} /\ muxStep = "out" /\ filesOpen = 0
  BY <1>1 DEF New, ObjectsInv, MuxInv, FilesInv
<1>3. LimitsTyped'
  BY <1>1 DEF LimitsTyped, New
<1>4. HeapTyped'
  BY <1>1 DEF HeapTyped, New, heap
<1>5. ClientTyped'
  BY <1>1 DEF ClientTyped, New, mux
<1>6. ObjectsInv'
  BY <1>1, <1>2 DEF ObjectsInv, HeapTyped, New, heap
<1>7. FunctionInv'
  BY <1>2 DEF FunctionInv, New, Transports
<1>8. FilesInv'
  BY <1>2 DEF FilesInv, New
<1>9. MuxInv'
  BY <1>1, <1>2 DEF MuxInv, Count, New, mux
<1> QED
  BY <1>3, <1>4, <1>5, <1>6, <1>7, <1>8, <1>9 DEF IInv, TypeOK

LEMMA OtherKeeps == IInv /\ OtherStep => IInv'
<1> SUFFICES ASSUME IInv, OtherStep PROVE IInv'
  OBVIOUS
<1> USE ManagerAssumption
<1>1. /\ LimitsTyped /\ HeapTyped /\ ClientTyped
      /\ ObjectsInv /\ FunctionInv /\ FilesInv /\ MuxInv
  BY DEF IInv, TypeOK
<1>2. UNCHANGED <<managers, function, limits, heap, client, mux>>
  BY DEF OtherStep, Delete, EnableDataDump, InitWifiFails
<1>3. /\ \/ UNCHANGED pointers
         \/ net = "none" /\ senderObject' = 0 /\ receiverObject' = 0
      /\ \/ m_initOk' = m_initOk
         \/ net = "none" /\ muxStep = "out"
  BY DEF OtherStep, Delete, EnableDataDump, InitWifiFails, Idle
<1>4. m_initOk' \in BOOLEAN /\ dumpFile' \in BOOLEAN
  BY <1>1 DEF ClientTyped, OtherStep, Delete, EnableDataDump, InitWifiFails, dump
<1>5. FilesInv'
  BY <1>1 DEF FilesInv, ClientTyped, OtherStep, Delete, EnableDataDump,
              InitWifiFails, dump, Idle
<1>6. LimitsTyped'
  BY <1>1, <1>2, <1>4, <1>5 DEF LimitsTyped, FilesInv, limits
<1>7. HeapTyped' /\ ClientTyped'
  BY <1>1, <1>2, <1>3, <1>4 DEF HeapTyped, ClientTyped, heap, client, mux, pointers
<1>8. ObjectsInv'
  BY <1>1, <1>2, <1>3 DEF ObjectsInv, Holds, heap, client, pointers
<1>9. FunctionInv'
  BY <1>1, <1>2 DEF FunctionInv, limits, client
<1>10. MuxInv'
  BY <1>1, <1>2, <1>3 DEF MuxInv, Count, client, mux
<1> QED
  BY <1>5, <1>6, <1>7, <1>8, <1>9, <1>10 DEF IInv, TypeOK

(***************************************************************************)
(* The invariant holds in every reachable state.                           *)
(***************************************************************************)
LEMMA Inductive == Spec => []IInv
<1>1. IInv /\ [Next]_vars => IInv'
  <2> SUFFICES ASSUME IInv, [Next]_vars PROVE IInv'
    OBVIOUS
  <2>1. CASE UNCHANGED vars
    BY <2>1 DEF IInv, TypeOK, LimitsTyped, HeapTyped, ClientTyped, ObjectsInv,
                Holds, FunctionInv, FilesInv, MuxInv, vars, pointers,
                limits, dump, heap, client, mux
  <2> QED
    BY <2>1, OpenKeeps, FailureKeeps, CloseKeeps, MuxKeeps, NewKeeps, OtherKeeps
       DEF Next, OpenStep, CloseStep, MuxStep, OtherStep
<1> QED
  BY Initially, <1>1, PTL DEF Spec

(***************************************************************************)
(* Typing: no object is numbered beyond those made, no file is closed that *)
(* is not open, and the mux context never has more than three references.  *)
(***************************************************************************)
THEOREM TypeCorrect == Spec => []TypeOK
<1>1. IInv => TypeOK
  BY DEF IInv
<1> QED
  BY <1>1, Inductive, PTL

(***************************************************************************)
(* An open manager is that of one network, whatever came before.           *)
(***************************************************************************)
LEMMA OpenIsWhole == IInv => OpenNetworkWhole
<1> SUFFICES ASSUME IInv, net \in Transports PROVE OpenNetworkWhole
  BY DEF OpenNetworkWhole
<1>1. ObjectsInv /\ FunctionInv
  BY DEF IInv
<1>2. Holds = net /\ net # "none" /\ m_initOk
  BY <1>1 DEF ObjectsInv, Holds, Transports
<1>3. OfNetwork(senderObject, net) /\ OfNetwork(receiverObject, net)
  BY <1>1, <1>2 DEF ObjectsInv, OfNetwork
<1>4. \A op \in Sets[net] : Runs(op) /\ Answer(op) = net
  BY <1>1, <1>2 DEF FunctionInv, Runs, Answer, Transports
<1> QED
  BY <1>1, <1>3, <1>4 DEF OpenNetworkWhole, FunctionInv

\* An open manager is that of one network, for any history of its Inits
\* (Manager.c:147-166, 240-250).
THEOREM OpenNetworkWholeHolds == Spec => []OpenNetworkWhole
BY OpenIsWhole, Inductive, PTL

(***************************************************************************)
(* What a call of any operation does, open, closed or failed: refused,     *)
(* run or astray as the networks opened so far have it.                    *)
(***************************************************************************)
THEOREM CallsFollowInitsHolds == Spec => []CallsFollowInits
<1>1. IInv => CallsFollowInits
  <2> SUFFICES ASSUME IInv, NEW op \in Operations
        PROVE  /\ Answer(op) = "MANAGER_OPERATION_NOT_SUPPORTED" <=>
                    m_initOk /\ op \notin Frames /\ \A t \in opened : op \notin Sets[t]
               /\ Runs(op) => Answer(op) \in opened /\ op \in Sets[Answer(op)]
               /\ GoesAstray(op) <=>
                    \/ op \in Frames /\ (m_initOk => opened = {})
                    \/ /\ Runs(op) /\ op \in Uses[Answer(op)]
                       /\ Answer(op) # Holds
                       /\ ~(/\ Holds = "none" /\ Answer(op) = "Wifi"
                            /\ op \in TestForNull)
    BY DEF CallsFollowInits
  <2>1. /\ ObjectsInv /\ FunctionInv
        /\ opened \subseteq Transports
        /\ net \in Transports \cup {"none", "failed"}
        /\ function \in [Operations -> Transports \cup {"none"}]
    BY DEF IInv, TypeOK, ClientTyped, HeapTyped
  <2>2. "none" \notin opened /\ \A t \in Transports : t # "none"
    BY <2>1 DEF Transports
  <2>3. IF \E t \in opened : op \in Sets[t]
        THEN function[op] \in opened /\ op \in Sets[function[op]]
        ELSE function[op] = "none"
    BY <2>1 DEF FunctionInv
  <2>4. /\ Runs(op) <=> m_initOk /\ function[op] # "none"
        /\ Runs(op) => Answer(op) = function[op]
    BY <2>1 DEF Runs, Answer, Transports
  <2>5. /\ Answer(op) = "MANAGER_OPERATION_NOT_SUPPORTED" <=>
             m_initOk /\ function[op] = "none" /\ op \notin Frames
        /\ Answer(op) = "NULL_POINTER" <=>
             op \in Frames /\ (m_initOk => function[op] = "none")
    <3>1. function[op] \in {"Wifi", "Mux", "BLE", "none"}
      BY <2>1 DEF Transports
    <3>2. CASE m_initOk /\ function[op] # "none"
      <4>1. Answer(op) \in {"Wifi", "Mux", "BLE"}
        BY <3>1, <3>2 DEF Answer
      <4> QED
        BY <3>2, <4>1
    <3>3. CASE ~(m_initOk /\ function[op] # "none") /\ op \in Frames
      <4>1. Answer(op) = "NULL_POINTER"
        BY <3>3 DEF Answer
      <4> QED
        BY <3>3, <4>1
    <3>4. CASE m_initOk /\ function[op] = "none" /\ op \notin Frames
      <4>1. Answer(op) = "MANAGER_OPERATION_NOT_SUPPORTED"
        BY <3>4 DEF Answer
      <4> QED
        BY <3>4, <4>1
    <3>5. CASE ~m_initOk /\ op \notin Frames
      <4>1. Answer(op) = "BAD_PARAMETER"
        BY <3>5 DEF Answer
      <4> QED
        BY <3>5, <4>1
    <3> QED
      BY <3>2, <3>3, <3>4, <3>5
  <2>7. op \in Frames => \A t \in Transports : op \in Sets[t]
    BY DEF Frames, Sets, Transports, Operations, Everywhere, ClassSelectors
  <2>8. op \in Frames => (function[op] = "none" <=> opened = {})
    BY <2>1, <2>2, <2>3, <2>7
  <2>9. ASSUME NEW t \in Transports, NEW o \in {senderObject, receiverObject}
        PROVE  (OfNetwork(o, t) <=> Holds = t) /\ (o = 0 <=> Holds = "none")
    <3>1. Holds = "none" <=> net = "none"
      BY <2>1 DEF Holds
    <3>2. CASE net = "none"
      BY <2>1, <2>2, <3>1, <3>2 DEF ObjectsInv, OfNetwork
    <3>3. CASE net # "none"
      BY <2>1, <3>1, <3>3 DEF ObjectsInv, OfNetwork
    <3> QED
      BY <3>2, <3>3
  <2>10. ASSUME Runs(op)
         PROVE  GoesAstray(op) <=>
                  /\ op \in Uses[Answer(op)] /\ Answer(op) # Holds
                  /\ ~(/\ Holds = "none" /\ Answer(op) = "Wifi"
                       /\ op \in TestForNull)
    <3>1. Answer(op) \in Transports /\ Answer(op) # "NULL_POINTER"
      BY <2>10 DEF Runs, Transports
    <3> QED
      BY <2>9, <2>10, <3>1 DEF GoesAstray
  <2>11. Runs(op) => ~(op \in Frames /\ (m_initOk => opened = {}))
    BY <2>4, <2>8
  <2>12. ~Runs(op) => (GoesAstray(op) <=> op \in Frames /\ (m_initOk => opened = {}))
    BY <2>5, <2>8, <2>4 DEF GoesAstray
  <2>13. Runs(op) => Answer(op) \in opened /\ op \in Sets[Answer(op)]
    BY <2>3, <2>4
  <2>14. function[op] = "none" <=> \A t \in opened : op \notin Sets[t]
    BY <2>2, <2>3
  <2> QED
    BY <2>5, <2>10, <2>11, <2>12, <2>13, <2>14
<1> QED
  BY <1>1, Inductive, PTL

(***************************************************************************)
(* Nothing is leaked: what is not freed is held, and not by a dead manager.*)
(***************************************************************************)
THEOREM NothingLostHolds == Spec => []NothingLost
<1>1. IInv => NothingLost
  BY DEF IInv, ObjectsInv, FilesInv, NothingLost
<1> QED
  BY <1>1, Inductive, PTL

(***************************************************************************)
(* The count of references to the mux context is that of its users.        *)
(***************************************************************************)
THEOREM MuxContextKeptHolds == Spec => []MuxContextKept
<1>1. IInv => MuxContextKept
  <2> SUFFICES ASSUME IInv PROVE MuxContextKept
    OBVIOUS
  <2> DEFINE Own == {o \in live : madeBy[o] = "Mux"}
  <2>1. ObjectsInv /\ MuxInv
    BY DEF IInv
  <2>2. CASE net = "Mux"
    <3>1. Own = {senderObject}
      BY <2>1, <2>2 DEF ObjectsInv, Holds
    <3>2. Cardinality(Own) = 1
      BY <3>1, FS_Singleton
    <3> QED
      BY <2>1, <2>2, <3>2 DEF MuxInv, Count, MuxContextKept
  <2>3. CASE net # "Mux"
    <3>1. Own = {}
      BY <2>1, <2>3 DEF ObjectsInv, Holds
    <3>2. Cardinality(Own) = 0
      BY <3>1, FS_EmptySet
    <3> QED
      BY <2>1, <2>3, <3>2 DEF MuxInv, Count, MuxContextKept
  <2> QED
    BY <2>2, <2>3
<1> QED
  BY <1>1, Inductive, PTL
=============================================================================
