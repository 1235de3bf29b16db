------------------------ MODULE WifiLifecycle_proofs ------------------------
(***************************************************************************)
(* Proofs about the life of a Wifi manager's objects, for any number of    *)
(* calls of InitWifiNetwork and CloseWifiNetwork.                          *)
(***************************************************************************)
EXTENDS WifiLifecycle, TLAPS

(***************************************************************************)
(* bw_threadRunning is a mutex between the bandwidth thread and Delete: a  *)
(* holder has brought it to zero, and there is one holder at most.         *)
(***************************************************************************)
ThreadHas(o) ==
  threadPc \in IF o = "sender"
               THEN {"takeReceiver", "wait", "postReceiver", "postSender"}
               ELSE {"wait", "postReceiver"}

DeleteHas(o) == deleting = o /\ deleteStep = "free"

MutexInv ==
  \A o \in Objects :
    /\ ThreadHas(o) => Valid(o) /\ running[o] = 0 /\ ~DeleteHas(o)
    /\ DeleteHas(o) => running[o] = 0
    /\ object[o] = 0 => running[o] = 0

\* Delete has something to delete, once it is past the test for NULL.
DeleteInv == deleteStep # "post" => deleting # "none" /\ object[deleting] # 0

(***************************************************************************)
(* Typing holds in every reachable state (it rests on MutexInv: a          *)
(* semaphore that two could post would leave its range).                   *)
(***************************************************************************)
THEOREM TypeCorrect == Spec => [](TypeOK /\ MutexInv /\ DeleteInv)
<1> USE LifecycleAssumption DEF Objects
<1>1. Init => TypeOK /\ MutexInv /\ DeleteInv
  <2> SUFFICES ASSUME Init PROVE TypeOK /\ MutexInv /\ DeleteInv
    OBVIOUS
  <2>1. /\ None \in [Objects -> 0 .. MaxInits] /\ None \in [Objects -> Nat]
        /\ None \in [Objects -> 0 .. 1] /\ \A o \in Objects : None[o] = 0
    BY DEF None
  <2>2. TypeOK
    BY <2>1 DEF Init, TypeOK, PCs
  <2>3. MutexInv /\ DeleteInv
    BY <2>1 DEF Init, MutexInv, DeleteInv, ThreadHas, DeleteHas
  <2> QED
    BY <2>2, <2>3
<1>2. TypeOK /\ MutexInv /\ DeleteInv /\ [Next]_vars
        => (TypeOK /\ MutexInv /\ DeleteInv)'
  <2> SUFFICES ASSUME TypeOK, MutexInv, DeleteInv, [Next]_vars
               PROVE  (TypeOK /\ MutexInv /\ DeleteInv)'
    OBVIOUS
  <2> USE DEF TypeOK, PCs, MutexInv, DeleteInv, ThreadHas, DeleteHas, Valid,
              client, thread
  <2>1. CASE InitSucceeds
    BY <2>1 DEF InitSucceeds, Allocate, None
  <2>2. CASE InitFails
    <3> PICK made \in {{}, {"sender"}, Objects} : Allocate(made)
      BY <2>2 DEF InitFails
    <3> QED
      BY <2>2 DEF InitFails, Allocate, None
  <2>3. CASE Close
    BY <2>3 DEF Close
  <2>4. CASE SkipMissing
    BY <2>4 DEF SkipMissing, NextObject
  <2>5. CASE PostStop
    BY <2>5 DEF PostStop
  <2>6. CASE WaitForThread
    BY <2>6 DEF WaitForThread
  <2>7. CASE Free
    BY <2>7 DEF Free, NextObject
  <2>8. CASE StartThread \/ LoadObjects
    BY <2>8 DEF StartThread, LoadObjects, ThreadGoto
  <2>9. CASE TakeSender
    BY <2>9 DEF TakeSender, Take, ThreadGoto
  <2>10. CASE TakeReceiver
    BY <2>10 DEF TakeReceiver, Take, ThreadGoto
  <2>11. CASE Progress \/ StopSeen \/ Interrupted
    BY <2>11 DEF Progress, StopSeen, Interrupted, ThreadGoto
  <2>12. CASE PostReceiver
    BY <2>12 DEF PostReceiver, Post, ThreadGoto
  <2>13. CASE PostSender
    BY <2>13 DEF PostSender, Post, ThreadGoto
  <2>14. CASE UNCHANGED vars
    BY <2>14 DEF vars
  <2> QED
    BY <2>1, <2>2, <2>3, <2>4, <2>5, <2>6, <2>7, <2>8, <2>9, <2>10, <2>11,
       <2>12, <2>13, <2>14 DEF Next, Delete, BandwidthThread
<1> QED
  BY <1>1, <1>2, PTL DEF Spec

(***************************************************************************)
(* A client that waits for the thread to be at work before it closes: while*)
(* the thread is on its way to the semaphores, nobody deletes anything.    *)
(***************************************************************************)
StartInv ==
  /\ ThreadTakesSemaphores =>
       deleting = "none" /\ \A o \in Objects : object[o] # 0
  /\ threadPc \in {"takeSender", "takeReceiver"} => held = object

LEMMA StartHolds ==
  ASSUME StartsFirst PROVE Spec => []StartInv
<1> USE LifecycleAssumption DEF Objects, StartInv, ThreadTakesSemaphores
<1>1. Init => StartInv
  BY DEF Init
<1>2. TypeOK /\ MutexInv /\ DeleteInv /\ StartInv /\ [Next]_vars => StartInv'
  <2> SUFFICES ASSUME TypeOK, MutexInv, DeleteInv, StartInv, [Next]_vars
               PROVE  StartInv'
    OBVIOUS
  <2> USE DEF client, thread
  <2>1. CASE InitSucceeds \/ InitFails
    <3>1. object = None /\ UNCHANGED thread
      BY <2>1 DEF InitSucceeds, InitFails, Allocate
    <3>2. ~ThreadTakesSemaphores
      BY <3>1 DEF None
    <3> QED
      BY <3>1, <3>2
  <2>2. CASE Close
    BY <2>2 DEF Close
  <2>3. CASE Delete
    BY <2>3 DEF Delete, SkipMissing, PostStop, WaitForThread, Free
  <2>4. CASE StartThread
    BY <2>4 DEF StartThread
  <2>5. CASE LoadObjects
    BY <2>5 DEF LoadObjects, ThreadGoto
  <2>6. CASE TakeSender
    BY <2>6 DEF TakeSender, Take, ThreadGoto
  <2>7. CASE TakeReceiver
    BY <2>7 DEF TakeReceiver, Take, ThreadGoto
  <2>8. CASE Progress \/ StopSeen \/ Interrupted
    BY <2>8 DEF Progress, StopSeen, Interrupted, ThreadGoto
  <2>9. CASE PostReceiver \/ PostSender
    BY <2>9 DEF PostReceiver, PostSender, Post, ThreadGoto
  <2>10. CASE UNCHANGED vars
    BY <2>10 DEF vars
  <2> QED
    BY <2>1, <2>2, <2>3, <2>4, <2>5, <2>6, <2>7, <2>8, <2>9, <2>10
       DEF Next, BandwidthThread
<1> QED
  BY <1>1, <1>2, TypeCorrect, PTL DEF Spec

(***************************************************************************)
(* For such a client, Close never frees an object the bandwidth thread     *)
(* still works on (c:315-357, c:373-442).                                  *)
(***************************************************************************)
THEOREM NoUseAfterFreeHolds ==
  ASSUME StartsFirst PROVE Spec => []NoUseAfterFree
<1> USE DEF Objects, StartInv, ThreadTakesSemaphores
<1>1. MutexInv /\ StartInv => NoUseAfterFree
  BY DEF MutexInv, NoUseAfterFree, UsesSender, UsesReceiver, ThreadHas, Valid
<1> QED
  BY <1>1, StartHolds, TypeCorrect, PTL

(***************************************************************************)
(* Delete waits for a semaphore only while the thread has it and is about  *)
(* to give it back: it has seen the stop, or will, as bw_sem is posted.    *)
(***************************************************************************)
OnItsWay == threadPc \in {"postReceiver", "postSender"}

NeverStuck ==
  deleting # "none" /\ deleteStep = "wait" /\ running[deleting] = 0 =>
    OnItsWay \/ (threadPc = "wait" /\ bwSem["sender"] > 0)

\* Who has a semaphore, seen from the semaphore; Delete reaches the receiver
\* when the thread is through with both.
OwnerInv ==
  /\ \A o \in Objects :
       object[o] # 0 /\ running[o] = 0 => ThreadHas(o) \/ DeleteHas(o)
  /\ deleting = "receiver" => ~ThreadHas("sender") /\ ~ThreadHas("receiver")
  /\ deleting = "sender" /\ deleteStep = "wait" /\ threadPc = "wait" =>
       bwSem["sender"] > 0
  /\ deleting = "sender" /\ deleteStep = "free" =>
       ~ThreadHas("sender") /\ ~ThreadHas("receiver")

(***************************************************************************)
(* Close cannot deadlock with the thread of a client that waits for it to  *)
(* be at work, nor can an Init that fails: what CloseReturns says short of *)
(* the scheduling (c:398-404, c:315-357).                                  *)
(***************************************************************************)
THEOREM CloseNeverStuck ==
  ASSUME StartsFirst PROVE Spec => []NeverStuck
<1> USE LifecycleAssumption DEF Objects
<1>1. Init => StartInv /\ OwnerInv
  <2> SUFFICES ASSUME Init PROVE StartInv /\ OwnerInv
    OBVIOUS
  <2>1. \A o \in Objects : object[o] = 0
    BY DEF Init, None
  <2> QED
    BY <2>1 DEF Init, StartInv, ThreadTakesSemaphores, OwnerInv, ThreadHas
<1>2. TypeOK /\ MutexInv /\ DeleteInv /\ StartInv /\ OwnerInv /\ [Next]_vars
        => OwnerInv'
  <2> SUFFICES ASSUME TypeOK, MutexInv, DeleteInv, StartInv, OwnerInv,
                      [Next]_vars
               PROVE  OwnerInv'
    OBVIOUS
  <2> USE DEF TypeOK, PCs, MutexInv, DeleteInv, OwnerInv, ThreadHas, DeleteHas,
              client, thread
  <2>1. CASE InitSucceeds
    BY <2>1 DEF InitSucceeds, Allocate, None, Valid
  <2>2. CASE InitFails
    <3> PICK made \in {{}, {"sender"}, Objects} : Allocate(made)
      BY <2>2 DEF InitFails
    <3> QED
      BY <2>2 DEF InitFails, Allocate, None, Valid
  <2>3. CASE Close
    BY <2>3 DEF Close
  <2>4. CASE SkipMissing
    BY <2>4 DEF SkipMissing, NextObject, Valid
  <2>5. CASE PostStop
    BY <2>5 DEF PostStop
  <2>6. CASE WaitForThread
    BY <2>6 DEF WaitForThread
  <2>7. CASE Free
    BY <2>7 DEF Free, NextObject
  <2>8. CASE StartThread \/ LoadObjects
    BY <2>8 DEF StartThread, LoadObjects, ThreadGoto
  <2>9. CASE TakeSender
    BY <2>9 DEF TakeSender, Take, ThreadGoto, StartInv, ThreadTakesSemaphores
  <2>10. CASE TakeReceiver
    BY <2>10 DEF TakeReceiver, Take, ThreadGoto, StartInv,
                 ThreadTakesSemaphores
  <2>11. CASE Progress \/ StopSeen \/ Interrupted
    BY <2>11 DEF Progress, StopSeen, Interrupted, ThreadGoto
  <2>12. CASE PostReceiver
    BY <2>12 DEF PostReceiver, Post, ThreadGoto
  <2>13. CASE PostSender
    BY <2>13 DEF PostSender, Post, ThreadGoto
  <2>14. CASE UNCHANGED vars
    BY <2>14 DEF vars
  <2> QED
    BY <2>1, <2>2, <2>3, <2>4, <2>5, <2>6, <2>7, <2>8, <2>9, <2>10, <2>11,
       <2>12, <2>13, <2>14 DEF Next, Delete, BandwidthThread
<1>3. TypeOK /\ DeleteInv /\ StartInv /\ OwnerInv => NeverStuck
  BY DEF TypeOK, DeleteInv, StartInv, ThreadTakesSemaphores, OwnerInv,
         NeverStuck, OnItsWay, ThreadHas, DeleteHas
<1> QED
  BY <1>1, <1>2, <1>3, StartHolds, TypeCorrect, PTL DEF Spec

(***************************************************************************)
(* How far Delete has come with the two objects.                           *)
(***************************************************************************)
PairInv ==
  /\ deleting = "receiver" => object["sender"] = 0
  /\ deleting = "none" => object["sender"] = object["receiver"]
  /\ deleting = "none" /\ object["sender"] # 0 => hooked

(***************************************************************************)
(* Whichever step of Init fails and whatever the thread does, a client     *)
(* that is not inside of a call sees both objects or none (Manager.c:168). *)
(***************************************************************************)
THEOREM AllOrNothingHolds == Spec => []AllOrNothing
<1> USE LifecycleAssumption DEF Objects, PairInv
<1>1. Init => PairInv
  BY DEF Init, None
<1>2. TypeOK /\ PairInv /\ [Next]_vars => PairInv'
  <2> SUFFICES ASSUME TypeOK, PairInv, [Next]_vars PROVE PairInv'
    OBVIOUS
  <2> USE DEF TypeOK, client, thread
  <2>1. CASE InitSucceeds
    BY <2>1 DEF InitSucceeds, Allocate
  <2>2. CASE InitFails
    BY <2>2 DEF InitFails
  <2>3. CASE Close
    BY <2>3 DEF Close
  <2>4. CASE SkipMissing \/ Free
    BY <2>4 DEF SkipMissing, Free, NextObject
  <2>5. CASE PostStop \/ WaitForThread
    BY <2>5 DEF PostStop, WaitForThread
  <2>6. CASE StartThread \/ BandwidthThread
    BY <2>6 DEF StartThread, BandwidthThread, LoadObjects, TakeSender,
                TakeReceiver, Progress, StopSeen, Interrupted, PostReceiver,
                PostSender, ThreadGoto
  <2>7. CASE UNCHANGED vars
    BY <2>7 DEF vars
  <2> QED
    BY <2>1, <2>2, <2>3, <2>4, <2>5, <2>6, <2>7 DEF Next, Delete
<1>3. PairInv => AllOrNothing
  BY DEF AllOrNothing
<1> QED
  BY <1>1, <1>2, <1>3, TypeCorrect, PTL DEF Spec
=============================================================================
