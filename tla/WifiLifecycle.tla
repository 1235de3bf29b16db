---------------------------- MODULE WifiLifecycle ----------------------------
(***************************************************************************)
(* The life of a Wifi manager's two objects: InitWifiNetwork allocates     *)
(* and connects them or undoes what it did, CloseWifiNetwork frees them,   *)
(* and the bandwidth thread, which Close has to stop first, works on both. *)
(* Each object has two semaphores: bw_sem, which Close posts to stop the   *)
(* thread, and bw_threadRunning, which whoever uses the object holds.      *)
(***************************************************************************)
EXTENDS Integers

CONSTANTS
  MaxInits,    \* bound on the calls of InitWifiNetwork
  StartsFirst  \* the client closes only once its thread has taken both
               \* semaphores, and starts it on an open manager

ASSUME LifecycleAssumption == MaxInits \in Nat /\ StartsFirst \in BOOLEAN

Objects == {"sender", "receiver"}

VARIABLES
  object,      \* the allocation manager->xxxObject points to, 0 for NULL
  bwSem,       \* bw_sem of each object
  running,     \* bw_threadRunning of each object
  hooked,      \* the manager's function pointers are set
  inits,       \* number of calls of InitWifiNetwork
  deleting,    \* the object Delete is at, or "none"
  deleteStep,  \* what Delete does next with it
  threadPc,    \* where the bandwidth thread is
  held         \* the allocations the thread works on

client == <<hooked, inits, deleting, deleteStep>>
thread == <<threadPc, held>>
vars   == <<object, bwSem, running, client, thread>>

None == [o \in Objects |-> 0]

Init ==
  /\ object = None /\ bwSem = None /\ running = None
  /\ hooked = FALSE /\ inits = 0 /\ deleting = "none" /\ deleteStep = "post"
  /\ threadPc = "none" /\ held = None
-----------------------------------------------------------------------------
(* InitWifiNetwork: New, Connect and Bind, then the function pointers.     *)

\* The objects of New: fresh allocations, no stop asked, nobody running.
Allocate(made) ==
  /\ inits < MaxInits /\ inits' = inits + 1
  /\ deleting = "none" /\ object = None
  /\ object' = [o \in Objects |-> IF o \in made THEN inits' ELSE 0]
  /\ bwSem' = None
  /\ running' = [o \in Objects |-> IF o \in made THEN 1 ELSE 0]
  /\ UNCHANGED <<deleteStep, thread>>

InitSucceeds ==
  /\ Allocate(Objects)
  /\ hooked' = TRUE
  /\ UNCHANGED deleting

\* Faulty: the error is returned without undoing New.
InitFailsLeavesObjects ==
  /\ \E made \in {{}, {"sender"}, Objects} : Allocate(made)
  /\ UNCHANGED <<hooked, deleting>>

\* An allocation, Connect or Bind fails, and Delete undoes what was made.
InitFails ==
  /\ \E made \in {{}, {"sender"}, Objects} : Allocate(made)
  /\ deleting' = "sender"
  /\ UNCHANGED hooked
-----------------------------------------------------------------------------
(* CloseWifiNetwork: Delete, first the sender, then the receiver.          *)

ThreadTakesSemaphores == threadPc \in {"start", "takeSender", "takeReceiver"}

Close ==
  /\ deleting = "none" /\ deleting' = "sender"
  /\ StartsFirst => ~ThreadTakesSemaphores
  /\ UNCHANGED <<object, bwSem, running, hooked, inits, deleteStep, thread>>

NextObject == IF deleting = "sender" THEN "receiver" ELSE "none"

SkipMissing ==
  /\ deleting # "none" /\ deleteStep = "post" /\ object[deleting] = 0
  /\ deleting' = NextObject
  /\ UNCHANGED <<object, bwSem, running, hooked, inits, deleteStep, thread>>

\* Faulty: the thread is not told to stop.
NoPostStop ==
  /\ deleting # "none" /\ deleteStep = "post" /\ object[deleting] # 0
  /\ deleteStep' = "wait"
  /\ UNCHANGED <<object, bwSem, running, hooked, inits, deleting, thread>>

PostStop ==
  /\ deleting # "none" /\ deleteStep = "post" /\ object[deleting] # 0
  /\ bwSem' = [bwSem EXCEPT ![deleting] = @ + 1]
  /\ deleteStep' = "wait"
  /\ UNCHANGED <<object, running, hooked, inits, deleting, thread>>

\* Faulty: Delete does not wait for the thread.
NoWaitForThread ==
  /\ deleting # "none" /\ deleteStep = "wait"
  /\ deleteStep' = "free"
  /\ UNCHANGED <<object, bwSem, running, hooked, inits, deleting, thread>>

WaitForThread ==
  /\ deleting # "none" /\ deleteStep = "wait"
  /\ running[deleting] > 0
  /\ running' = [running EXCEPT ![deleting] = @ - 1]
  /\ deleteStep' = "free"
  /\ UNCHANGED <<object, bwSem, hooked, inits, deleting, thread>>

\* The semaphores are destroyed with the object.
Free ==
  /\ deleting # "none" /\ deleteStep = "free"
  /\ object' = [object EXCEPT ![deleting] = 0]
  /\ bwSem' = [bwSem EXCEPT ![deleting] = 0]
  /\ running' = [running EXCEPT ![deleting] = 0]
  /\ deleting' = NextObject /\ deleteStep' = "post"
  /\ UNCHANGED <<hooked, inits, thread>>

Delete == SkipMissing \/ PostStop \/ WaitForThread \/ Free
-----------------------------------------------------------------------------
(* The bandwidth thread.  Its steps are those it takes on live objects:    *)
(* once it works on a freed one, its behaviour is undefined.               *)

Valid(o) == held[o] = object[o] /\ object[o] # 0

\* The client starts the thread, once in the life of a manager.
StartThread ==
  /\ threadPc = "none" /\ deleting = "none" /\ hooked
  /\ StartsFirst => \A o \in Objects : object[o] # 0
  /\ threadPc' = "start"
  /\ UNCHANGED <<object, bwSem, running, client, held>>

ThreadGoto(from, to) ==
  /\ threadPc = from /\ threadPc' = to
  /\ UNCHANGED <<object, client>>

LoadObjects ==
  /\ ThreadGoto("start", "takeSender")
  /\ held' = object
  /\ UNCHANGED <<bwSem, running>>

Take(o) ==
  /\ Valid(o) /\ running[o] > 0
  /\ running' = [running EXCEPT ![o] = @ - 1]
  /\ UNCHANGED <<bwSem, held>>

TakeSender == ThreadGoto("takeSender", "takeReceiver") /\ Take("sender")

TakeReceiver == ThreadGoto("takeReceiver", "wait") /\ Take("receiver")

\* A second without a stop: the counters of both objects are moved on.
Progress ==
  /\ ThreadGoto("wait", "wait")
  /\ \A o \in Objects : Valid(o)
  /\ bwSem["sender"] = 0
  /\ UNCHANGED <<bwSem, running, held>>

StopSeen ==
  /\ ThreadGoto("wait", "postReceiver")
  /\ Valid("sender") /\ bwSem["sender"] > 0
  /\ bwSem' = [bwSem EXCEPT !["sender"] = @ - 1]
  /\ UNCHANGED <<running, held>>

\* Any errno but ETIMEDOUT, as EINTR, ends the thread as a stop does.
Interrupted ==
  /\ ThreadGoto("wait", "postReceiver")
  /\ Valid("sender")
  /\ UNCHANGED <<bwSem, running, held>>

Post(o) ==
  /\ Valid(o)
  /\ running' = [running EXCEPT ![o] = @ + 1]
  /\ UNCHANGED <<bwSem, held>>

\* Faulty: the thread ends without giving the sender back.
PostSenderForgotten ==
  ThreadGoto("postSender", "done") /\ UNCHANGED <<bwSem, running, held>>

PostReceiver == ThreadGoto("postReceiver", "postSender") /\ Post("receiver")

PostSender == ThreadGoto("postSender", "done") /\ Post("sender")

BandwidthThread ==
  \/ LoadObjects \/ TakeSender \/ TakeReceiver \/ Progress \/ StopSeen
  \/ Interrupted \/ PostReceiver \/ PostSender
-----------------------------------------------------------------------------
Next ==
  \/ InitSucceeds \/ InitFails \/ Close \/ Delete
  \/ StartThread \/ BandwidthThread

Spec == Init /\ [][Next]_vars

\* Both threads are scheduled; no interruption is counted on.
FairSpec ==
  /\ Spec
  /\ WF_vars(Delete)
  /\ WF_vars(BandwidthThread /\ ~Interrupted)
-----------------------------------------------------------------------------
PCs == {"none", "start", "takeSender", "takeReceiver", "wait", "postReceiver",
        "postSender", "done"}

TypeOK ==
  /\ object \in [Objects -> 0 .. MaxInits]
  /\ bwSem \in [Objects -> Nat] /\ running \in [Objects -> 0 .. 1]
  /\ hooked \in BOOLEAN /\ inits \in 0 .. MaxInits
  /\ deleting \in Objects \cup {"none"}
  /\ deleteStep \in {"post", "wait", "free"}
  /\ threadPc \in PCs /\ held \in [Objects -> 0 .. MaxInits]

UsesSender == {"takeSender", "takeReceiver", "wait", "postReceiver",
               "postSender"}

UsesReceiver == UsesSender \ {"postSender"}

(***************************************************************************)
(* Close never frees an object under the bandwidth thread: from the        *)
(* moment it has read the manager's pointers until its last post, what it  *)
(* works on, or waits on, is still allocated (c:315-357, c:373-442).       *)
(***************************************************************************)
NoUseAfterFree ==
  /\ threadPc \in UsesSender => Valid("sender")
  /\ threadPc \in UsesReceiver => Valid("receiver")

(***************************************************************************)
(* Between two calls the client never sees half a manager: an Init that    *)
(* fails at any point gives back what it made, and Close gives back both.  *)
(***************************************************************************)
AllOrNothing ==
  deleting = "none" =>
    /\ object["sender"] = object["receiver"]
    /\ object["sender"] # 0 => hooked

(***************************************************************************)
(* "The thread will be stopped by the ARNETWORKAL_Manager_CloseXxxx()      *)
(* call" (Manager.h:277): a Close that meets the thread at work ends it.   *)
(***************************************************************************)
CloseStopsThread ==
  (deleting = "sender" /\ threadPc = "wait") ~> threadPc = "done"

(***************************************************************************)
(* Close, and an Init that fails, return: Delete waits for the thread and  *)
(* the thread for Delete, but never each for the other, whether the thread *)
(* was started or not, is running or has ended on its own.                 *)
(***************************************************************************)
CloseReturns == deleting # "none" ~> deleting = "none"
=============================================================================
