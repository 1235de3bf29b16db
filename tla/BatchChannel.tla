----------------------------- MODULE BatchChannel -----------------------------
(***************************************************************************)
(* What a sending half promises the client that pushes frames into it: an  *)
(* accepted frame waits behind those accepted before it, and all that wait *)
(* leave together, in their order, or are lost together.                   *)
(***************************************************************************)
EXTENDS Naturals, Sequences

CONSTANT Frames  \* the frames, each of them offered until it is accepted

VARIABLES
  accepted,  \* every frame ever accepted, in order
  waiting,   \* the frames of the current batch
  sent       \* the frames that have left, in order

vars == <<accepted, waiting, sent>>

Init == accepted = <<>> /\ waiting = <<>> /\ sent = <<>>

Accept(f) ==
  /\ \A i \in 1 .. Len(accepted) : accepted[i] # f
  /\ accepted' = Append(accepted, f)
  /\ waiting' = Append(waiting, f)
  /\ UNCHANGED sent

Deliver ==
  /\ waiting' = <<>>
  /\ sent' = sent \o waiting
  /\ UNCHANGED accepted

Lose ==
  /\ waiting' = <<>>
  /\ UNCHANGED <<accepted, sent>>

Next == (\E f \in Frames : Accept(f)) \/ Deliver \/ Lose

Spec == Init /\ [][Next]_vars
=============================================================================
