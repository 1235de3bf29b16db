---------------------------- MODULE DatagramQueue ----------------------------
(***************************************************************************)
(* What a receiving half promises the client that pops frames out of it:   *)
(* datagrams are handled one at a time in the order they arrived; each is  *)
(* lost as a whole, or its frames are handed over one by one from the      *)
(* first, and nothing of it is left out save what follows a malformed      *)
(* frame.                                                                  *)
(***************************************************************************)
EXTENDS Naturals, Sequences

CONSTANTS
  Arrivals,   \* what may arrive
  Readable,   \* the arrivals that carry frames
  Malformed   \* a frame that cannot be handed over

VARIABLES
  waiting,  \* the datagrams that have arrived, in order
  reading   \* what is left of the datagram being handed over

vars == <<waiting, reading>>

Init == waiting = <<>> /\ reading = <<>>

Arrive(d) == waiting' = Append(waiting, d) /\ UNCHANGED reading

Take ==
  /\ reading = <<>> /\ waiting # <<>>
  /\ Head(waiting) \in Readable
  /\ reading' = Head(waiting)
  /\ waiting' = Tail(waiting)

Lose ==
  /\ reading = <<>> /\ waiting # <<>>
  /\ waiting' = Tail(waiting)
  /\ UNCHANGED reading

HandOver ==
  /\ reading # <<>> /\ Head(reading) # Malformed
  /\ reading' = Tail(reading)
  /\ UNCHANGED waiting

GiveUp ==
  /\ reading # <<>> /\ Head(reading) = Malformed
  /\ reading' = <<>>
  /\ UNCHANGED waiting

Next == (\E d \in Arrivals : Arrive(d)) \/ Take \/ Lose \/ HandOver \/ GiveUp

Spec == Init /\ [][Next]_vars
=============================================================================
