------------------------------- MODULE MtFifo -------------------------------
(***************************************************************************)
(* What the buffers of MTask promise their users: a bounded first-in       *)
(* first-out channel.  Message queues move one message at a time, pipes    *)
(* any number of bytes.                                                    *)
(***************************************************************************)
EXTENDS Naturals, Sequences

CONSTANT Capacity

VARIABLES
  chan,        \* what has been put and not yet got, in order
  delivered    \* what the last get returned

Init == chan = <<>> /\ delivered = <<>>

Put ==
  /\ Len(chan) < Len(chan') /\ Len(chan') <= Capacity
  /\ SubSeq(chan', 1, Len(chan)) = chan
  /\ UNCHANGED delivered

Get ==
  \E n \in 1 .. Len(chan) :
    /\ delivered' = SubSeq(chan, 1, n)
    /\ chan' = SubSeq(chan, n + 1, Len(chan))

Next == Put \/ Get

Spec == Init /\ [][Next]_<<chan, delivered>>

=============================================================================
