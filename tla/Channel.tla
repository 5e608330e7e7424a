------------------------------- MODULE Channel -------------------------------
(***************************************************************************)
(* What one direction of the transport promises: a bounded channel between *)
(* two processors that delivers every message once, unaltered, in order.   *)
(* RemoteSend.tla and Arrivals.tla implement it over a vring.              *)
(***************************************************************************)
EXTENDS Naturals, Sequences

CONSTANTS
  Messages,   \* what can be sent
  Capacity,   \* how many messages fit
  Nothing     \* no message

VARIABLES
  chan,       \* sent and not received, oldest first
  out         \* the message received last

Init == chan = <<>> /\ out = Nothing

Put(m) ==
  /\ Len(chan) < Capacity
  /\ chan' = Append(chan, m)
  /\ out' = out

Get ==
  /\ chan # <<>>
  /\ chan' = Tail(chan)
  /\ out' = Head(chan)

Next == Get \/ \E m \in Messages : Put(m)

Spec == Init /\ [][Next]_<<chan, out>>
=============================================================================
