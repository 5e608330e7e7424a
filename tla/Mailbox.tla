------------------------------- MODULE Mailbox -------------------------------
(***************************************************************************)
(* What a local rpmsg endpoint promises to its users, with no semaphore,   *)
(* list, heap or gate in sight.                                            *)
(*                                                                         *)
(* A mailbox is the life of one endpoint: opened at an address, closed     *)
(* once.  A message is accepted only by a mailbox whose address is the     *)
(* message's destination, waits there in order of acceptance, and leaves   *)
(* it either into the hands of the one reader of that mailbox, oldest      *)
(* first, or, when the mailbox is being closed, into the void.             *)
(*                                                                         *)
(* MessageQCopy.tla implements this specification (RefinesMailbox there).  *)
(***************************************************************************)
EXTENDS Sequences

CONSTANTS
  Boxes,      \* mailbox identities, each opened at most once
  Addresses,  \* endpoint numbers
  Readers,    \* the tasks that read mailboxes
  Payloads,   \* what a message may carry
  NoValue     \* "no address", "no reader", "no message"

VARIABLES
  address,    \* the address a mailbox was opened at
  reader,     \* the reader it was opened by
  phase,      \* "unborn", "open", "closing" or "closed"
  box,        \* the accepted messages nobody has taken yet
  hand        \* the message a reader took last

mailboxVars == <<address, reader, phase, box, hand>>

Message == [dst : Addresses, data : Payloads]

Init ==
  /\ address = [b \in Boxes |-> NoValue]
  /\ reader = [b \in Boxes |-> NoValue]
  /\ phase = [b \in Boxes |-> "unborn"]
  /\ box = [b \in Boxes |-> <<>>]
  /\ hand = [r \in Readers |-> NoValue]

\* No two mailboxes are in use at one address.
Open(b, a, r) ==
  /\ phase[b] = "unborn"
  /\ \A c \in Boxes : address[c] = a => phase[c] \in {"unborn", "closed"}
  /\ phase' = [phase EXCEPT ![b] = "open"]
  /\ address' = [address EXCEPT ![b] = a]
  /\ reader' = [reader EXCEPT ![b] = r]
  /\ UNCHANGED <<box, hand>>

Accept(b, m) ==
  /\ phase[b] \in {"open", "closing"}
  /\ m.dst = address[b]
  /\ box' = [box EXCEPT ![b] = Append(@, m)]
  /\ UNCHANGED <<address, reader, phase, hand>>

Take(b) ==
  /\ phase[b] = "open"
  /\ box[b] # <<>>
  /\ hand' = [hand EXCEPT ![reader[b]] = Head(box[b])]
  /\ box' = [box EXCEPT ![b] = Tail(@)]
  /\ UNCHANGED <<address, reader, phase>>

BeginClose(b) ==
  /\ phase[b] = "open"
  /\ phase' = [phase EXCEPT ![b] = "closing"]
  /\ UNCHANGED <<address, reader, box, hand>>

\* Messages still waiting when a mailbox closes are lost.
Discard(b) ==
  /\ phase[b] = "closing"
  /\ box[b] # <<>>
  /\ box' = [box EXCEPT ![b] = Tail(@)]
  /\ UNCHANGED <<address, reader, phase, hand>>

Close(b) ==
  /\ phase[b] = "closing"
  /\ phase' = [phase EXCEPT ![b] = "closed"]
  /\ UNCHANGED <<address, reader, box, hand>>

Next ==
  \E b \in Boxes :
    \/ \E a \in Addresses, r \in Readers : Open(b, a, r)
    \/ \E m \in Message : Accept(b, m)
    \/ Take(b)
    \/ BeginClose(b)
    \/ Discard(b)
    \/ Close(b)

Spec == Init /\ [][Next]_mailboxVars
=============================================================================
