------------------------------- MODULE ReplyBox -------------------------------
(***************************************************************************)
(* What a caller of an RCM client may rely on, whoever sorts the mail: the *)
(* replies of the server form a set, a caller asks for one of them by its  *)
(* number, and gets it once it is there, that one and no other, once.      *)
(***************************************************************************)
CONSTANTS Threads, Replies, NoReply

VARIABLES
  asked,   \* the reply each thread waits for, or NoReply
  arrived  \* the replies nobody has collected

Init == asked = [t \in Threads |-> NoReply] /\ arrived = {}

Ask(t, r) ==
  /\ asked[t] = NoReply
  /\ asked' = [asked EXCEPT ![t] = r]
  /\ UNCHANGED arrived

Arrive(r) ==
  /\ r \notin arrived
  /\ arrived' = arrived \cup {r}
  /\ UNCHANGED asked

Collect(t) ==
  /\ asked[t] \in arrived
  /\ asked' = [asked EXCEPT ![t] = NoReply]
  /\ arrived' = arrived \ {asked[t]}

Next ==
  \/ \E t \in Threads : Collect(t) \/ \E r \in Replies : Ask(t, r)
  \/ \E r \in Replies : Arrive(r)

Spec == Init /\ [][Next]_<<asked, arrived>>

\* A caller whose reply has arrived is not kept waiting for another's.
FairSpec == Spec /\ \A t \in Threads : WF_<<asked, arrived>>(Collect(t))
=============================================================================
