----------------------------- MODULE RemoteSend ------------------------------
(***************************************************************************)
(* MessageQCopy_send to the host: tasks share transport.virtQueue_toHost   *)
(* under module.gateSwi and wait on transport.semHandle_toHost when the    *)
(* host has made no buffer available.  The host, and the mailbox interrupt *)
(* of this processor, come between any two accesses, inside the gate too.  *)
(***************************************************************************)
EXTENDS VirtQueue

CONSTANT Senders

VARIABLES
  pc,        \* where each sender is
  msg,       \* the message it sends
  token,     \* the descriptor it got
  gate,      \* the sender inside module.gateSwi
  sem,       \* count of transport.semHandle_toHost
  waiting,   \* senders blocked on it, first come first served
  received   \* the message the host received last

sendVars == <<pc, msg, token, gate>>
semVars == <<sem, waiting>>
vars == <<vringVars, sendVars, semVars, received>>

ASSUME SendersAssumption == IsFiniteSet(Senders) /\ NULL \notin Senders

Goto(s, l) == pc' = [pc EXCEPT ![s] = l]

Init ==
  /\ \E n \in 0..Num : VirtQueueInit(n)
  /\ pc = [s \in Senders |-> "idle"]
  /\ msg = [s \in Senders |-> NULL]
  /\ token = [s \in Senders |-> NULL]
  /\ gate = NULL
  /\ sem = 0
  /\ waiting = <<>>
  /\ received = NULL

-----------------------------------------------------------------------------
(* MessageQCopy_send.                                                      *)

Send(s, m) ==
  /\ pc[s] = "idle"
  /\ msg' = [msg EXCEPT ![s] = m]
  /\ Goto(s, "enter")
  /\ UNCHANGED <<vringVars, token, gate, semVars, received>>

SendReset(s) ==
  /\ pc[s] = "enter"
  /\ gate = NULL
  /\ gate' = s
  /\ sem' = 0
  /\ Goto(s, "compare")
  /\ UNCHANGED <<vringVars, msg, token, waiting, received>>

SendToken(s) ==
  /\ pc[s] = "compare"
  /\ GetAvailBuf
  /\ token' = [token EXCEPT ![s] = NextAvail]
  /\ gate' = NULL
  /\ Goto(s, "fill")
  /\ UNCHANGED <<msg, semVars, received>>

SendNothing(s) ==
  /\ pc[s] = "compare"
  /\ NothingAvail
  /\ Goto(s, "notify")
  /\ UNCHANGED <<vringVars, msg, token, gate, semVars, received>>

SendNotify(s) ==
  /\ pc[s] = "notify"
  /\ EnableNotify
  /\ gate' = NULL
  /\ Goto(s, "pend")
  /\ UNCHANGED <<msg, token, semVars, received>>

SendPend(s) ==
  /\ pc[s] = "pend"
  /\ IF sem > 0
     THEN sem' = sem - 1 /\ waiting' = waiting /\ Goto(s, "enter")
     ELSE sem' = sem /\ waiting' = Append(waiting, s) /\ Goto(s, "blocked")
  /\ UNCHANGED <<vringVars, msg, token, gate, received>>

SendFill(s) ==
  /\ pc[s] = "fill"
  /\ content' = [content EXCEPT ![token[s]] = msg[s]]
  /\ Goto(s, "add")
  /\ UNCHANGED <<availVars, usedVars, hostVars, flagVars, lastAvail, kicks, hostKicks,
                 msg, token, gate, semVars, received>>

\* Mutant: the used ring is written outside of the gate.
SendAddUngated(s) ==
  /\ pc[s] = "add"
  /\ WriteUsed(token[s])
  /\ Goto(s, "bump")
  /\ UNCHANGED <<msg, token, gate, semVars, received>>

SendAdd(s) ==
  /\ pc[s] = "add"
  /\ gate = NULL
  /\ gate' = s
  /\ WriteUsed(token[s])
  /\ Goto(s, "bump")
  /\ UNCHANGED <<msg, token, semVars, received>>

SendBump(s) ==
  /\ pc[s] = "bump"
  /\ BumpUsed
  /\ token' = [token EXCEPT ![s] = NULL]
  /\ msg' = [msg EXCEPT ![s] = NULL]
  /\ Goto(s, "kick")
  /\ UNCHANGED <<gate, semVars, received>>

SendKick(s) ==
  /\ pc[s] = "kick"
  /\ Kick
  /\ gate' = NULL
  /\ Goto(s, "idle")
  /\ UNCHANGED <<msg, token, semVars, received>>

\* Mutant: "We post nothing for transport.virtQueue_toHost".
IsrSilent == TakeKick /\ UNCHANGED <<sendVars, semVars, received>>

\* The interrupt: callback_availBufReady posts, which readies the first task
\* that is blocked or else counts.
Isr ==
  /\ TakeKick
  /\ IF waiting = <<>>
     THEN sem' = sem + 1 /\ UNCHANGED <<waiting, pc>>
     ELSE sem' = sem /\ waiting' = Tail(waiting) /\ Goto(Head(waiting), "enter")
  /\ UNCHANGED <<msg, token, gate, received>>

-----------------------------------------------------------------------------
\* The host's receive callback takes buffers off the used ring when told to
\* and goes on until none is left, ...
HostReceive ==
  /\ hostKicks > 0
  /\ HostCollect
  /\ received' = content[NextUsed]
  /\ UNCHANGED <<sendVars, semVars>>

\* ... then the mailbox message is done with.
HostDone ==
  /\ hostKicks > 0
  /\ NothingUsed
  /\ hostKicks' = hostKicks - 1
  /\ UNCHANGED <<availVars, usedVars, hostVars, flagVars, lastAvail, content, kicks,
                 sendVars, semVars, received>>

\* It gives every buffer back, and then notifies.
HostReturn == (\E d \in Descs : HostAdd(d, NULL)) /\ UNCHANGED <<sendVars, semVars, received>>
HostReturned == HostNotify /\ UNCHANGED <<sendVars, semVars, received>>

SendStep(s) ==
  \/ SendReset(s) \/ SendToken(s) \/ SendNothing(s) \/ SendNotify(s) \/ SendPend(s)
  \/ SendFill(s) \/ SendAdd(s) \/ SendBump(s) \/ SendKick(s)

Host == HostReceive \/ HostDone \/ HostReturn \/ HostReturned

Next ==
  \/ \E s \in Senders : SendStep(s) \/ (\E m \in Messages : Send(s, m))
  \/ Isr
  \/ Host

Spec == Init /\ [][Next]_vars

\* Calls that were begun run on, the interrupt is taken, and the host's driver
\* empties the used ring and gives the buffers back.  The gate keeps tasks from
\* being switched, so that it is free again and again when a task gets to run.
Fairness ==
  /\ \A s \in Senders : WF_vars(SendStep(s)) /\ SF_vars(SendReset(s)) /\ SF_vars(SendAdd(s))
  /\ WF_vars(Isr)
  /\ WF_vars(HostReceive) /\ WF_vars(HostDone)
  /\ WF_vars(HostReturn) /\ WF_vars(HostReturned)

FairSpec == Spec /\ Fairness

-----------------------------------------------------------------------------
(* Properties.                                                             *)

Pcs == {"idle", "enter", "compare", "notify", "pend", "blocked", "fill", "add", "bump", "kick"}

TypeOK ==
  /\ VirtQueueTypeOK
  /\ pc \in [Senders -> Pcs]
  /\ msg \in [Senders -> Messages \cup {NULL}]
  /\ token \in [Senders -> Descs \cup {NULL}]
  /\ gate \in Senders \cup {NULL}
  /\ sem \in Nat
  /\ waiting \in Seq(Senders)
  /\ received \in Messages \cup {NULL}

\* Every descriptor is in one place, through all wraps of the indices: with
\* the host, on the avail ring, lent to one sender, or on the used ring.  No
\* buffer is written by two senders, sent twice or leaked.
Lent == {s \in Senders : token[s] # NULL}
DescriptorsOwnedOnce ==
  /\ Cardinality(hostFree) + Cardinality(Lent) + Len(OnRings) = Num
  /\ hostFree \cup {token[s] : s \in Lent} \cup {OnRings[i] : i \in DOMAIN OnRings} = Descs

\* The host gets what tasks sent, once each, unaltered, in the order in which
\* they added it.
CH == INSTANCE Channel WITH
  Capacity <- Num, Nothing <- NULL,
  chan <- [i \in DOMAIN OnUsed |-> content[OnUsed[i]]],
  out <- received

RefinesChannel == CH!Spec

\* VirtQueue_getAvailBuf asks for notifications only after it looked at the
\* index: what the host adds in between, with the flag still set, is missed.
MissedNotify == noNotify /\ ~NothingAvail /\ \E s \in Senders : pc[s] = "notify"

\* Semaphore_reset wipes posts that other senders have yet to pend on, and one
\* post may stand for several buffers; still every blocked sender is woken as
\* long as no notification is missed.
Blocked(s) == pc[s] = "blocked"
BlockedSendersWoken ==
  []~MissedNotify => \A s \in Senders : Blocked(s) ~> ~Blocked(s)

\* "We need to know about added buffers": no sender stays blocked while there
\* are buffers for it.
NoSenderStranded ==
  \A s \in Senders : (Blocked(s) /\ ~NothingAvail) ~> (~Blocked(s) \/ NothingAvail)
=============================================================================
