------------------------------ MODULE Arrivals -------------------------------
(***************************************************************************)
(* What comes from the host: MessageQCopy_swiFxn empties                   *)
(* transport.virtQueue_fromHost, hands every message to MessageQCopy_send  *)
(* for a local endpoint and returns the buffer.  The Swi is posted by the  *)
(* mailbox interrupt and by every MessageQCopy_recv; the host notifies     *)
(* only when asked to, and is told once per Swi that buffers came back.    *)
(*                                                                         *)
(* What the local send makes of a message is MessageQCopy.tla, where the   *)
(* Swi is one of the senders.                                              *)
(***************************************************************************)
EXTENDS VirtQueue

VARIABLES
  swi,          \* where MessageQCopy_swiFxn is
  posted,       \* the Swi is posted and has yet to run
  swiToken,     \* the descriptor in its hands
  usedBufAdded, \* its local variable
  delivered,    \* the message passed to the local send last
  host          \* the host's sending thread

swiVars == <<swi, posted, swiToken, usedBufAdded, delivered>>
arrivalsVars == <<vringVars, swiVars, host>>

ArrivalsInit ==
  /\ VirtQueueInit(0)
  /\ swi = "idle"
  /\ posted = FALSE
  /\ swiToken = NULL
  /\ usedBufAdded = FALSE
  /\ delivered = NULL
  /\ host = "running"

-----------------------------------------------------------------------------
(* MessageQCopy_swiFxn.  A Swi that is posted while it runs runs again.    *)

SwiRun ==
  /\ swi = "idle" /\ posted
  /\ swi' = "compare"
  /\ posted' = FALSE
  /\ usedBufAdded' = FALSE
  /\ UNCHANGED <<vringVars, swiToken, delivered, host>>

SwiToken ==
  /\ swi = "compare"
  /\ GetAvailBuf
  /\ swiToken' = NextAvail
  /\ swi' = "deliver"
  /\ UNCHANGED <<posted, usedBufAdded, delivered, host>>

SwiDeliver ==
  /\ swi = "deliver"
  /\ delivered' = content[swiToken]
  /\ swi' = "add"
  /\ UNCHANGED <<vringVars, posted, swiToken, usedBufAdded, host>>

SwiAdd ==
  /\ swi = "add"
  /\ WriteUsed(swiToken)
  /\ swi' = "bump"
  /\ UNCHANGED <<posted, swiToken, usedBufAdded, delivered, host>>

\* Mutant: usedBufAdded stays FALSE.
SwiBumpSilently ==
  /\ swi = "bump"
  /\ BumpUsed
  /\ swiToken' = NULL
  /\ swi' = "compare"
  /\ UNCHANGED <<posted, usedBufAdded, delivered, host>>

SwiBump ==
  /\ swi = "bump"
  /\ BumpUsed
  /\ swiToken' = NULL
  /\ usedBufAdded' = TRUE
  /\ swi' = "compare"
  /\ UNCHANGED <<posted, delivered, host>>

SwiNothing ==
  /\ swi = "compare"
  /\ NothingAvail
  /\ swi' = "notify"
  /\ UNCHANGED <<vringVars, posted, swiToken, usedBufAdded, delivered, host>>

SwiNotify ==
  /\ swi = "notify"
  /\ EnableNotify
  /\ swi' = IF usedBufAdded THEN "kick" ELSE "idle"
  /\ UNCHANGED <<posted, swiToken, usedBufAdded, delivered, host>>

SwiKick ==
  /\ swi = "kick"
  /\ Kick
  /\ swi' = "idle"
  /\ UNCHANGED <<posted, swiToken, usedBufAdded, delivered, host>>

\* Mutant: a running Swi is not posted again.
SwiPostUnlessRunning ==
  /\ TakeKick
  /\ posted' = (swi = "idle")
  /\ UNCHANGED <<swi, swiToken, usedBufAdded, delivered, host>>

\* callback_availBufReady, in the interrupt.
SwiPost ==
  /\ TakeKick
  /\ posted' = TRUE
  /\ UNCHANGED <<swi, swiToken, usedBufAdded, delivered, host>>

\* "Check vring for pending messages before we block": MessageQCopy_recv.
RecvPost ==
  /\ posted' = TRUE
  /\ UNCHANGED <<vringVars, swi, swiToken, usedBufAdded, delivered, host>>

-----------------------------------------------------------------------------
(* The host's sending thread.  It takes used buffers back whenever it      *)
(* likes, with interrupts off, and sleeps for one when it has none.        *)

HostSend(m) ==
  /\ host = "running"
  /\ \E d \in Descs : HostAdd(d, m)
  /\ UNCHANGED <<swiVars, host>>

HostSent == HostNotify /\ UNCHANGED <<swiVars, host>>

HostReclaim ==
  /\ host = "running"
  /\ HostCollect
  /\ UNCHANGED <<swiVars, host>>

HostMute ==
  /\ host = "running"
  /\ noInterrupt' = TRUE
  /\ UNCHANGED <<availVars, usedVars, hostVars, noNotify, lastAvail, content, kicks, hostKicks,
                 swiVars, host>>

\* It lets the interrupt through first, and then looks once more.
HostWait ==
  /\ host = "running"
  /\ hostFree = {} /\ ~owesKick
  /\ noInterrupt' = FALSE
  /\ host' = "looking"
  /\ UNCHANGED <<availVars, usedVars, hostVars, noNotify, lastAvail, content, kicks, hostKicks,
                 swiVars>>

HostLook ==
  /\ host = "looking"
  /\ host' = IF NothingUsed THEN "asleep" ELSE "running"
  /\ UNCHANGED <<vringVars, swiVars>>

HostInterrupt ==
  /\ hostKicks > 0
  /\ hostKicks' = hostKicks - 1
  /\ host' = IF host = "asleep" THEN "looking" ELSE host
  /\ UNCHANGED <<availVars, usedVars, hostVars, flagVars, lastAvail, content, kicks, swiVars>>

SwiStep ==
  \/ SwiRun \/ SwiToken \/ SwiDeliver \/ SwiAdd \/ SwiBump
  \/ SwiNothing \/ SwiNotify \/ SwiKick

ArrivalsNext ==
  \/ SwiStep \/ SwiPost \/ RecvPost
  \/ \E m \in Messages : HostSend(m)
  \/ HostSent \/ HostReclaim \/ HostMute \/ HostWait \/ HostLook \/ HostInterrupt

ArrivalsSpec == ArrivalsInit /\ [][ArrivalsNext]_arrivalsVars

\* The Swi runs when posted, interrupts are taken, and a host that has added a
\* buffer looks at the flag.  Nobody is obliged to send or to receive.
ArrivalsFairness ==
  /\ WF_arrivalsVars(SwiStep) /\ WF_arrivalsVars(SwiPost)
  /\ WF_arrivalsVars(HostSent) /\ WF_arrivalsVars(HostLook) /\ WF_arrivalsVars(HostInterrupt)

ArrivalsFairSpec == ArrivalsSpec /\ ArrivalsFairness

-----------------------------------------------------------------------------
(* Properties.                                                             *)

ArrivalsTypeOK ==
  /\ VirtQueueTypeOK
  /\ swi \in {"idle", "compare", "deliver", "add", "bump", "notify", "kick"}
  /\ {posted, usedBufAdded} \subseteq BOOLEAN
  /\ swiToken \in Descs \cup {NULL}
  /\ delivered \in Messages \cup {NULL}
  /\ host \in {"running", "looking", "asleep"}

\* Every descriptor is in one place, through all wraps of the indices: with
\* the host, on a ring, or in the hands of the Swi.
ArrivalsOwnedOnce ==
  /\ Cardinality(hostFree) + Cardinality({swiToken} \ {NULL}) + Len(OnRings) = Num
  /\ hostFree \cup ({swiToken} \ {NULL}) \cup {OnRings[i] : i \in DOMAIN OnRings} = Descs

\* The Swi delivers what the host sent, once each, unaltered and in order, and
\* gives no buffer back before its message was copied.
Undelivered == (IF swi = "deliver" THEN <<swiToken>> ELSE <<>>) \o OnAvail

Inbound == INSTANCE Channel WITH
  Capacity <- Num, Nothing <- NULL,
  chan <- [i \in DOMAIN Undelivered |-> content[Undelivered[i]]],
  out <- delivered

ArrivalsRefineChannel == Inbound!Spec

\* What the host adds between the Swi's look at the index and its clearing of
\* the flag, with the flag still set, is not announced.
SwiMissesNotify == noNotify /\ ~NothingAvail /\ swi = "notify"

\* A message that waits on the avail ring is taken: always, once a task has
\* called MessageQCopy_recv; without a further call, when notifications were
\* asked for and none was missed.
Waits(i) == lastAvail = i /\ ~NothingAvail
ArrivalsTaken ==
  \A i \in Indices :
    /\ (Waits(i) /\ posted) ~> ~Waits(i)
    /\ []~SwiMissesNotify => (Waits(i) /\ ~noNotify) ~> ~Waits(i)

\* A host that sleeps for a buffer wakes up when the Swi gives one back,
\* although the Swi announces its buffers only when it finished and skips the
\* announcement while the host is muted.
HostWoken == (host = "asleep" /\ ~NothingUsed) ~> host # "asleep"

\* Neither side waits for the other while there is something for it on a ring.
NeitherSideWaits == ArrivalsTaken /\ HostWoken
=============================================================================
