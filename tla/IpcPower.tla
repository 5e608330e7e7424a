------------------------------- MODULE IpcPower -------------------------------
(***************************************************************************)
(* Hibernation of the two M3 cores, separate images, from the host's       *)
(* request to its wake-up: the interrupt handler of core 0 looks at the    *)
(* locks of both cores, answers, and tells core 1; on each core a task of  *)
(* the highest priority then suspends it.  Each core's tasks take and give *)
(* back hibernation locks at any time that they can run.                   *)
(*                                                                         *)
(* The mailboxes are those of InterruptIpu, modelled there.  Callbacks,    *)
(* wake locks and the deep-sleep bit are left out.  The host is external:  *)
(* it has one request in flight and wakes the cores when both are off.     *)
(***************************************************************************)
EXTENDS Integers

CONSTANTS
  MaxLocks,    \* bound of the model: locks a core's tasks hold at once
  MaxRequests  \* bound of the model: requests the host makes

ASSUME BoundsAssumption == MaxLocks \in Nat /\ MaxRequests \in Nat

Cores == {0, 1}

VARIABLES
  request,   \* host's mailbox message, "none" when it was taken
  reply,     \* core 0's answer to the host
  notified,  \* messages RP_MSG_HIBERNATION on their way to core 1
  isr,       \* where core 0's handler is
  hibLocks,  \* IpcPower_hibLocks
  curInit,   \* whether the module is initialised on a core
  semSuspend, tskSuspend, power, suspendCount, resumeCount,
  requests,  \* those the host made
  acked,     \* those that core 0 acknowledged
  heldSince  \* whether a core had locks at all times since the host asked

hostside == <<request, reply, requests>>
counts == <<suspendCount, resumeCount>>
locks == <<hibLocks, heldSince>>
powerVars == <<hostside, notified, isr, locks, curInit, semSuspend, tskSuspend, power,
          counts, acked>>

PowerInit ==
  /\ request = "none" /\ reply = "none" /\ requests = 0
  /\ notified = 0
  /\ isr = "idle"
  /\ hibLocks = [c \in Cores |-> 0] /\ heldSince = [c \in Cores |-> FALSE]
  /\ curInit = [c \in Cores |-> TRUE]
  /\ semSuspend = [c \in Cores |-> 0]
  /\ tskSuspend = [c \in Cores |-> "pend"]
  /\ power = [c \in Cores |-> "on"]
  /\ suspendCount = [c \in Cores |-> 0] /\ resumeCount = [c \in Cores |-> 0]
  /\ acked = 0

-----------------------------------------------------------------------------
(* The host.                                                               *)

\* A forced request goes over locks.
HostRequest(m) ==
  /\ request = "none" /\ reply = "none" /\ isr = "idle"
  /\ requests < MaxRequests
  /\ request' = m
  /\ requests' = requests + 1
  /\ heldSince' = [c \in Cores |-> m = "HIBERNATION" /\ hibLocks[c] > 0]
  /\ UNCHANGED <<reply, notified, isr, hibLocks, curInit, semSuspend, tskSuspend, power, counts, acked>>

HostCancelled ==
  /\ reply = "CANCEL"
  /\ reply' = "none"
  /\ UNCHANGED <<request, requests, notified, isr, locks, curInit, semSuspend, tskSuspend, power, counts, acked>>

\* Both cores come back inside Power_suspend.
HostWakes ==
  /\ reply = "ACK" /\ \A c \in Cores : power[c] = "off"
  /\ reply' = "none"
  /\ power' = [c \in Cores |-> "on"]
  /\ tskSuspend' = [c \in Cores |-> "resume"]
  /\ UNCHANGED <<request, requests, notified, isr, locks, curInit, semSuspend, counts, acked>>

-----------------------------------------------------------------------------
(* VirtQueue_isr.                                                          *)

IsrTake ==
  /\ isr = "idle" /\ request # "none" /\ power[0] = "on"
  /\ isr' = IF request = "HIBERNATION" THEN "check" ELSE "notify"
  /\ request' = "none"
  /\ UNCHANGED <<reply, requests, notified, locks, curInit, semSuspend, tskSuspend, power, counts, acked>>

\* Mutant: the handler's own core alone.
canHibernateAlone == hibLocks[0] = 0

canHibernate == \A c \in Cores : hibLocks[c] = 0

IsrCheck ==
  /\ isr = "check"
  /\ isr' = IF canHibernate THEN "notify" ELSE "cancel"
  /\ UNCHANGED <<hostside, notified, locks, curInit, semSuspend, tskSuspend, power, counts, acked>>

IsrCancel ==
  /\ isr = "cancel"
  /\ reply' = "CANCEL"
  /\ isr' = "idle"
  /\ UNCHANGED <<request, requests, notified, locks, curInit, semSuspend, tskSuspend, power, counts, acked>>

IsrNotify ==
  /\ isr = "notify"
  /\ notified' = notified + 1
  /\ isr' = "ack"
  /\ UNCHANGED <<hostside, locks, curInit, semSuspend, tskSuspend, power, counts, acked>>

IsrAck ==
  /\ isr = "ack"
  /\ reply' = "ACK"
  /\ acked' = acked + 1
  /\ isr' = "suspend"
  /\ UNCHANGED <<request, requests, notified, locks, curInit, semSuspend, tskSuspend, power, counts>>

\* IpcPower_suspend asserts that the module is initialised.
suspend(c) == curInit[c] /\ semSuspend' = [semSuspend EXCEPT ![c] = @ + 1]

IsrSuspend ==
  /\ isr = "suspend"
  /\ suspend(0)
  /\ isr' = "idle"
  /\ UNCHANGED <<hostside, notified, locks, curInit, tskSuspend, power, counts, acked>>

\* Mutant: a core takes its message for a virtqueue's.
Core1IsrIgnores ==
  /\ notified > 0 /\ power[1] = "on"
  /\ notified' = notified - 1
  /\ UNCHANGED <<hostside, isr, locks, curInit, semSuspend, tskSuspend, power, counts, acked>>

\* Core 1 does not look at the locks.
Core1Isr ==
  /\ notified > 0 /\ power[1] = "on"
  /\ notified' = notified - 1
  /\ suspend(1)
  /\ UNCHANGED <<hostside, isr, locks, curInit, tskSuspend, power, counts, acked>>

Asserted ==
  \/ isr = "suspend" /\ ~curInit[0]
  \/ notified > 0 /\ ~curInit[1]

-----------------------------------------------------------------------------
(* IpcPower_suspendTaskFxn.  A core's handler is over before its tasks go  *)
(* on, and its suspend task goes before all others.                        *)

OutOfIsr(c) == power[c] = "on" /\ (c = 0 => isr = "idle")

\* The task waits or, in a callback, may wait.
OthersRun(c) ==
  /\ OutOfIsr(c)
  /\ tskSuspend[c] \in {"gone", "suspend", "resume"} \/ (tskSuspend[c] = "pend" /\ semSuspend[c] = 0)

\* Mutant: the wake-up of IpcPower_exit is one for a suspend.
TaskPendUnchecked(c) ==
  /\ OutOfIsr(c) /\ tskSuspend[c] = "pend" /\ semSuspend[c] > 0
  /\ semSuspend' = [semSuspend EXCEPT ![c] = @ - 1]
  /\ tskSuspend' = [tskSuspend EXCEPT ![c] = "suspend"]
  /\ suspendCount' = [suspendCount EXCEPT ![c] = @ + 1]
  /\ UNCHANGED <<hostside, notified, isr, locks, curInit, power, resumeCount, acked>>

TaskPend(c) ==
  /\ OutOfIsr(c) /\ tskSuspend[c] = "pend" /\ semSuspend[c] > 0
  /\ semSuspend' = [semSuspend EXCEPT ![c] = @ - 1]
  /\ tskSuspend' = [tskSuspend EXCEPT ![c] = IF curInit[c] THEN "suspend" ELSE "gone"]
  /\ suspendCount' = [suspendCount EXCEPT ![c] = IF curInit[c] THEN @ + 1 ELSE @]
  /\ UNCHANGED <<hostside, notified, isr, locks, curInit, power, resumeCount, acked>>

\* The callbacks are over and the Swi runs, to Power_suspend.
SuspendSwi(c) ==
  /\ OutOfIsr(c) /\ tskSuspend[c] = "suspend"
  /\ tskSuspend' = [tskSuspend EXCEPT ![c] = "off"]
  /\ power' = [power EXCEPT ![c] = "off"]
  /\ UNCHANGED <<hostside, notified, isr, locks, curInit, semSuspend, counts, acked>>

\* The loop ends when IpcPower_exit came in between.
PostResume(c) ==
  /\ OutOfIsr(c) /\ tskSuspend[c] = "resume"
  /\ resumeCount' = [resumeCount EXCEPT ![c] = @ + 1]
  /\ tskSuspend' = [tskSuspend EXCEPT ![c] = IF curInit[c] THEN "pend" ELSE "gone"]
  /\ UNCHANGED <<hostside, notified, isr, locks, curInit, semSuspend, power, suspendCount, acked>>

-----------------------------------------------------------------------------
(* What other tasks call.                                                  *)

hibernateLock(c) ==
  /\ OthersRun(c) /\ hibLocks[c] < MaxLocks
  /\ hibLocks' = [hibLocks EXCEPT ![c] = @ + 1]
  /\ UNCHANGED <<hostside, notified, isr, heldSince, curInit, semSuspend, tskSuspend, power, counts, acked>>

\* Mutant: no look at whether a lock is held.
hibernateUnlockUnchecked(c) ==
  /\ OthersRun(c) /\ hibLocks[c] > -1
  /\ hibLocks' = [hibLocks EXCEPT ![c] = @ - 1]
  /\ heldSince' = [heldSince EXCEPT ![c] = @ /\ hibLocks'[c] > 0]
  /\ UNCHANGED <<hostside, notified, isr, curInit, semSuspend, tskSuspend, power, counts, acked>>

hibernateUnlock(c) ==
  /\ OthersRun(c) /\ hibLocks[c] > 0
  /\ hibLocks' = [hibLocks EXCEPT ![c] = @ - 1]
  /\ heldSince' = [heldSince EXCEPT ![c] = @ /\ hibLocks'[c] > 0]
  /\ UNCHANGED <<hostside, notified, isr, curInit, semSuspend, tskSuspend, power, counts, acked>>

\* Mutant: the task is not woken.
exitSilently(c) ==
  /\ OthersRun(c) /\ curInit[c]
  /\ curInit' = [curInit EXCEPT ![c] = FALSE]
  /\ UNCHANGED <<hostside, notified, isr, locks, semSuspend, tskSuspend, power, counts, acked>>

\* The caller waits for the task to end.
exit(c) ==
  /\ OthersRun(c) /\ curInit[c]
  /\ curInit' = [curInit EXCEPT ![c] = FALSE]
  /\ semSuspend' = [semSuspend EXCEPT ![c] = @ + 1]
  /\ UNCHANGED <<hostside, notified, isr, locks, tskSuspend, power, counts, acked>>

Isr0 == IsrTake \/ IsrCheck \/ IsrCancel \/ IsrNotify \/ IsrAck \/ IsrSuspend
TaskStep(c) == TaskPend(c) \/ SuspendSwi(c) \/ PostResume(c)
Host == HostCancelled \/ HostWakes

PowerNext ==
  \/ \E m \in {"HIBERNATION", "HIBERNATION_FORCE"} : HostRequest(m)
  \/ Host
  \/ Isr0
  \/ Core1Isr
  \/ \E c \in Cores : TaskStep(c) \/ hibernateLock(c) \/ hibernateUnlock(c) \/ exit(c)

PowerSpec == PowerInit /\ [][PowerNext]_powerVars

\* Interrupts are served; the task of the highest priority runs when it can,
\* and callbacks return; the host wakes what it put to sleep.
Fairness ==
  /\ WF_powerVars(Isr0) /\ WF_powerVars(Core1Isr) /\ WF_powerVars(Host)
  /\ \A c \in Cores : WF_powerVars(TaskStep(c))

PowerFairSpec == PowerSpec /\ Fairness

-----------------------------------------------------------------------------
(* Properties.                                                             *)

PowerTypeOK ==
  /\ request \in {"none", "HIBERNATION", "HIBERNATION_FORCE"}
  /\ reply \in {"none", "ACK", "CANCEL"}
  /\ isr \in {"idle", "check", "cancel", "notify", "ack", "suspend"}
  /\ notified \in {0, 1}
  /\ \A c \in Cores :
       /\ semSuspend[c] \in 0..2
       /\ hibLocks[c] \in 0..MaxLocks
       /\ tskSuspend[c] \in {"pend", "suspend", "off", "resume", "gone"}
       /\ power[c] = "off" <=> tskSuspend[c] = "off"

\* "Disable the core to go to suspend / hibernate": as long as a core keeps, from
\* before the host asks, at least one lock, the request is not granted and
\* neither core is suspended for it.  (A lock that is taken after the handler's
\* look is too late, on either core.)
LockedThroughout ==
  \A c \in Cores : heldSince[c] =>
    /\ isr \notin {"notify", "ack", "suspend"} /\ notified = 0
    /\ reply # "ACK"
    /\ \A d \in Cores : power[d] = "on"

\* Each core is suspended once for each request that core 0 granted, and for
\* nothing else: not for one that was cancelled, nor because IpcPower_exit wakes
\* the task; and it is resumed once for each suspend.  One still to come is on its way in the handler, the mailbox or the
\* semaphore, unless the module was finalised.
Granted(c) == IF c = 1 /\ isr = "ack" THEN acked + 1 ELSE acked

OnItsWay(c) ==
  \/ c = 0 /\ isr = "suspend"
  \/ c = 1 /\ notified > 0
  \/ semSuspend[c] > 0

SuspendedPerRequest ==
  \A c \in Cores :
    /\ suspendCount[c] <= Granted(c)
    /\ suspendCount[c] < Granted(c) => OnItsWay(c) \/ ~curInit[c]
    /\ suspendCount[c] - resumeCount[c]
         = IF tskSuspend[c] \in {"suspend", "off", "resume"} THEN 1 ELSE 0

\* A suspend that was granted and that the end of the core's task dropped.
Dropped == \E c \in Cores : tskSuspend[c] = "gone" /\ suspendCount[c] < Granted(c)

\* A request comes to its end: it is taken and answered, by the whole handler, and
\* the host is done with the answer, which after a grant takes both cores to be
\* suspended and woken.  A core that begins to suspend comes back to wait for the
\* next one, and whoever calls IpcPower_exit comes back.  None of this holds once
\* IpcPower_exit was called on a core that has a suspend to come: an assertion
\* fails, or the end of the task drops that one, and the other core and the host
\* wait for good.
UnderWay == request # "none" \/ isr # "idle" \/ reply # "none"

RequestEnds ==
  /\ UnderWay ~> ~UnderWay \/ Asserted \/ Dropped
  /\ \A c \in Cores :
       /\ tskSuspend[c] \in {"suspend", "off", "resume"} ~>
            tskSuspend[c] \in {"pend", "gone"} \/ Asserted \/ Dropped
       /\ ~curInit[c] ~> tskSuspend[c] = "gone" \/ Asserted \/ Dropped
=============================================================================
