------------------------------ MODULE VirtQueue ------------------------------
(***************************************************************************)
(* One VirtQueue of ti/ipc/rpmsg/VirtQueue.c: the vring in the memory that *)
(* this processor shares with the host, the calls this processor makes on  *)
(* it, and the host's driver at the other end, which is not in this        *)
(* repository and is modelled as the virtio protocol has it.               *)
(*                                                                         *)
(* Each operator is one access that the other processor can come before or *)
(* after.  RemoteSend.tla and Arrivals.tla put them in the order in which  *)
(* MessageQCopy.c makes them.                                              *)
(*                                                                         *)
(* The queue is one of the DSP, of core 0 or of an SMP image, whose number *)
(* is below NUM_QUEUES.  (Those of a core 1 with an image of its own are   *)
(* 200 and 201, and its isr drops them: README, section 4.)                *)
(***************************************************************************)
EXTENDS Naturals, Sequences, FiniteSets

CONSTANTS
  Num,        \* vring.num, RP_MSG_NUM_BUFS
  IdxMod,     \* 2^16: the indices are UInt16
  FifoSize,   \* messages that a mailbox can hold
  Messages,   \* contents of a buffer
  NULL

ASSUME NumAssumption == Num \in Nat /\ Num > 0
\* "must be power of two", VirtQueue.c:90.
ASSUME IdxAssumption == IdxMod \in Nat /\ IdxMod > Num /\ IdxMod % Num = 0
ASSUME FifoAssumption == FifoSize \in Nat /\ FifoSize > 0
ASSUME MessagesAssumption == NULL \notin Messages

Descs == 0..(Num - 1)
Indices == 0..(IdxMod - 1)
ASSUME DescsAssumption == NULL \notin Descs

VARIABLES
  availIdx,     \* vring.avail->idx, written by the host
  availRing,    \* vring.avail->ring
  noInterrupt,  \* VRING_AVAIL_F_NO_INTERRUPT in vring.avail->flags
  lastAvail,    \* last_avail_idx, this processor's place in availRing
  usedIdx,      \* vring.used->idx, written by this processor
  usedRing,     \* the ids in vring.used->ring
  noNotify,     \* VRING_USED_F_NO_NOTIFY in vring.used->flags
  content,      \* the buffers the descriptors point to
  lastUsed,     \* the host's place in usedRing
  hostFree,     \* descriptors the host has neither made available nor lent
  owesKick,     \* the host added buffers and has yet to look at noNotify
  kicks,        \* messages in the mailbox to this processor
  hostKicks     \* messages in the mailbox to the host

availVars == <<availIdx, availRing>>
usedVars == <<usedIdx, usedRing>>
hostVars == <<lastUsed, hostFree, owesKick>>
flagVars == <<noNotify, noInterrupt>>
vringVars == <<availVars, usedVars, hostVars, flagVars, lastAvail, content, kicks, hostKicks>>

\* Mutant: an index wider than 16 bits.
IncWide(i) == i + 1

Inc(i) == (i + 1) % IdxMod
Distance(i, j) == ((j + IdxMod) - i) % IdxMod
Slot(i) == i % Num

-----------------------------------------------------------------------------
\* VirtQueue_create for a queue to the host, which has put the first n
\* descriptors on the avail ring by then.
VirtQueueInit(n) ==
  /\ availIdx = n
  /\ availRing = [i \in Descs |-> i]
  /\ lastAvail = 0
  /\ usedIdx = 0
  /\ usedRing = [i \in Descs |-> 0]
  /\ noNotify = TRUE
  /\ noInterrupt = FALSE
  /\ content = [d \in Descs |-> NULL]
  /\ lastUsed = 0
  /\ hostFree = n..(Num - 1)
  /\ owesKick = FALSE
  /\ kicks = 0
  /\ hostKicks = 0

\* VirtQueue_getAvailBuf compares the indices first ...
NothingAvail == lastAvail = availIdx

\* Mutant: the entry added last.
NextAvailNewest == availRing[Slot(availIdx + Num - 1)]

\* Mutant: last_avail_idx is not incremented.
GetAvailBufAgain ==
  /\ ~NothingAvail
  /\ UNCHANGED vringVars

NextAvail == availRing[Slot(lastAvail)]
GetAvailBuf ==
  /\ ~NothingAvail
  /\ lastAvail' = Inc(lastAvail)
  /\ UNCHANGED <<availVars, usedVars, hostVars, flagVars, content, kicks, hostKicks>>

\* ... and finding nothing asks for a notification, later.
EnableNotify ==
  /\ noNotify' = FALSE
  /\ UNCHANGED <<availVars, usedVars, hostVars, noInterrupt, lastAvail, content, kicks, hostKicks>>

\* Mutant: the other index picks the entry.
WriteUsedAtAvail(head) ==
  /\ usedRing' = [usedRing EXCEPT ![Slot(lastAvail)] = head]
  /\ UNCHANGED <<availVars, usedIdx, hostVars, flagVars, lastAvail, content, kicks, hostKicks>>

\* VirtQueue_addUsedBuf: the entry, then the index that shows it to the host.
WriteUsed(head) ==
  /\ usedRing' = [usedRing EXCEPT ![Slot(usedIdx)] = head]
  /\ UNCHANGED <<availVars, usedIdx, hostVars, flagVars, lastAvail, content, kicks, hostKicks>>

BumpUsed ==
  /\ usedIdx' = Inc(usedIdx)
  /\ UNCHANGED <<availVars, usedRing, hostVars, flagVars, lastAvail, content, kicks, hostKicks>>

\* VirtQueue_kick; sending waits while the host's mailbox is full.
Kick ==
  /\ noInterrupt \/ hostKicks < FifoSize
  /\ hostKicks' = IF noInterrupt THEN hostKicks ELSE hostKicks + 1
  /\ UNCHANGED <<availVars, usedVars, hostVars, flagVars, lastAvail, content, kicks>>

(* VirtQueue_isr takes the queue's number out of the mailbox and calls      *)
(* back.  Only the kicks of this queue are counted: the isr drops a number *)
(* that is no queue's (msg >= NUM_QUEUES, or none registered), and what it *)
(* does for the host's other messages is in IpcPower.tla; neither touches  *)
(* the queue.                                                              *)
TakeKick ==
  /\ kicks > 0
  /\ kicks' = kicks - 1
  /\ UNCHANGED <<availVars, usedVars, hostVars, flagVars, lastAvail, content, hostKicks>>

-----------------------------------------------------------------------------
(* The host.                                                               *)

HostAdd(d, c) ==
  /\ d \in hostFree
  /\ content' = [content EXCEPT ![d] = c]
  /\ availRing' = [availRing EXCEPT ![Slot(availIdx)] = d]
  /\ availIdx' = Inc(availIdx)
  /\ hostFree' = hostFree \ {d}
  /\ owesKick' = TRUE
  /\ UNCHANGED <<usedVars, lastUsed, flagVars, lastAvail, kicks, hostKicks>>

\* The flag is read after the index was written; a full mailbox makes it wait.
HostNotify ==
  /\ owesKick
  /\ noNotify \/ kicks < FifoSize
  /\ kicks' = IF noNotify THEN kicks ELSE kicks + 1
  /\ owesKick' = FALSE
  /\ UNCHANGED <<availVars, usedVars, lastUsed, hostFree, flagVars, lastAvail, content, hostKicks>>

NothingUsed == lastUsed = usedIdx
NextUsed == usedRing[Slot(lastUsed)]
HostCollect ==
  /\ ~NothingUsed
  /\ lastUsed' = Inc(lastUsed)
  /\ hostFree' = hostFree \cup {NextUsed}
  /\ UNCHANGED <<availVars, usedVars, owesKick, flagVars, lastAvail, content, kicks, hostKicks>>

-----------------------------------------------------------------------------
(* Descriptors on a ring, in the order in which they are read.             *)

OnAvail == [i \in 1..Distance(lastAvail, availIdx) |-> availRing[Slot(lastAvail + i - 1)]]
OnUsed == [i \in 1..Distance(lastUsed, usedIdx) |-> usedRing[Slot(lastUsed + i - 1)]]
OnRings == OnAvail \o OnUsed

VirtQueueTypeOK ==
  /\ availIdx \in Indices /\ lastAvail \in Indices
  /\ usedIdx \in Indices /\ lastUsed \in Indices
  /\ availRing \in [Descs -> Descs] /\ usedRing \in [Descs -> Descs]
  /\ content \in [Descs -> Messages \cup {NULL}]
  /\ hostFree \subseteq Descs
  /\ {noNotify, noInterrupt, owesKick} \subseteq BOOLEAN
  /\ kicks \in 0..FifoSize /\ hostKicks \in 0..FifoSize
=============================================================================
