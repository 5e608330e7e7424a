# Verification of the rpmsg firmware (SYS/BIOS side)

TLA+ models of the firmware under `src/src/ti`, model-checked with TLC; every
safety property of a passing run is also proved with TLAPS. All line
numbers are of the files under `src/src/ti`; `PROJECT.json` maps every definition
to its lines.

## 1. The system

The firmware runs on the Cortex-M3 cores (IPU: CORE0 = sysm3, CORE1 = appm3, or
both as one SMP image) and on the DSP of an OMAP. It talks to Linux (the *host*)
through rings in shared memory and a hardware mailbox, and it serves remote calls.

| component | state it keeps | operations | interacts with |
|---|---|---|---|
| MessageQCopy, endpoints (`ipc/rpmsg/MessageQCopy.c`) | 256 slots of endpoint objects, each with a counting semaphore, a list of blocks and an `unblocked` flag; one heap of 512 blocks for all | create, delete, recv, unblock, local send | tasks; the Swi; kernel objects |
| MessageQCopy, transport (same file) | two VirtQueues, the Swi, a semaphore for tasks without a buffer, `gateSwi` | remote send, `MessageQCopy_swiFxn`, `callback_availBufReady` | VirtQueue (calls), interrupt (callback) |
| VirtQueue (`VirtQueue.c`, `virtio_ring.h`) | the vrings shared with the host, `last_avail_idx`, a registry of 4 queues | kick, getAvailBuf, addUsedBuf, isr | host (shared memory), InterruptIpu/Dsp, IpcPower, OffloadM3 |
| InterruptIpu, InterruptDsp | mailbox FIFOs; on core 1 one request bit | intSend, intClear, isr | host, the other core |
| OffloadM3 | three workers and their semaphores, `created` | create/delete tasks, post from the interrupt | appm3 through shared payloads |
| RcmServer (`grcm`) | symbol table with keys, job streams, worker pools, server thread | create, start, finalize, add/remove symbol, acquire/release job, dispatch, execute | MessageQCopy (one endpoint), client on the host |
| RcmClient | reply and error queue, new mail, list of waiting callers | exec, execDpc, execCmd, execNoWait, waitUntilDone, checkForError, acquire/release job, getSymbolIndex | RcmServer |
| ServiceMgr, NameMap, OmxSrvMgr (`srvmgr`) | table of services, tuples endpoint -> server, tasks | start, register, createService, deleteService | RcmServer, MessageQCopy |
| OmapRpc | a channel: task, endpoint, `exitSem`, `shutdown` | createChannel, deleteChannel, task | MessageQCopy |
| IpcPower | wake and hibernate locks, callback list, suspend semaphore | lock/unlock, canHibernate, suspend, (un)register callbacks | VirtQueue_isr, Power |
| IpcResource | one connection to the host's resource manager, a lock | connect, request, requestData, setConstraints, release | MessageQCopy with timeouts |
| HwSpinlock | spinlock, local mutex, preemption gates, reference count | create, delete, enter, leave | other processors |
| ELF loader (`src/src/utils/elfload`, third-party) | modules loaded, symbol tables | used by tools that read images, not by the firmware | - |
| Deh, Watchdog, SysMin, StackDbg, HdmiWa, resource tables | dumps, timers, output, constants | - | - |

What is hard in it:

* **Interleavings.** Tasks preempt one another between any two kernel calls, Swis
  preempt tasks, interrupts preempt both, and the host (and the other core) runs
  at the same time on the same rings. `GateSwi` keeps tasks and Swis of this
  processor out, never the interrupt and never the host.
* **Lifetimes.** Endpoints, servers and channels are deleted while others may
  still know them by number or by handle.
* **Ordering and lost wake-ups.** One semaphore stands for "there may be buffers",
  notifications are suppressed by flags the two sides read and write at different
  times, and one mailbox interrupt may stand for many buffers.
* **Limits.** 256 buffers a ring with 16-bit indices that wrap, a heap shared by
  all endpoints, a mailbox FIFO on whose fullness `intSend` spins.
* **Failures.** Allocation failure in the middle of a send, recv timeouts that race
  with a message, an unblock that races with both.

What makes each part correct (the ones modelled are stated as properties below):
endpoints are first-in first-out mailboxes that lose nothing but on delete; the
transport is a bounded first-in first-out channel in each direction and nobody
sleeps for ever while it could proceed; a server answers each call once, to the
client that made it, and ends when told to; a resource answer belongs to its
request; the firmware is not suspended while a lock forbids it.

`PROJECT.json` lists the hazards at their lines with the properties that cover
them, or why none does.

## 2. Modules

| module | what it is |
|---|---|
| `Mailbox` | abstract: what a local endpoint promises |
| `MessageQCopy` | the endpoints: create, local send, recv, unblock, delete |
| `MessageQCopyProofs` | theorems about `MessageQCopy` for all constants; it implements `Mailbox` |
| `Channel` | abstract: a bounded channel that delivers once, unaltered, in order |
| `VirtQueue` | one vring: the calls of `VirtQueue.c` and the host's driver, access by access |
| `RemoteSend` | `MessageQCopy_send` to the host over `VirtQueue` |
| `Arrivals` | the Swi that delivers what the host sends, over `VirtQueue` |
| `VirtQueueProofs` | theorems about `RemoteSend` and `Arrivals`, and their rings, for any size and width; each implements `Channel` |
| `InterruptIpu` | mailbox messages on their way to the second core |
| `InterruptIpuProofs` | theorems about `InterruptIpu` for FIFOs of any size; it implements `Channel` |
| `ReplyBox` | abstract: each caller gets the reply to its own message, once |
| `RcmClient` | threads that share one reply queue, one of them the mailman |
| `RcmClientProofs` | theorems about `RcmClient` for any threads and message numbers; it implements `ReplyBox` |
| `RcmJobs` | an RCM server's pools, job streams and shutdown |
| `RcmJobsProofs` | theorems about `RcmJobs` for any workers, pools, jobs and messages |
| `Services` | two managers that create and delete RCM servers for clients |
| `IpcResource` | the connection to the host's resource manager |
| `IpcResourceProofs` | theorems about `IpcResource` for any tasks, resources and connections |
| `IpcPower` | hibernation of both cores, from the host's request to its wake-up |
| `HostRequestsProofs` | theorems about `Services` for any clients and endpoints, and about `IpcPower` for any number of requests and locks |
| `HwSpinlock` | spinlocks between cores, with mutex, gate and shared word |
| `HwSpinlockProofs` | theorems about `HwSpinlock` for any cores, tasks and spinlocks |
| `MCMessageQCopy`, `MCRcmJobs`, `MCServices`, `MCHwSpinlock` | instances for TLC: functions and sequences a `.cfg` cannot write, and one bound |

`RemoteSend` and `Arrivals` are `VirtQueue` with two different users. Their proofs share
the lemmas about rings and stand in one module; so do those of `IpcPower` and `Services`.
In each pair the definitions of one carry a prefix (`ArrivalsNext`, `PowerSpec`, `SwiPost`
for the interrupt), since a name can mean one thing only in a module that extends both.
The modules
from `RcmClient` on stand on what the lower ones promise: an endpoint or queue is a
first-in first-out sequence with a sticky unblock (`Mailbox`, `Channel`), never the
code below it again.

### MessageQCopy

| code | model |
|---|---|
| `module.msgqObjects[]`, `module.heap` | `msgqObjects`, `heap` (the free blocks) |
| `obj->semHandle`, `queue`, `unblocked`, `queueId` | functions of `Objects`: `sem`, `queue`, `unblocked`, `queueId` |
| memory of an object | `life`: how much of it exists. An address is used once, so that a stale pointer shows |
| `Queue_elem` in a block | `content`: destination and data |
| a thread inside a call | `pc`, and its locals `obj`, `payload`, `msg`; `data` is the caller's buffer |
| `MessageQCopy_create` (inside the gate) | `Create` |
| `MessageQCopy_send`, local part, 527-563 | `SendLookup`, `SendAlloc`/`SendNoMemory`, `SendFill`, `SendPut`, `SendPost` |
| `MessageQCopy_recv` 422-469 | `RecvBegin`, `RecvPend`/`RecvTimeout`, `RecvUnblocked`/`RecvCheck`, `RecvGet`/`RecvNullPayload`, `RecvCopy`, `RecvFree` |
| `MessageQCopy_unblock` | `Unblock` (flag), `UnblockPost` |
| `MessageQCopy_delete` 377-415 | `DeleteSemaphore`, `DeleteDrain`/`DeleteDiscard` (loop), `DeleteDrained`, `DeleteList`, `DeleteSlot`, `DeleteFree` |

Each call of the kernel (Semaphore, List, HeapBuf) and each section inside the
gate is one step. Use of a part of an object that is gone (`SendPutDeleted`,
`SendPostDeleted`) is undefined behaviour; the model records `fault = "deleted"`
and stops there. Every other property is therefore about runs up to such a use,
and the use itself is the finding of section 4. The list may still exist when
the semaphore is gone (`MessageQCopy_delete` takes them away in that order), and
the model lets a sender put a block on it then, as the code does.

Client contract, as `MessageQCopy.h` states it and as the callers in this
repository keep it (e.g. `RcmServer_Instance_finalize_P`: unblock, join the reader,
delete): one reader per endpoint, no delete while somebody is in recv or unblock
on that handle, no recv after `E_UNBLOCKED`. Nothing is assumed of senders.

### VirtQueue, RemoteSend, Arrivals

`VirtQueue` holds the state of one vring as both sides see it: indices modulo
`IdxMod` (2^16 in the code), `Num` entries, the two suppression flags, the buffer
contents, the two mailboxes as counters bounded by `FifoSize`. Its operators are
the separate accesses of `VirtQueue.c`: the look at the index and the clearing of
`NO_NOTIFY` in `getAvailBuf` are two steps, the entry and the index of
`addUsedBuf` are two steps. The host's driver is not in the repository; its half
(`HostAdd`, `HostNotify`, `HostCollect`) follows the virtio protocol: it writes the
index before it reads the flag, and it may wait for a full mailbox. The mailbox counts
the kicks of this queue: `VirtQueue_isr` drops a number from `NUM_QUEUES` on (line 433)
or without a queue, and no queue changes with it. The queue is one of the DSP, of core 0
or of an SMP image; see section 4 for those of a core 1 with an image of its own.

`RemoteSend` adds the senders: `gateSwi` (held from `SendReset` to the end of
`getAvailBuf`, and again from `SendAdd` to the kick), `transport.semHandle_toHost`
with its queue of waiting tasks, the `Semaphore_reset` before every look at the
ring, and the interrupt that posts it. `Arrivals` adds the Swi, its `posted` flag
(a Swi posted while it runs runs again), `usedBufAdded` and the kick after the
loop, the `Swi_post` of every recv, and a host that switches its interrupt off and
on and sleeps when it has no buffer. The delivery of one message is one step here
(`SwiDeliver`); what follows is a send of `MessageQCopy`, where the Swi is one of
the `Senders`.

### InterruptIpu

In the build with two images the host writes to the mailbox of core 0, which
passes on what is for core 1 (`VirtQueue.c:427-429`): `Forward0` waits for room in
the second FIFO and writes it, `Trigger0` sets bit 0 of `INTERRUPT_CORE_1`. Core 1
takes the interrupt (`Interrupt1`), clears the bit (`Clear1`), takes one message
(`Take1`, or `Nothing1`), looks at the FIFO again (`Again1`), sets the bit for itself
if more are there (`Rearm1`), and calls `userFxn` (`Call1`). A message that core 0
keeps (`Keep0`) goes to `VirtQueue_isr`. Each register access is a
step; the read of a read-modify-write on the bit has no effect of its own, since
no other bit of the register is in use.

### RcmClient

`genMsgId` and the calls that send (`alloc`, `Put`/`PutFails`); then
`RcmClient_getReturnMsg_P` in full. `pc` is where a thread is: `mbx` (about to take
`mbxLock`), `sort` (the mailman at work, holding it), `block` (waiting for the queue
without it), `relock`, `wait` (in the waiting list, pending on its event). The
section of `mbxLock` is one step except for the mailman, who takes messages while the
server adds more. The server answers in any order. RcmClient is source without a
place in the library that `grcm/package.bld` makes (the host has a client of its
own); it needs `USE_MESSAGEQCOPY` 0, as MessageQ's messages are packets.

### RcmJobs

The server thread (`spc`: get, in-band process, dispatch), workers (`wpc`: pend,
process, next) and `RcmServer_Instance_finalize_P` (`del`). `jobList` is a function from job
ids to a stream (`empty`, `msgQue`); searching and changing it inside the gate is one
step, executing a message another. `Get` looks at `shutdown` right after it took the
message, as the code does (2210), and keeps what it saw in `running`: a thread that is
told to end while it has a message comes back for one more or for the unblock.
`acqJobFails` is the failed allocation, which uses an id up. `MaxJobs` bounds
the jobs clients ask for, so no id is given twice; in the code the counter starts again
after 65535 of them and skips the ids in use (section 6).

Pools and jobs too are for `USE_MESSAGEQCOPY` 0: with 1, which `RcmTypes.h:47` sets "to
get a protoype working", all packets lie in the one buffer of the server
thread, and `Services` models that server. With 0 `RcmServer.c` does not compile at this
commit (1521 passes a `createFxn` that only 1517, for 1, declares), nor does any
build select it: `RcmJobs` and `RcmClient` are about code that is kept beside the one in
use, and show what it does once such slips are out of the way. `QuietDelete` is a named assumption on the caller of delete: see
section 4, observations.

### Services

`task` is where each manager (OmxSrvMgr, and the task of one OmapRpc channel) is:
`recv`, `store` (between `RcmServer_create` and `storeTuple` with `RcmServer_start`), `join`.
`thread` is the same for each server's thread. `storeTuple`, `RcmServer_start` and the
response are one step, and so is `removeTuple` with the shutdown flag: both managers
have priority 1 (`OmxSrvMgr.c:169`, `OmapRpc.c:243`) and do not preempt one
another in an image for one core, which is what the module is about; for an SMP image
see section 4. `Loop` is the test of the channel's loop (`OmapRpc.c:98`): a receive that
returns between the flag (274) and the unblock (276) still serves its message, and
`ChannelExits` is the unblock with the receive that returns for it. A request in `que` is a record with its client, so that what belongs to an
earlier owner of an address can be told.

### IpcResource

`request`, `requestData`, `requestConstraints`, `releaseConstraints` and `release` begin a
call and share the steps `Pend`, `Send`/`SendFails`, `Recv`/`TimesOut`, `Check`, as their
bodies do; `release` skips the semaphore, `releaseConstraints` the answer. `Connect`,
`Connected`/`ConnectTimesOut` and `Disconnect` are the connection. An assertion that
fails (`Asserted`) stops the program, not the host.

### IpcPower

`Isr*` is `VirtQueue_isr` of core 0, its accesses one by one; `Core1Isr` the same of
core 1. `TaskPend`, `SuspendSwi`, `PostResume` are the suspend task of each core, which
goes before the tasks that take locks (`OthersRun`): it has the highest priority.
`heldSince` is a history variable.

### HwSpinlock

`Create`, `Delete`, and enter and leave in their steps: the local mutex, the read of the
hardware register that takes it, the gate, the read and the write of the shared
word. `Runs` says who may run: while a task is inside a gate other than GateNull, no
other task of its core. `bare` records that bits were changed inside GateNull.

## 3. Properties and runs

Each run ends in less than four minutes with two workers. `CHECK_DEADLOCK FALSE` is
set because nobody is obliged to call anything: the system may rest.

**`endpoints`** (one reader, two senders with two payloads, one manager, two blocks,
two objects one after the other at one number). Two senders and a manager are enough
for every pair of calls to overlap, two blocks for the heap to run dry and for order
to show; the second object takes the number of the first while that one is being
deleted or after. To keep the run small, an action constraint lets only one
sender call from then on (`OneSenderAtLast`; it bounds only beginnings, which no
fairness asks for). More readers, objects and numbers, and the search for a free
number, are covered by the proofs of section 5.
`TokensMatchMessages` (tokens of the semaphore, readers between pend and get, and
senders between put and post account exactly for the list), `NoBlockShared` and
`NoBlockLost` (every block is in exactly one place, and never stuck), `RefinesMailbox`
(order, no loss, no duplicate, no wrong destination), `NobodyLeftWaiting` (a reader
with a message is served, one that is unblocked released, a delete ends).

**`send`** (2 senders, 1 message, 2 descriptors, indices modulo 4).
`DescriptorsOwnedOnce` (each descriptor is with the host, on a ring or with one
sender), `RefinesChannel`. Indices modulo 4 wrap within a few messages and keep what
matters of 2^16 over 256: a multiple of the ring size, larger than it. Order and
contents of two different messages are checked by `arrivals`, over the same rings; with
one message here, the channel shows loss and repetition.
`BlockedSendersWoken`: although each attempt resets the semaphore and wipes posts
others have yet to pend on, every blocked sender is woken, provided no notification
was missed in the window of the finding below.

**`arrivals`** (2 messages, 2 descriptors, indices modulo 4). `ArrivalsOwnedOnce`,
`ArrivalsRefineChannel`; `NeitherSideWaits`: a waiting message is taken if the Swi is posted, or
if notification was on (again provided none was missed), and the host's sleeping
sender wakes although the Swi announces buffers only at its end and not while the
host has its interrupt off.

**`interrupt`** (FIFOs of 2, one message for core 0 and two for core 1).
`NoMessageWithoutInterrupt` (whoever acts in between, a FIFO with a message has an
interrupt to come), `RefinesChannel` (through both FIFOs and what the handlers
hold), `MessagesTaken` (each handler comes out again, core 0's from its spin for room
too, and takes what is in its FIFO the next time), `TypeOK` (neither FIFO is
written when full). FIFOs of 2 are full, half full and empty at either end.

**`rcm_client`** (3 threads, numbers 1 to 3, one message at a time that nobody waits
for yet). Three threads are a mailman, a thread served and one left to succeed; the
numbers start again within a few calls. `MailmanFollows`: when the mailman leaves, a
thread that waits has a successor to him. `ImplementsReplyBox`: each reply goes to its
caller, once, and reaches it whatever the others do.

**`rcm_jobs`** (2 pools, 2 workers, 4 messages, 1 job; with a worker in each pool, and
with both in the second so that the server thread processes the default pool's
messages itself). The request for a job, two messages of it on two pools and its release
take four messages. `JobsInSequence`, `NoneStranded` (each message is answered
exactly when it has left the queues, and a job that is not empty has a message at
work to bring the next one forward), `Progress` (every message is answered or lost
with the server's queue; delete ends).

**`services`** (3 clients of 2 managers, 2 addresses). Three clients for two addresses:
one is refused, and each address gets another owner. `OwnService`, `NothingLeftOver`,
`Progress` (requests, calls and deletions end).

**`resource`** (2 tasks, 1 resource, 2 connections, a ring of 3, one wait that ends too
early). `OwnAnswer` and `HostAgrees` until that wait; `CallsEnd` in any case, up to the
failed assertion that the late answer can lead to.

**`power`** (2 requests, 2 locks per core). `LockedThroughout` (a core that keeps a lock
since before the request stops the hibernation of both), `SuspendedPerRequest`;
`RequestEnds`: from the host's message to the answer, through the handler, nothing stays
under way, a suspend task that has begun comes back, and the one of a module that is
finalised ends, unless an assertion failed (`Asserted`) or exit dropped a suspend
(`Dropped`, section 4). The second request shows what the first has left.

**`spinlock`** (2 tasks of one core, 1 of another, 2 locks, one enter each).
`HoldersKnown` (one holder among all cores; the shared word tells which locks are
taken as long as no GateNull is used), `CallsEnd` (each task enters once, so that no
other takes the lock again and again).

Fairness. Weak fairness of every step of a call that was begun, of the Swi once
posted and of interrupts: the kernel's scheduler runs a ready thread when the
ones above it block, and callers here do not spin. Two senders compete for the
gate, which a task holds with task switching off, so that it is free whenever
another one runs: strong fairness of the two entries. Kernel semaphores serve
their waiters in turn: strong fairness of the pend in `RcmClient` and `IpcResource`.
The host empties the used ring when told to, gives the buffers back and looks at the
flag; it reads requests to the resource manager, and wakes the cores it has put to
sleep. In `IpcResource` a wait that will get nothing expires (the default timeout, not
`IpcResource_FOREVER`). The server of `RcmClient` need not answer. Functions of messages return.
No fairness on the beginning of any call or on timeouts elsewhere.

Every property is shown to depend on the code: `PROJECT.json` pairs it with a
mutant, an operator beside the original (marked `Mutant:`), with which TLC finds
it violated.

## 4. Findings

* `endpoints_delete`: "Protect from MessageQCopy_delete" (`MessageQCopy.c:530`) is
  not what the gate does: it protects the read of the slot, not the use of what
  was read. A sender that looked the object up before the delete puts a block on
  its list or posts its semaphore after they were deleted.
* `send_missed`: `VirtQueue_getAvailBuf` turns notifications on after it found the
  ring empty (`VirtQueue.c:312-314`) and does not look again. Buffers the host adds
  in between are not announced, and the sender stays blocked with buffers at
  hand until the host adds another one. The same window exists for arrivals,
  where any recv closes it again, since recv posts the Swi ("Check vring for
  pending messages before we block").

Observations: what the models and the reading of the code show besides, with no run
that isolates it.

* `RcmServer.c:2228`: a message of a job that is for a default pool without workers is
  processed at once by the server thread, out of the sequence that `RcmClient.h:560`
  promises. `JobsInSequence` leaves these messages out.
* `RcmServer.c:934` deletes the job list before the workers are joined (939-962). A
  worker between a message of a job and the next one walks the deleted list; with
  `QuietDelete` FALSE the model takes it for empty.
* `RcmServer.c:2183`: after an unblocked recv the assertions look at the header of the
  message before.
* `RcmServer.c:1744`: a pool id without bit 15 leaves `*poolP` unset and returns success.
* `RcmClient.c:788`: `checkForError` returns success with a message for a job or pool
  that was not found, though its comment (740-747) says the status is then negative.
* `IpcPower.c:309`: exit wakes the suspend task by the semaphore of a suspend; one that
  was to come is dropped, and the other core is suspended alone. `RequestEnds`
  says nothing from there on (`Dropped`).
* `VirtQueue.c:474-476`: a core 1 with its own image numbers its queues 200 and 201, "so they
  don't collide with SysM3's virtqueues"; the registry has `NUM_QUEUES` = 4 entries (191,
  516), and `VirtQueue_isr` drops numbers from 4 on (433) with a message that "we should
  never see". What core 0 passes on arrives (`InterruptIpu`), but no queue of that core is
  called back. `VirtQueue` is therefore about the other images.
* `ServiceMgr.c:243`: the table is searched and changed without a lock. In an SMP image the two
  managers can do so at once and take the same free entry.
* `IpcResource.c:277`: the late answer to another kind of request fails the assertion on
  the length. `IpcResource_connect` leaves the semaphore undeleted on its error path
  (155-159).
* `HwSpinlock.c:61-69`: with GateNull a preempted task overwrites the bit that another one
  sets; and the bit is cleared after the lock was released, so that for a moment two
  cores show it.

## 5. Theorems

The theorems hold for every value of the constants that the named assumptions of
the modules allow. The assumptions say that a value that stands for "none" is none
of the others, that bounds are natural numbers, that a ring has an entry and divides
the range of its indices (`VirtQueue.c:90`: "must be power of two"), and that the
threads are finitely many, which counting them needs; in `Services`, that endpoints are
looked at in an order (a sequence of them), that there are no more than table entries, and
that the managers' endpoints are others (`OmxSrvMgr.c` and `OmapRpc.c` create theirs
through the same slots, and `MessageQCopy_create` gives no slot twice while it is taken).
Nothing is assumed of runs,
except where a property itself says until when it speaks (below).

Each module proves an inductive invariant (`IInv`; `AInv` of `Arrivals`, `SInv` of `Services`;
the layers of `MessageQCopyProofs`)
with one lemma for each action or group of like actions, and the properties from it.
TLC has checked each invariant on the instance of the module's run before.

**`MessageQCopyProofs`** proves every safety property of `endpoints`, in layers.

1. `Layer1 == TypeOK /\ ThreadsMatchObjects /\ SlotsMatchObjects` is inductive
   (`Layer1Invariant`; `ThreadsMatchObjects`: what a thread is about to do fits the
   state of its object; `SlotsMatchObjects`: numbers and objects point at each other;
   theorems `TypeCorrect`, `ThreadsAgree`, `SlotsAgree`). Threads
   must be in it: that `DeleteSlot` clears the right slot, and only once, follows
   from there being one deleter, in the right phase, on an object that still owns
   its number.
2. On top of it the heap: every action either leaves blocks where they are or moves
   one block from one place to another, which keeps `NoBlockShared` and the first
   half of `NoBlockLost` (`BlocksNotShared`, `BlocksNotLost`).
3. On top of both the semaphores: `TokensMatchMessages` by counting, with the
   cardinalities of `Claimed` and `Unposted` changing by one thread at a time
   (`TokensAgree`), and from it `NullPayloadUnreachable`: a reader that claimed a
   token and saw no `unblocked` finds a non-empty list.
4. `EndpointsImplementMailboxes` (`RefinesMailbox`): every step is a step of `Mailbox`
   or leaves the mailboxes as they are. A sender's `List_put` accepts a letter, the
   reader's `List_get` takes the first one, the drain of a delete discards. This needs
   one more invariant, `WellAddressed`: what is on the list of an object, and
   what a sender is about to put there, was written for its endpoint. It rests on
   layers 1 and 2, since a block that could be rewritten while it is listed would
   be a letter that changes in the box.

**`VirtQueueProofs`** proves all safety properties of `send` and of `arrivals`. Its first part
is arithmetic: `OnAvail` and `OnUsed`, the descriptors between two indices that wrap at
`IdxMod`, in a ring that wraps at `Num`, are sequences to which a bump appends and from
which a take removes the head, for any `Num` that divides `IdxMod`.

1. `RemoteSend`: `SendTypeOK`, `SendersOwnDescriptorsOnce`, `SendImplementsChannel`
   (`RefinesChannel`). `IInv` says which descriptor each sender has and in which steps it has
   the gate (`SendersOK`), that each descriptor is in exactly one place (`Apart`, `Somewhere`),
   and that they add up to `Num` (`Counted`): so an entry that `addUsedBuf` writes is one that
   nobody has yet to read. The refinement maps `SendBump` to the abstract send and
   `HostReceive` to the receive, and needs `MessagesSent` with the contents fixed from
   `SendFill` on.
2. `Arrivals`: `ArrivalsTypeCorrect`, `ArrivalsOwned` (`ArrivalsOwnedOnce`),
   `ArrivalsImplementChannel` (`ArrivalsRefineChannel`). `AInv` says that the Swi has a descriptor
   from the take to the bump and the entry it bumps over is that one (`SwiOK`), that each
   descriptor is with the host, on a ring or with the Swi (`InboundApart`, `InboundSomewhere`,
   `InboundCounted`), and that what is on the avail ring, or about to be delivered, is a
   message (`MessagesWait`). The count is what lets the host and the Swi write: while either
   has a descriptor, the ring it puts it on has room. The abstract channel is what the Swi
   has taken and not delivered, followed by the avail ring: `HostSend` appends to it,
   `SwiDeliver` removes the head, and `SwiToken` moves the head from the ring to the Swi
   without changing it. That a buffer goes back only after its message was copied is
   part of it: the contents of the abstract channel are read through the descriptors, and
   the host could overwrite one it had again.

**`InterruptIpuProofs`** proves `TypeCorrect` and `InterruptComes` (`TypeOK` and
`NoMessageWithoutInterrupt`, together inductive: core 0 sets the bit after it wrote
the FIFO, core 1 looks at the FIFO after it cleared the bit), and
`MailboxesImplementChannel` (`RefinesChannel`). What is on its way to core 1 is the
concatenation of core 1's hand, its FIFO, core 0's hand and those messages in core 0's
FIFO that are for core 1 (`ForCore1`, a recursive function: `KeptExists` obtains its
equations from the least length that would have none). Every step of core 0 or core 1
moves a message from the head of one part to the end of the next, so that the whole
changes only when the host writes or core 1 calls `userFxn`. `HoldsWhatItTook`
(a core's argument is a message for it while it is between the read and the call)
is the invariant this needs.

**`RcmClientProofs`** proves `ClientTypeOK`, `AlwaysAMailman` (`MailmanFollows`) and
`ClientImplementsReplyBox` (`Spec => Box!Spec`). `MailmanFollows` is inductive
with who has which lock (`OneMailman`), what the list of recipients holds (`ListOK`)
and what each thread wants (`CallsOK`): a thread woken as the successor may find that
its reply was delivered in between, and then it is the one to name the next. For the
refinement each number must be wanted by one thread (`NumbersApart`), and each reply be in one
place between the server and the thread (`RepliesOnce`) and wanted by somebody
(`RepliesWanted`).

**`RcmJobsProofs`** proves `JobsTypeOK`, `JobsRunInSequence` (`JobsInSequence`) and
`NoMessageStranded` (`NoneStranded`). `IInv` says where each message is (`QueuesOK`,
`ThreadsOK`, `InOnePlace`), that it has an answer exactly if it is nowhere
(`Answered`), and what a job's `empty` flag stands for (`OneForward`): a job that is
not empty has one message in a ready queue or at a worker, older than all that wait
in its own queue. The sequence follows from that and from `Answered`, for messages that
go to a pool with workers (see section 4). What a worker's semaphore counts
(`Counted`) and what each phase of delete has left (`Deleting`) keep it inductive. Both
theorems hold with `QuietDelete` TRUE or FALSE.

**`IpcResourceProofs`** proves `ResourceTypeOK`, `AnswersReachTheirCallers` (`OwnAnswer`)
and `HostAndTasksAgree` (`HostAgrees`). `IInv` has a part that holds whatever the host and
the clock do (`Always`: types, channels, the semaphore has one holder), and one
that holds as long as no wait ended too early (`InTime`): the announcement is the last
message out and its ack the first one in (`Connecting`), one answer is due at most, to
the task that waits (`AnswerDue`), and each resource given out is in one place
(`InOnePlace`). That the two properties say nothing from the first such wait on is the
code's own limit: see `IpcResource.c:277` in section 4.

**`HostRequestsProofs`** proves all safety properties of `power` and of `services`.

1. `IpcPower`: `PowerTypeCorrect`, `LockRefusesHibernation` (`LockedThroughout`) and
   `OneSuspendPerRequest` (`SuspendedPerRequest`). A suspend is in transit (the handler is
   about to post it, or core 1 has yet to see its message), in the semaphore, or done;
   `CountsAgree` adds these up to what was granted, and `SuspendsOfOneRequest` says that all
   belong to one request, which is why a semaphore never holds two.
2. `Services`: `ServicesTypeCorrect`, `ServicesOwned` (`OwnService`) and `NothingLeftBehind`
   (`NothingLeftOver`). Neither property is inductive. That a deletion under way is never
   for somebody's service needs to follow an address through its life: taken from the
   free endpoints and at a manager that nobody else shares it with (`JobsOK`), in the table with
   its thread started (`ServersOK`), a client's, with only that client's messages at it
   (`ClientsOK`), given up and named by exactly one request to disconnect
   (`DisconnectsOK`), out of the table with its thread about to end (`JobsOK` again), free, with
   no thread and an empty endpoint (`ServersOK`). `ConnectsOK` (one request to connect for
   each client that waits) says that an answer finds a client without a service. The
   steps of the managers are the hard ones: an address is free for `FirstFree` only after
   `Joined`, and a request to delete it must not still wait at a manager when it is given
   to the next client. That `FirstFree` returns a free endpoint
   (`FirstFreeOK`) is by the least index of a non-empty set.

**`HwSpinlockProofs`** proves `SpinlockTypeOK` and `SpinlockHolders` (`HoldersKnown`). One holder
among the tasks of a core follows from the mutex (`MutexHeld`), among cores from the hardware
register (`TakenWhileHeld`); a task that timed out has no valid key to release what
another one holds. The word is right since what a task has read of it is still there
when it writes it back (`WordKept`), which needs the gate (`GateHeld`) and fails with
GateNull (`bare`).

Only model-checked is liveness: `NobodyLeftWaiting`, `BlockedSendersWoken`,
`NeitherSideWaits`, `MessagesTaken`, `Progress`, `CallsEnd`, `RequestEnds`, and the fair half of
`ReplyBox` (`ImplementsReplyBox` is `Box!FairSpec`; proved is `Box!Spec`). Fairness and `ENABLED`
are out of the prover's reach. The two findings of section 4 are counterexamples of TLC.

## 6. Not modelled

* `MessageQCopy_init`/`finalize` (boot), `VirtQueue_addAvailBuf`/`getUsedBuf` (a host role no
  build uses), boot, echo and crash messages, cache and register accesses, the text of
  traces. Memory is sequentially consistent: the vrings are mapped uncached, and the
  code has no barriers to model. Contents and addresses of messages are abstract values.
* RcmServer: the symbol table with its keys, and the descriptors' other types (query,
  execution in a DPC). RcmClient: create and delete; the exits of
  `getReturnMsg` on a lost message (1455, 1531, 1554), which leave the locks held, need a
  queue that fails, and nobody unblocks it; a number given again while the message
  that had it is unclaimed, 65535 messages later.
* Job ids given again, after 65535 requests: a worker still at work on a message of the
  released job would take the new job of that id for its own when it looks for the next
  message, and `JobsInSequence` could not hold. The theorems are about servers
  that gave out fewer.
* Services: two managers that run in parallel (an SMP image); a full tuple table, out of reach with 155 endpoints for 256 entries; a
  channel whose task was never created; `ServiceMgr_send`.
* IpcPower: callbacks, wake locks, the deep-sleep bit, one SMP image, the DSP.
* HwSpinlock: hook functions; a delete that is refused, which needs a lock that is taken
  and whose holder is no user.
* OffloadM3, InterruptDsp, exceptions, watchdog, trace, resource tables, HdmiWa: see the
  notes in `PROJECT.json`. The `*_norouting.c` files are in no build. The examples and
  host samples are clients.
* The ELF loader under `src/src/utils/elfload`: a third-party, sequential library of the
  host-side tools. It is about two fifths of the repository's lines.

## 7. What is left

Every safety property that a passing run checks is a theorem. Not modelled among the
components with concurrent state of their own are OffloadM3's workers and, of RcmServer,
the symbol table with its keys; of IpcPower, the callbacks. Each has a hazard in
`PROJECT.json` that no property covers yet.
