---------------------------- MODULE MessageQCopy -----------------------------
(***************************************************************************)
(* The local half of ti/ipc/rpmsg/MessageQCopy.c: endpoints of this        *)
(* processor, their queues, counting semaphores and the shared heap of     *)
(* payload blocks, used by readers, senders and managers that preempt one  *)
(* another between any two calls into the kernel.                          *)
(*                                                                         *)
(* A section between GateSwi_enter and GateSwi_leave is one step, as is    *)
(* each call of Semaphore, List or HeapBuf, which the kernel makes atomic. *)
(* Everything else interleaves: the Swi that delivers what the host sent   *)
(* runs the same send code and is one of the Senders.                      *)
(*                                                                         *)
(* Client contract (MessageQCopy.h): an endpoint has a single reader, it   *)
(* is deleted when nobody is inside a call on its handle, and its reader   *)
(* stops using it once told that it was unblocked.  Nothing is asked of    *)
(* senders, who know an endpoint by its number only.                       *)
(***************************************************************************)
EXTENDS Naturals, Sequences, FiniteSets

CONSTANTS
  Readers,      \* tasks that create an endpoint and receive on it
  Senders,      \* tasks, and the Swi, that send to local endpoints
  Managers,     \* tasks that unblock and delete endpoints of readers
  MaxReserved,  \* MessageQCopy_MAX_RESERVED_ENDPOINT
  MaxEndpoint,  \* MAXMESSAGEQOBJECTS - 1
  Objects,      \* addresses of MessageQCopy_Objects; none is used twice
  Blocks,       \* the MAXMESSAGEBUFFERS blocks of the heap
  Payloads,     \* contents of a message
  AssignAny,    \* MessageQCopy_ASSIGN_ANY
  NULL

Threads == Readers \cup Senders \cup Managers
Endpoints == 0..MaxEndpoint
Message == [dst : Endpoints, data : Payloads]

ASSUME ThreadsAssumption == IsFiniteSet(Threads) /\ NULL \notin Threads
ASSUME EndpointsAssumption ==
  MaxReserved \in Nat /\ MaxEndpoint \in Nat /\ MaxReserved <= MaxEndpoint
ASSUME NullAssumption ==
  NULL \notin Objects \cup Blocks \cup Endpoints \cup Message
ASSUME AssignAnyAssumption == AssignAny \notin Endpoints

VARIABLES
  msgqObjects,  \* module.msgqObjects: endpoint -> object or NULL
  heap,         \* the free blocks of module.heap
  content,      \* what each block holds
  life,         \* how much of an object exists
  queueId,      \* obj->queueId
  reader,       \* the one reader of an object (usage, not a field)
  sem,          \* count of obj->semHandle
  queue,        \* blocks on obj->queue, oldest first
  unblocked,    \* obj->unblocked
  handle,       \* the handle each reader holds
  pc,           \* where each thread is
  obj,          \* its local variable obj
  payload,      \* its local variable payload
  msg,          \* the message it sends
  data,         \* the buffer that recv fills for a reader
  timed,        \* the reader's pending recv has a finite timeout
  fault         \* "none", or how the program went down

endpointVars == <<msgqObjects, life, queueId, reader, handle>>
dataVars == <<heap, content, queue>>
signalVars == <<sem, unblocked>>
localVars == <<pc, obj, payload, msg, data, timed>>
vars == <<endpointVars, dataVars, signalVars, localVars, fault>>

\* A live object has all its parts; _delete takes them away in this order:
\* semaphore, list, slot, memory.
Lives == {"unused", "live", "nosem", "nolist", "noslot", "freed"}
RecvPcs == {"pend", "check", "get", "copy", "free"}
SendPcs == {"alloc", "fill", "put", "post"}
DeletePcs == {"drain", "discard", "dellist", "nullslot", "memfree"}
Pcs == {"idle", "shut", "signal"} \cup RecvPcs \cup SendPcs \cup DeletePcs

Running == fault = "none"
At(t, l) == pc[t] = l /\ Running
Goto(t, l) == pc' = [pc EXCEPT ![t] = l]

-----------------------------------------------------------------------------
Init ==
  /\ msgqObjects = [e \in Endpoints |-> NULL]
  /\ heap = Blocks
  /\ content = [b \in Blocks |-> NULL]
  /\ life = [o \in Objects |-> "unused"]
  /\ queueId = [o \in Objects |-> NULL]
  /\ reader = [o \in Objects |-> NULL]
  /\ sem = [o \in Objects |-> 0]
  /\ queue = [o \in Objects |-> <<>>]
  /\ unblocked = [o \in Objects |-> FALSE]
  /\ handle = [r \in Readers |-> NULL]
  /\ pc = [t \in Threads |-> "idle"]
  /\ obj = [t \in Threads |-> NULL]
  /\ payload = [t \in Threads |-> NULL]
  /\ msg = [t \in Threads |-> NULL]
  /\ data = [r \in Readers |-> NULL]
  /\ timed = [r \in Readers |-> FALSE]
  /\ fault = "none"

-----------------------------------------------------------------------------
(* MessageQCopy_create: everything happens inside the gate.  AssignAny     *)
(* takes the lowest free slot above the reserved ones, a reserved number   *)
(* only its own slot, and a number in between nothing.                     *)

FreeSlots(reserved) ==
  IF reserved = AssignAny
  THEN {e \in Endpoints : e > MaxReserved /\ msgqObjects[e] = NULL}
  ELSE {e \in Endpoints : e = reserved /\ e <= MaxReserved /\ msgqObjects[e] = NULL}

Create(r, reserved) ==
  /\ At(r, "idle")
  /\ handle[r] = NULL
  /\ \E e \in FreeSlots(reserved), o \in Objects :
       /\ \A f \in FreeSlots(reserved) : e <= f
       /\ life[o] = "unused"
       /\ life' = [life EXCEPT ![o] = "live"]
       /\ queueId' = [queueId EXCEPT ![o] = e]
       /\ reader' = [reader EXCEPT ![o] = r]
       /\ msgqObjects' = [msgqObjects EXCEPT ![e] = o]
       /\ handle' = [handle EXCEPT ![r] = o]
       /\ sem' = [sem EXCEPT ![o] = 0]
       /\ queue' = [queue EXCEPT ![o] = <<>>]
       /\ unblocked' = [unblocked EXCEPT ![o] = FALSE]
  /\ UNCHANGED <<heap, content, localVars, fault>>

-----------------------------------------------------------------------------
(* MessageQCopy_send to an endpoint of this processor.                     *)

\* The slot is read under the gate, which is then left.
SendLookup(s, m) ==
  /\ At(s, "idle")
  /\ msgqObjects[m.dst] # NULL
  /\ obj' = [obj EXCEPT ![s] = msgqObjects[m.dst]]
  /\ msg' = [msg EXCEPT ![s] = m]
  /\ Goto(s, "alloc")
  /\ UNCHANGED <<endpointVars, dataVars, signalVars, payload, data, timed, fault>>

SendAlloc(s) ==
  /\ At(s, "alloc")
  /\ \E b \in heap :
       /\ heap' = heap \ {b}
       /\ payload' = [payload EXCEPT ![s] = b]
  /\ Goto(s, "fill")
  /\ UNCHANGED <<endpointVars, content, queue, signalVars, obj, msg, data, timed, fault>>

\* Mutant: the result of HeapBuf_alloc is not compared with NULL.
SendNoMemoryUnchecked(s) ==
  /\ At(s, "alloc")
  /\ heap = {}
  /\ Goto(s, "fill")
  /\ UNCHANGED <<endpointVars, dataVars, signalVars, obj, payload, msg, data, timed, fault>>

\* MessageQCopy_E_MEMORY: the heap is empty, the message is dropped.
SendNoMemory(s) ==
  /\ At(s, "alloc")
  /\ heap = {}
  /\ Goto(s, "idle")
  /\ obj' = [obj EXCEPT ![s] = NULL]
  /\ msg' = [msg EXCEPT ![s] = NULL]
  /\ UNCHANGED <<endpointVars, dataVars, signalVars, payload, data, timed, fault>>

SendFill(s) ==
  /\ At(s, "fill")
  /\ content' = [content EXCEPT ![payload[s]] = msg[s]]
  /\ msg' = [msg EXCEPT ![s] = NULL]
  /\ Goto(s, "put")
  /\ UNCHANGED <<endpointVars, heap, queue, signalVars, obj, payload, data, timed, fault>>

\* The object is used with no protection from MessageQCopy_delete: what
\* follows a use of a part that is gone is undefined, and ends the run.
UseDeleted(s) ==
  /\ fault' = "deleted"
  /\ UNCHANGED <<endpointVars, dataVars, signalVars, localVars>>

HasList(o) == life[o] \in {"live", "nosem"}
HasSemaphore(o) == life[o] = "live"

\* Mutant: new messages go to the front of the list.
SendPutFirst(s) ==
  /\ At(s, "put")
  /\ HasList(obj[s])
  /\ queue' = [queue EXCEPT ![obj[s]] = <<payload[s]>> \o @]
  /\ payload' = [payload EXCEPT ![s] = NULL]
  /\ Goto(s, "post")
  /\ UNCHANGED <<endpointVars, heap, content, signalVars, obj, msg, data, timed, fault>>

SendPut(s) ==
  /\ At(s, "put")
  /\ HasList(obj[s])
  /\ queue' = [queue EXCEPT ![obj[s]] = Append(@, payload[s])]
  /\ payload' = [payload EXCEPT ![s] = NULL]
  /\ Goto(s, "post")
  /\ UNCHANGED <<endpointVars, heap, content, signalVars, obj, msg, data, timed, fault>>

SendPutDeleted(s) == At(s, "put") /\ ~HasList(obj[s]) /\ UseDeleted(s)

\* Mutant: a binary semaphore.
SendPostBinary(s) ==
  /\ At(s, "post")
  /\ HasSemaphore(obj[s])
  /\ sem' = [sem EXCEPT ![obj[s]] = 1]
  /\ obj' = [obj EXCEPT ![s] = NULL]
  /\ Goto(s, "idle")
  /\ UNCHANGED <<endpointVars, dataVars, unblocked, payload, msg, data, timed, fault>>

SendPost(s) ==
  /\ At(s, "post")
  /\ HasSemaphore(obj[s])
  /\ sem' = [sem EXCEPT ![obj[s]] = @ + 1]
  /\ obj' = [obj EXCEPT ![s] = NULL]
  /\ Goto(s, "idle")
  /\ UNCHANGED <<endpointVars, dataVars, unblocked, payload, msg, data, timed, fault>>

SendPostDeleted(s) == At(s, "post") /\ ~HasSemaphore(obj[s]) /\ UseDeleted(s)

-----------------------------------------------------------------------------
(* MessageQCopy_recv.  Its Swi_post only makes the Swi run, which a sender *)
(* may do at any time; Arrivals.tla has that part.                        *)

RecvBegin(r, isTimed) ==
  /\ At(r, "idle")
  /\ handle[r] # NULL
  /\ life[handle[r]] = "live"
  /\ obj' = [obj EXCEPT ![r] = handle[r]]
  /\ timed' = [timed EXCEPT ![r] = isTimed]
  /\ Goto(r, "pend")
  /\ UNCHANGED <<endpointVars, dataVars, signalVars, payload, msg, data, fault>>

RecvPend(r) ==
  /\ At(r, "pend")
  /\ sem[obj[r]] > 0
  /\ sem' = [sem EXCEPT ![obj[r]] = @ - 1]
  /\ timed' = [timed EXCEPT ![r] = FALSE]
  /\ Goto(r, "check")
  /\ UNCHANGED <<endpointVars, dataVars, unblocked, obj, payload, msg, data, fault>>

\* MessageQCopy_E_TIMEOUT: the pend gives up, the semaphore is untouched.
RecvTimeout(r) ==
  /\ At(r, "pend")
  /\ timed[r]
  /\ sem[obj[r]] = 0
  /\ obj' = [obj EXCEPT ![r] = NULL]
  /\ timed' = [timed EXCEPT ![r] = FALSE]
  /\ Goto(r, "idle")
  /\ UNCHANGED <<endpointVars, dataVars, signalVars, payload, msg, data, fault>>

\* MessageQCopy_E_UNBLOCKED: the reader leaves its loop for good.
RecvUnblocked(r) ==
  /\ At(r, "check")
  /\ unblocked[obj[r]]
  /\ obj' = [obj EXCEPT ![r] = NULL]
  /\ Goto(r, "shut")
  /\ UNCHANGED <<endpointVars, dataVars, signalVars, payload, msg, data, timed, fault>>

RecvCheck(r) ==
  /\ At(r, "check")
  /\ ~unblocked[obj[r]]
  /\ Goto(r, "get")
  /\ UNCHANGED <<endpointVars, dataVars, signalVars, obj, payload, msg, data, timed, fault>>

\* Mutant: the block is freed before it is copied out.
RecvGetFreed(r) ==
  /\ At(r, "get")
  /\ queue[obj[r]] # <<>>
  /\ payload' = [payload EXCEPT ![r] = Head(queue[obj[r]])]
  /\ queue' = [queue EXCEPT ![obj[r]] = Tail(@)]
  /\ heap' = heap \cup {Head(queue[obj[r]])}
  /\ Goto(r, "copy")
  /\ UNCHANGED <<endpointVars, content, signalVars, obj, msg, data, timed, fault>>

RecvGet(r) ==
  /\ At(r, "get")
  /\ queue[obj[r]] # <<>>
  /\ payload' = [payload EXCEPT ![r] = Head(queue[obj[r]])]
  /\ queue' = [queue EXCEPT ![obj[r]] = Tail(@)]
  /\ Goto(r, "copy")
  /\ UNCHANGED <<endpointVars, heap, content, signalVars, obj, msg, data, timed, fault>>

\* System_abort("MessageQCopy_recv: got a NULL payload\n")
RecvNullPayload(r) ==
  /\ At(r, "get")
  /\ queue[obj[r]] = <<>>
  /\ fault' = "aborted"
  /\ UNCHANGED <<endpointVars, dataVars, signalVars, localVars>>

\* List_get, and the look at what it returned.
RecvList(r) ==
  /\ At(r, "get")
  /\ IF queue[obj[r]] = <<>> THEN RecvNullPayload(r) ELSE RecvGet(r)

RecvCopy(r) ==
  /\ At(r, "copy")
  /\ data' = [data EXCEPT ![r] = content[payload[r]]]
  /\ Goto(r, "free")
  /\ UNCHANGED <<endpointVars, dataVars, signalVars, obj, payload, msg, timed, fault>>

RecvFree(r) ==
  /\ At(r, "free")
  /\ heap' = heap \cup {payload[r]}
  /\ payload' = [payload EXCEPT ![r] = NULL]
  /\ obj' = [obj EXCEPT ![r] = NULL]
  /\ Goto(r, "idle")
  /\ UNCHANGED <<endpointVars, content, queue, signalVars, msg, data, timed, fault>>

-----------------------------------------------------------------------------
(* MessageQCopy_unblock: the flag first, then the post.                    *)

\* Mutant: the flag is set and nothing is posted.
UnblockFlag(m, r) ==
  /\ At(m, "idle")
  /\ handle[r] # NULL
  /\ life[handle[r]] = "live"
  /\ ~unblocked[handle[r]]
  /\ unblocked' = [unblocked EXCEPT ![handle[r]] = TRUE]
  /\ UNCHANGED <<endpointVars, dataVars, sem, localVars, fault>>

Unblock(m, r) ==
  /\ At(m, "idle")
  /\ handle[r] # NULL
  /\ life[handle[r]] = "live"
  /\ ~unblocked[handle[r]]
  /\ unblocked' = [unblocked EXCEPT ![handle[r]] = TRUE]
  /\ obj' = [obj EXCEPT ![m] = handle[r]]
  /\ Goto(m, "signal")
  /\ UNCHANGED <<endpointVars, dataVars, sem, payload, msg, data, timed, fault>>

UnblockPost(m) ==
  /\ At(m, "signal")
  /\ sem' = [sem EXCEPT ![obj[m]] = @ + 1]
  /\ obj' = [obj EXCEPT ![m] = NULL]
  /\ Goto(m, "idle")
  /\ UNCHANGED <<endpointVars, dataVars, unblocked, payload, msg, data, timed, fault>>

-----------------------------------------------------------------------------
(* MessageQCopy_delete: only the slot is cleared under the gate.           *)

\* Nobody is inside recv or unblock on the object.  Once it is being deleted
\* its semaphore is no more and nobody looks at its flag again: the model
\* clears both.
HandleIdle(o) ==
  \A t \in Threads : obj[t] = o => pc[t] \in SendPcs

DeleteSemaphore(d, r) ==
  /\ Running
  /\ pc[d] \in {"idle", "shut"}
  /\ d = r \/ d \in Managers
  /\ handle[r] # NULL
  /\ life[handle[r]] = "live"
  /\ HandleIdle(handle[r])
  /\ life' = [life EXCEPT ![handle[r]] = "nosem"]
  /\ sem' = [sem EXCEPT ![handle[r]] = 0]
  /\ unblocked' = [unblocked EXCEPT ![handle[r]] = FALSE]
  /\ obj' = [obj EXCEPT ![d] = handle[r]]
  /\ Goto(d, "drain")
  /\ UNCHANGED <<msgqObjects, queueId, reader, handle, dataVars, payload, msg,
                 data, timed, fault>>

\* Mutant: the head of the list is looked at and not taken off.
DeleteDrainPeek(d) ==
  /\ At(d, "drain")
  /\ queue[obj[d]] # <<>>
  /\ payload' = [payload EXCEPT ![d] = Head(queue[obj[d]])]
  /\ Goto(d, "discard")
  /\ UNCHANGED <<endpointVars, dataVars, signalVars, obj, msg, data, timed, fault>>

DeleteDrain(d) ==
  /\ At(d, "drain")
  /\ queue[obj[d]] # <<>>
  /\ payload' = [payload EXCEPT ![d] = Head(queue[obj[d]])]
  /\ queue' = [queue EXCEPT ![obj[d]] = Tail(@)]
  /\ Goto(d, "discard")
  /\ UNCHANGED <<endpointVars, heap, content, signalVars, obj, msg, data, timed, fault>>

DeleteDiscard(d) ==
  /\ At(d, "discard")
  /\ heap' = heap \cup {payload[d]}
  /\ payload' = [payload EXCEPT ![d] = NULL]
  /\ Goto(d, "drain")
  /\ UNCHANGED <<endpointVars, content, queue, signalVars, obj, msg, data, timed, fault>>

\* Mutant: the list is deleted as it is.
DeleteUndrained(d) ==
  /\ At(d, "drain")
  /\ Goto(d, "dellist")
  /\ UNCHANGED <<endpointVars, dataVars, signalVars, obj, payload, msg, data, timed, fault>>

DeleteDrained(d) ==
  /\ At(d, "drain")
  /\ queue[obj[d]] = <<>>
  /\ Goto(d, "dellist")
  /\ UNCHANGED <<endpointVars, dataVars, signalVars, obj, payload, msg, data, timed, fault>>

DeleteList(d) ==
  /\ At(d, "dellist")
  /\ life' = [life EXCEPT ![obj[d]] = "nolist"]
  /\ Goto(d, "nullslot")
  /\ UNCHANGED <<msgqObjects, queueId, reader, handle, dataVars, signalVars,
                 obj, payload, msg, data, timed, fault>>

DeleteSlot(d) ==
  /\ At(d, "nullslot")
  /\ msgqObjects' = [msgqObjects EXCEPT ![queueId[obj[d]]] = NULL]
  /\ life' = [life EXCEPT ![obj[d]] = "noslot"]
  /\ Goto(d, "memfree")
  /\ UNCHANGED <<queueId, reader, handle, dataVars, signalVars, obj, payload,
                 msg, data, timed, fault>>

\* The object is freed and the owner's handle is cleared.
DeleteFree(d) ==
  /\ At(d, "memfree")
  /\ life' = [life EXCEPT ![obj[d]] = "freed"]
  /\ handle' = [handle EXCEPT ![reader[obj[d]]] = NULL]
  /\ obj' = [obj EXCEPT ![d] = NULL]
  /\ pc' = [t \in Threads |->
              IF t = d \/ (t = reader[obj[d]] /\ pc[t] = "shut")
              THEN "idle" ELSE pc[t]]
  /\ UNCHANGED <<msgqObjects, queueId, reader, dataVars, signalVars, payload,
                 msg, data, timed, fault>>

-----------------------------------------------------------------------------
SendStep(s) ==
  \/ SendAlloc(s) \/ SendNoMemory(s) \/ SendFill(s)
  \/ SendPut(s) \/ SendPutDeleted(s)
  \/ SendPost(s) \/ SendPostDeleted(s)

RecvStep(r) ==
  \/ RecvPend(r) \/ RecvTimeout(r) \/ RecvUnblocked(r) \/ RecvCheck(r)
  \/ RecvList(r) \/ RecvCopy(r) \/ RecvFree(r)

DeleteStep(d) ==
  \/ DeleteDrain(d) \/ DeleteDiscard(d) \/ DeleteDrained(d)
  \/ DeleteList(d) \/ DeleteSlot(d) \/ DeleteFree(d)

Next ==
  \/ \E s \in Senders : SendStep(s) \/ (\E m \in Message : SendLookup(s, m))
  \/ \E r \in Readers :
       \/ RecvStep(r)
       \/ \E reserved \in Endpoints \cup {AssignAny} : Create(r, reserved)
       \/ \E isTimed \in BOOLEAN : RecvBegin(r, isTimed)
       \/ \E d \in Managers \cup {r} : DeleteSemaphore(d, r)
       \/ \E m \in Managers : Unblock(m, r)
  \/ \E m \in Managers : UnblockPost(m)
  \/ \E d \in Readers \cup Managers : DeleteStep(d)

Spec == Init /\ [][Next]_vars

\* Every call that was begun runs on: the kernel's scheduler leaves no ready
\* thread behind for ever.  Nobody is obliged to begin a call.
Fairness ==
  /\ \A s \in Senders : WF_vars(SendStep(s))
  /\ \A r \in Readers : WF_vars(RecvStep(r))
  /\ \A m \in Managers : WF_vars(UnblockPost(m))
  /\ \A d \in Readers \cup Managers : WF_vars(DeleteStep(d))

FairSpec == Spec /\ Fairness

-----------------------------------------------------------------------------
(* Properties.                                                             *)

TypeOK ==
  /\ msgqObjects \in [Endpoints -> Objects \cup {NULL}]
  /\ heap \in SUBSET Blocks
  /\ content \in [Blocks -> Message \cup {NULL}]
  /\ life \in [Objects -> Lives]
  /\ queueId \in [Objects -> Endpoints \cup {NULL}]
  /\ reader \in [Objects -> Readers \cup {NULL}]
  /\ sem \in [Objects -> Nat]
  /\ queue \in [Objects -> Seq(Blocks)]
  /\ unblocked \in [Objects -> BOOLEAN]
  /\ handle \in [Readers -> Objects \cup {NULL}]
  /\ pc \in [Threads -> Pcs]
  /\ obj \in [Threads -> Objects \cup {NULL}]
  /\ payload \in [Threads -> Blocks \cup {NULL}]
  /\ msg \in [Threads -> Message \cup {NULL}]
  /\ data \in [Readers -> Message \cup {NULL}]
  /\ timed \in [Readers -> BOOLEAN]
  /\ fault \in {"none", "deleted", "aborted"}

\* A reader that got a token of the semaphore finds a message: the abort in
\* MessageQCopy_recv is unreachable, whatever is sent, unblocked, deleted or
\* created while the reader is between its pend and the list.
NoNullPayload == fault # "aborted"

\* Readers that hold a token not yet turned into a message, and senders whose
\* message is on the list but not yet announced.
Claimed(o) == {t \in Threads : pc[t] \in {"check", "get"} /\ obj[t] = o}
Unposted(o) == {t \in Threads : pc[t] = "post" /\ obj[t] = o}

\* Until an endpoint is unblocked, its semaphore and its list agree: every
\* message is announced once or about to be, so that none is stranded on the
\* list and none is announced that is not there.
TokensMatchMessages ==
  \A o \in Objects :
    life[o] = "live" /\ ~unblocked[o] =>
      sem[o] + Cardinality(Claimed(o)) + Cardinality(Unposted(o)) = Len(queue[o])

\* Where a block of the heap can be.
Free(b) == b \in heap
Listed(b, o) == \E i \in DOMAIN queue[o] : queue[o][i] = b
Held(b, t) == payload[t] = b
BlockKept(b) ==
  \/ Free(b)
  \/ \E o \in Objects : Listed(b, o)
  \/ \E t \in Threads : Held(b, t)

\* No block is in two places: not given out while on a list or in a thread's
\* hands, so that no message is overwritten before it was copied out.
NoBlockShared ==
  /\ \A b \in Blocks, t \in Threads : ~(Free(b) /\ Held(b, t))
  /\ \A b \in Blocks, o \in Objects : ~(Free(b) /\ Listed(b, o))
  /\ \A b \in Blocks, o \in Objects, t \in Threads : ~(Listed(b, o) /\ Held(b, t))
  /\ \A b \in Blocks, t, u \in Threads : Held(b, t) /\ Held(b, u) => t = u
  /\ \A b \in Blocks, o, p \in Objects : Listed(b, o) /\ Listed(b, p) => o = p
  /\ \A o \in Objects : \A i, j \in DOMAIN queue[o] : queue[o][i] = queue[o][j] => i = j

\* No block is lost: it is in the heap, in some thread's hands, or on a list
\* that somebody still empties.  The one way out is a sender that raced
\* MessageQCopy_delete and is about to post on a deleted semaphore.
NoBlockLost ==
  /\ \A b \in Blocks : BlockKept(b)
  /\ \A o \in Objects : queue[o] # <<>> /\ ~HasList(o) => Unposted(o) # {}

\* An endpoint number belongs to one object from its creation until delete
\* clears the slot, through every interleaving of creates and deletes: what is
\* sent to the number reaches that object and no other.
Slotted(o) == life[o] \in {"live", "nosem", "nolist"}

SlotsMatchObjects ==
  /\ \A o \in Objects : Slotted(o) => queueId[o] \in Endpoints /\ msgqObjects[queueId[o]] = o
  /\ \A e \in Endpoints : msgqObjects[e] # NULL =>
       Slotted(msgqObjects[e]) /\ queueId[msgqObjects[e]] = e

\* The client contract and the code keep threads and objects in step: whoever
\* is inside a call holds an object in the state that call needs, one thread
\* at most is deleting an object, and nobody but senders is left on it then.
HoldsPayload == {"fill", "put", "copy", "free", "discard"}
DeletePhase(l) ==
  CASE l \in {"drain", "discard", "dellist"} -> "nosem"
    [] l = "nullslot" -> "nolist"
    [] OTHER -> "noslot"

ThreadOK(t) ==
  /\ obj[t] = NULL <=> pc[t] \in {"idle", "shut"}
  /\ obj[t] # NULL => life[obj[t]] # "unused"
  /\ payload[t] # NULL <=> pc[t] \in HoldsPayload
  /\ pc[t] \in SendPcs => t \in Senders
  /\ pc[t] \in {"alloc", "fill"} => msg[t] \in Message /\ msg[t].dst = queueId[obj[t]]
  /\ pc[t] \in RecvPcs => t \in Readers /\ handle[t] = obj[t] /\ life[obj[t]] = "live"
  /\ pc[t] = "signal" => life[obj[t]] = "live" /\ unblocked[obj[t]]
  /\ pc[t] \in DeletePcs => life[obj[t]] = DeletePhase(pc[t])

OneDeleter ==
  \A t, u \in Threads :
    pc[t] \in DeletePcs /\ pc[u] \in DeletePcs /\ obj[t] = obj[u] => t = u

HandleOK(r) ==
  handle[r] # NULL => reader[handle[r]] = r /\ life[handle[r]] \notin {"unused", "freed"}

ObjectOK(o) ==
  /\ life[o] = "unused" =>
       /\ queueId[o] = NULL /\ reader[o] = NULL
       /\ sem[o] = 0 /\ queue[o] = <<>> /\ ~unblocked[o]
  /\ life[o] # "unused" => queueId[o] \in Endpoints /\ reader[o] \in Readers
  /\ life[o] \notin {"unused", "freed"} => handle[reader[o]] = o

ThreadsMatchObjects ==
  /\ \A t \in Threads : ThreadOK(t)
  /\ OneDeleter
  /\ \A r \in Readers : HandleOK(r)
  /\ \A o \in Objects : ObjectOK(o)

\* Endpoints behave as mailboxes: first in first out, nothing lost but by
\* delete, nothing delivered twice, altered or to the wrong endpoint.
Phase(o) ==
  CASE life[o] = "unused" -> "unborn"
    [] life[o] = "live" -> "open"
    [] life[o] \in {"nosem", "nolist"} -> "closing"
    [] OTHER -> "closed"

MB == INSTANCE Mailbox WITH
  Boxes <- Objects, Addresses <- Endpoints, NoValue <- NULL,
  address <- queueId,
  phase <- [o \in Objects |-> Phase(o)],
  box <- [o \in Objects |-> [i \in DOMAIN queue[o] |-> content[queue[o][i]]]],
  hand <- [r \in Readers |-> IF pc[r] = "copy" THEN content[payload[r]] ELSE data[r]]

RefinesMailbox == MB!Spec

\* What MessageQCopy_send says of its slot lookup, "Protect from
\* MessageQCopy_delete": the object a sender found is there while it is used.
ProtectedFromDelete == fault # "deleted"

\* A reader waiting on an endpoint where a message was queued gets to it.
WaitingReaderServed ==
  \A r \in Readers :
    (pc[r] = "pend" /\ queue[obj[r]] # <<>>) ~> (pc[r] # "pend" \/ ~Running)

\* MessageQCopy_unblock gets the reader out of MessageQCopy_recv, however the
\* two calls and concurrent sends interleave: a reader inside the call when
\* the flag is set, or entering it later, comes back out of it.
InRecv(r) == pc[r] \in RecvPcs

UnblockReleasesReader ==
  \A r \in Readers :
    (InRecv(r) /\ unblocked[obj[r]]) ~> (~InRecv(r) \/ ~Running)

\* A delete that has begun ends, although senders go on adding to the list that
\* it drains: the endpoint number is free again.
DeleteCompletes ==
  \A o \in Objects : life[o] = "nosem" ~> (life[o] = "freed" \/ ~Running)

\* What the calls owe to each other, together: no order of sends, unblocks and
\* deletes leaves a reader, or whoever deletes, waiting for ever.
NobodyLeftWaiting == WaitingReaderServed /\ UnblockReleasesReader /\ DeleteCompletes
=============================================================================
