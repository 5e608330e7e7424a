-------------------------- MODULE MessageQCopyProofs -------------------------
(***************************************************************************)
(* Proofs about MessageQCopy, for every number of threads, endpoints,      *)
(* objects, blocks and payloads.  The argument is layered: typing and the  *)
(* agreement of threads with objects and of slots with objects first; then *)
(* the heap; then the semaphores, each from the layers before it.          *)
(***************************************************************************)
EXTENDS MessageQCopy, FiniteSetTheorems, SequenceTheorems, TLAPS

Layer1 == TypeOK /\ ThreadsMatchObjects /\ SlotsMatchObjects

\* There are no endpoints at first.
LEMMA Layer1Init == Init => Layer1
  <1> SUFFICES ASSUME Init PROVE Layer1
    OBVIOUS
  <1>1. TypeOK
    BY NullAssumption DEF Init, TypeOK, Lives, Pcs
  <1>2. ThreadsMatchObjects
    BY DEF Init, ThreadsMatchObjects, ThreadOK, OneDeleter, HandleOK, ObjectOK,
           HoldsPayload, SendPcs, RecvPcs, DeletePcs
  <1>3. SlotsMatchObjects
    BY NullAssumption DEF Init, SlotsMatchObjects, Slotted
  <1> QED BY <1>1, <1>2, <1>3 DEF Layer1

\* What a thread inside a call holds.
LEMMA HoldTypes ==
  ASSUME Layer1, NEW t \in Threads
  PROVE  /\ pc[t] \notin {"idle", "shut"} => obj[t] \in Objects
         /\ pc[t] \in HoldsPayload => payload[t] \in Blocks
  BY DEF Layer1, TypeOK, ThreadsMatchObjects, ThreadOK

\* What a thread that deletes an object may rely on.
LEMMA DeleterFacts ==
  ASSUME Layer1, NEW d \in Threads, pc[d] \in DeletePcs
  PROVE  /\ obj[d] \in Objects
         /\ pc[d] \in {"drain", "discard", "dellist"} => life[obj[d]] = "nosem"
         /\ pc[d] = "nullslot" => life[obj[d]] = "nolist"
         /\ pc[d] = "memfree" => life[obj[d]] = "noslot"
         /\ queueId[obj[d]] \in Endpoints /\ reader[obj[d]] \in Readers
         /\ handle[reader[obj[d]]] = obj[d]
         /\ \A t \in Threads : pc[t] \in DeletePcs /\ obj[t] = obj[d] => t = d
  <1> USE DEF DeletePcs
  <1>1. obj[d] \in Objects /\ life[obj[d]] = DeletePhase(pc[d])
    BY HoldTypes DEF Layer1, ThreadsMatchObjects, ThreadOK
  <1>2. /\ pc[d] \in {"drain", "discard", "dellist"} => life[obj[d]] = "nosem"
        /\ pc[d] = "nullslot" => life[obj[d]] = "nolist"
        /\ pc[d] = "memfree" => life[obj[d]] = "noslot"
    BY <1>1 DEF DeletePhase
  <1>3. life[obj[d]] \notin {"unused", "freed"}
    BY <1>2
  <1>4. ObjectOK(obj[d]) /\ OneDeleter
    BY <1>1 DEF Layer1, ThreadsMatchObjects
  <1> QED BY <1>1, <1>2, <1>3, <1>4 DEF ObjectOK, OneDeleter

\* No step takes a variable out of its set.
LEMMA TypeStep == Layer1 /\ [Next]_vars => TypeOK'
  <1> SUFFICES ASSUME Layer1, [Next]_vars PROVE TypeOK'
    OBVIOUS
  <1> USE NullAssumption DEF TypeOK, Threads, Pcs, Lives, RecvPcs, SendPcs,
          DeletePcs, HoldsPayload, At, Goto,
          endpointVars, dataVars, signalVars, localVars
  <1>0. TypeOK
    BY DEF Layer1
  <1>1. ASSUME NEW s \in Senders, NEW m \in Message, SendLookup(s, m)
        PROVE TypeOK'
    BY <1>0, <1>1 DEF SendLookup, Message
  <1>2. ASSUME NEW s \in Senders, SendAlloc(s)
        PROVE TypeOK'
    BY <1>0, <1>2, HoldTypes DEF SendAlloc
  <1>3. ASSUME NEW s \in Senders, SendNoMemory(s)
        PROVE TypeOK'
    BY <1>0, <1>3, HoldTypes DEF SendNoMemory
  <1>4. ASSUME NEW s \in Senders, SendFill(s)
        PROVE TypeOK'
    BY <1>0, <1>4, HoldTypes DEF SendFill
  <1>5. ASSUME NEW s \in Senders, SendPut(s)
        PROVE TypeOK'
    <2>1. obj[s] \in Objects /\ payload[s] \in Blocks
      BY <1>0, <1>5, HoldTypes DEF SendPut
    <2>2. queue' \in [Objects -> Seq(Blocks)]
      BY <1>0, <1>5, <2>1 DEF SendPut
    <2> QED BY <1>0, <1>5, <2>2 DEF SendPut
  <1>6. ASSUME NEW s \in Senders, SendPutDeleted(s)
        PROVE TypeOK'
    BY <1>0, <1>6 DEF SendPutDeleted, UseDeleted
  <1>7. ASSUME NEW s \in Senders, SendPost(s)
        PROVE TypeOK'
    <2>1. obj[s] \in Objects
      BY <1>0, <1>7, HoldTypes DEF SendPost
    <2>2. sem' \in [Objects -> Nat]
      BY <1>0, <1>7, <2>1 DEF SendPost
    <2> QED BY <1>0, <1>7, <2>2 DEF SendPost
  <1>8. ASSUME NEW s \in Senders, SendPostDeleted(s)
        PROVE TypeOK'
    BY <1>0, <1>8 DEF SendPostDeleted, UseDeleted
  <1>9. ASSUME NEW r \in Readers, RecvPend(r)
        PROVE TypeOK'
    <2>1. obj[r] \in Objects
      BY <1>0, <1>9, HoldTypes DEF RecvPend
    <2>2. sem' \in [Objects -> Nat]
      BY <1>0, <1>9, <2>1 DEF RecvPend
    <2> QED BY <1>0, <1>9, <2>2 DEF RecvPend
  <1>10. ASSUME NEW r \in Readers, RecvTimeout(r)
        PROVE TypeOK'
    BY <1>0, <1>10, HoldTypes DEF RecvTimeout
  <1>11. ASSUME NEW r \in Readers, RecvUnblocked(r)
        PROVE TypeOK'
    BY <1>0, <1>11, HoldTypes DEF RecvUnblocked
  <1>12. ASSUME NEW r \in Readers, RecvCheck(r)
        PROVE TypeOK'
    BY <1>0, <1>12, HoldTypes DEF RecvCheck
  <1>13. ASSUME NEW r \in Readers, RecvGet(r)
        PROVE TypeOK'
    <2>1. obj[r] \in Objects /\ queue[obj[r]] \in Seq(Blocks) /\ queue[obj[r]] # <<>>
      BY <1>0, <1>13, HoldTypes DEF RecvGet
    <2>2. PICK b \in Blocks, q \in Seq(Blocks) : b = Head(queue[obj[r]]) /\ q = Tail(queue[obj[r]])
      BY <2>1, HeadTailProperties
    <2>3. /\ queue' = [queue EXCEPT ![obj[r]] = q] /\ payload' = [payload EXCEPT ![r] = b]
      BY <1>13, <2>2 DEF RecvGet
    <2>4. queue' \in [Objects -> Seq(Blocks)]
      BY <1>0, <2>2, <2>3
    <2> QED BY <1>0, <1>13, <2>2, <2>3, <2>4 DEF RecvGet
  <1>14. ASSUME NEW r \in Readers, RecvNullPayload(r)
        PROVE TypeOK'
    BY <1>0, <1>14 DEF RecvNullPayload
  <1>15. ASSUME NEW r \in Readers, RecvCopy(r)
        PROVE TypeOK'
    BY <1>0, <1>15, HoldTypes DEF RecvCopy
  <1>16. ASSUME NEW r \in Readers, RecvFree(r)
        PROVE TypeOK'
    BY <1>0, <1>16, HoldTypes DEF RecvFree
  <1>17. ASSUME NEW r \in Readers, NEW reserved \in Endpoints \cup {AssignAny}, Create(r, reserved)
        PROVE TypeOK'
    <2>1. PICK e \in Endpoints, o \in Objects :
            /\ life' = [life EXCEPT ![o] = "live"]
            /\ queueId' = [queueId EXCEPT ![o] = e]
            /\ reader' = [reader EXCEPT ![o] = r]
            /\ msgqObjects' = [msgqObjects EXCEPT ![e] = o]
            /\ handle' = [handle EXCEPT ![r] = o]
            /\ sem' = [sem EXCEPT ![o] = 0]
            /\ queue' = [queue EXCEPT ![o] = <<>>]
            /\ unblocked' = [unblocked EXCEPT ![o] = FALSE]
      BY <1>17 DEF Create, FreeSlots
    <2>2. queue' \in [Objects -> Seq(Blocks)] /\ sem' \in [Objects -> Nat]
      BY <1>0, <2>1
    <2> QED BY <1>0, <1>17, <2>1, <2>2 DEF Create
  <1>18. ASSUME NEW r \in Readers, NEW isTimed \in BOOLEAN, RecvBegin(r, isTimed)
        PROVE TypeOK'
    BY <1>0, <1>18 DEF RecvBegin
  <1>19. ASSUME NEW r \in Readers, NEW d \in Managers \cup {r}, DeleteSemaphore(d, r)
        PROVE TypeOK'
    BY <1>0, <1>19 DEF DeleteSemaphore
  <1>20. ASSUME NEW r \in Readers, NEW m \in Managers, Unblock(m, r)
        PROVE TypeOK'
    BY <1>0, <1>20 DEF Unblock
  <1>21. ASSUME NEW m \in Managers, UnblockPost(m)
        PROVE TypeOK'
    <2>1. obj[m] \in Objects
      BY <1>0, <1>21, HoldTypes DEF UnblockPost
    <2>2. sem' \in [Objects -> Nat]
      BY <1>0, <1>21, <2>1 DEF UnblockPost
    <2> QED BY <1>0, <1>21, <2>2 DEF UnblockPost
  <1>22. ASSUME NEW d \in Readers \cup Managers, DeleteDrain(d)
        PROVE TypeOK'
    <2>1. obj[d] \in Objects /\ queue[obj[d]] \in Seq(Blocks) /\ queue[obj[d]] # <<>>
      BY <1>0, <1>22, HoldTypes DEF DeleteDrain
    <2>2. PICK b \in Blocks, q \in Seq(Blocks) : b = Head(queue[obj[d]]) /\ q = Tail(queue[obj[d]])
      BY <2>1, HeadTailProperties
    <2>3. /\ queue' = [queue EXCEPT ![obj[d]] = q] /\ payload' = [payload EXCEPT ![d] = b]
      BY <1>22, <2>2 DEF DeleteDrain
    <2>4. queue' \in [Objects -> Seq(Blocks)]
      BY <1>0, <2>2, <2>3
    <2> QED BY <1>0, <1>22, <2>2, <2>3, <2>4 DEF DeleteDrain
  <1>23. ASSUME NEW d \in Readers \cup Managers, DeleteDiscard(d)
        PROVE TypeOK'
    BY <1>0, <1>23, HoldTypes DEF DeleteDiscard
  <1>24. ASSUME NEW d \in Readers \cup Managers, DeleteDrained(d)
        PROVE TypeOK'
    BY <1>0, <1>24, HoldTypes DEF DeleteDrained
  <1>25. ASSUME NEW d \in Readers \cup Managers, DeleteList(d)
        PROVE TypeOK'
    BY <1>0, <1>25, HoldTypes DEF DeleteList
  <1>26. ASSUME NEW d \in Readers \cup Managers, DeleteSlot(d)
        PROVE TypeOK'
    BY <1>0, <1>26, HoldTypes DEF DeleteSlot
  <1>27. ASSUME NEW d \in Readers \cup Managers, DeleteFree(d)
        PROVE TypeOK'
    BY <1>0, <1>27, HoldTypes DEF DeleteFree
  <1>28. CASE UNCHANGED vars
    BY <1>0, <1>28 DEF vars
  <1> QED
    BY <1>1, <1>2, <1>3, <1>4, <1>5, <1>6, <1>7, <1>8, <1>9, <1>10,
       <1>11, <1>12, <1>13, <1>14, <1>15, <1>16, <1>17, <1>18, <1>19, <1>20,
       <1>21, <1>22, <1>23, <1>24, <1>25, <1>26, <1>27, <1>28
    DEF Next, SendStep, RecvStep, RecvList, DeleteStep

\* No step leaves a thread with an object that is not in the state it counts on.
LEMMA ThreadStep == Layer1 /\ [Next]_vars => (\A t \in Threads : ThreadOK(t))'
  <1> SUFFICES ASSUME Layer1, [Next]_vars PROVE (\A t \in Threads : ThreadOK(t))'
    OBVIOUS
  <1> SUFFICES ASSUME NEW t \in Threads PROVE ThreadOK(t)'
    OBVIOUS
  <1> USE NullAssumption DEF TypeOK, Threads, Pcs, Lives, RecvPcs, SendPcs,
          DeletePcs, HoldsPayload, At, Goto,
          endpointVars, dataVars, signalVars, localVars
  <1>a. TypeOK /\ TypeOK' /\ (\A u \in Threads : ThreadOK(u))
         /\ (\A p \in Objects : ObjectOK(p)) /\ (\A r \in Readers : HandleOK(r))
         /\ OneDeleter /\ SlotsMatchObjects
    BY TypeStep DEF Layer1, ThreadsMatchObjects
  <1>1. ASSUME NEW s \in Senders, NEW m \in Message, SendLookup(s, m)
        PROVE ThreadOK(t)'
    <2>1. m.dst \in Endpoints
      BY DEF Message
    <2>2. /\ msgqObjects[m.dst] \in Objects
          /\ life[msgqObjects[m.dst]] # "unused" /\ queueId[msgqObjects[m.dst]] = m.dst
      BY <1>a, <1>1, <2>1 DEF SendLookup, SlotsMatchObjects, Slotted
    <2> QED BY <1>a, <1>1, <2>2 DEF SendLookup, ThreadOK
  <1>2. ASSUME NEW s \in Senders, SendAlloc(s)
        PROVE ThreadOK(t)'
    BY <1>a, <1>2 DEF SendAlloc, ThreadOK, DeletePhase
  <1>3. ASSUME NEW s \in Senders, SendNoMemory(s)
        PROVE ThreadOK(t)'
    BY <1>a, <1>3 DEF SendNoMemory, ThreadOK, DeletePhase
  <1>4. ASSUME NEW s \in Senders, SendFill(s)
        PROVE ThreadOK(t)'
    BY <1>a, <1>4 DEF SendFill, ThreadOK, DeletePhase
  <1>5. ASSUME NEW s \in Senders, SendPut(s)
        PROVE ThreadOK(t)'
    BY <1>a, <1>5 DEF SendPut, ThreadOK, DeletePhase
  <1>6. ASSUME NEW s \in Senders, SendPutDeleted(s)
        PROVE ThreadOK(t)'
    BY <1>a, <1>6 DEF SendPutDeleted, UseDeleted, ThreadOK, DeletePhase
  <1>7. ASSUME NEW s \in Senders, SendPost(s)
        PROVE ThreadOK(t)'
    BY <1>a, <1>7 DEF SendPost, ThreadOK, DeletePhase
  <1>8. ASSUME NEW s \in Senders, SendPostDeleted(s)
        PROVE ThreadOK(t)'
    BY <1>a, <1>8 DEF SendPostDeleted, UseDeleted, ThreadOK, DeletePhase
  <1>9. ASSUME NEW r \in Readers, RecvPend(r)
        PROVE ThreadOK(t)'
    BY <1>a, <1>9 DEF RecvPend, ThreadOK, DeletePhase
  <1>10. ASSUME NEW r \in Readers, RecvTimeout(r)
        PROVE ThreadOK(t)'
    BY <1>a, <1>10 DEF RecvTimeout, ThreadOK, DeletePhase
  <1>11. ASSUME NEW r \in Readers, RecvUnblocked(r)
        PROVE ThreadOK(t)'
    BY <1>a, <1>11 DEF RecvUnblocked, ThreadOK, DeletePhase
  <1>12. ASSUME NEW r \in Readers, RecvCheck(r)
        PROVE ThreadOK(t)'
    BY <1>a, <1>12 DEF RecvCheck, ThreadOK, DeletePhase
  <1>13. ASSUME NEW r \in Readers, RecvGet(r)
        PROVE ThreadOK(t)'
    BY <1>a, <1>13 DEF RecvGet, ThreadOK, DeletePhase
  <1>14. ASSUME NEW r \in Readers, RecvNullPayload(r)
        PROVE ThreadOK(t)'
    BY <1>a, <1>14 DEF RecvNullPayload, ThreadOK, DeletePhase
  <1>15. ASSUME NEW r \in Readers, RecvCopy(r)
        PROVE ThreadOK(t)'
    BY <1>a, <1>15 DEF RecvCopy, ThreadOK, DeletePhase
  <1>16. ASSUME NEW r \in Readers, RecvFree(r)
        PROVE ThreadOK(t)'
    BY <1>a, <1>16 DEF RecvFree, ThreadOK, DeletePhase
  <1>17. ASSUME NEW r \in Readers, NEW reserved \in Endpoints \cup {AssignAny}, Create(r, reserved)
        PROVE ThreadOK(t)'
    BY <1>a, <1>17 DEF Create, FreeSlots, ObjectOK, ThreadOK, DeletePhase
  <1>18. ASSUME NEW r \in Readers, NEW isTimed \in BOOLEAN, RecvBegin(r, isTimed)
        PROVE ThreadOK(t)'
    BY <1>a, <1>18 DEF RecvBegin, HandleOK, ThreadOK, DeletePhase
  <1>19. ASSUME NEW r \in Readers, NEW d \in Managers \cup {r}, DeleteSemaphore(d, r)
        PROVE ThreadOK(t)'
    BY <1>a, <1>19 DEF DeleteSemaphore, HandleIdle, HandleOK, ThreadOK, DeletePhase
  <1>20. ASSUME NEW r \in Readers, NEW m \in Managers, Unblock(m, r)
        PROVE ThreadOK(t)'
    BY <1>a, <1>20 DEF Unblock, HandleOK, ThreadOK, DeletePhase
  <1>21. ASSUME NEW m \in Managers, UnblockPost(m)
        PROVE ThreadOK(t)'
    BY <1>a, <1>21 DEF UnblockPost, ThreadOK, DeletePhase
  <1>22. ASSUME NEW d \in Readers \cup Managers, DeleteDrain(d)
        PROVE ThreadOK(t)'
    BY <1>a, <1>22 DEF DeleteDrain, ThreadOK, DeletePhase
  <1>23. ASSUME NEW d \in Readers \cup Managers, DeleteDiscard(d)
        PROVE ThreadOK(t)'
    BY <1>a, <1>23 DEF DeleteDiscard, ThreadOK, DeletePhase
  <1>24. ASSUME NEW d \in Readers \cup Managers, DeleteDrained(d)
        PROVE ThreadOK(t)'
    BY <1>a, <1>24 DEF DeleteDrained, ThreadOK, DeletePhase
  <1>25. ASSUME NEW d \in Readers \cup Managers, DeleteList(d)
        PROVE ThreadOK(t)'
    BY <1>a, <1>25 DEF DeleteList, OneDeleter, ThreadOK, DeletePhase
  <1>26. ASSUME NEW d \in Readers \cup Managers, DeleteSlot(d)
        PROVE ThreadOK(t)'
    BY <1>a, <1>26 DEF DeleteSlot, OneDeleter, ThreadOK, DeletePhase
  <1>27. ASSUME NEW d \in Readers \cup Managers, DeleteFree(d)
        PROVE ThreadOK(t)'
    <2>0. pc[d] = "memfree" /\ d \in Threads
      BY <1>27 DEF DeleteFree
    <2>1. /\ obj[d] \in Objects /\ life[obj[d]] = "noslot"
          /\ reader[obj[d]] \in Readers /\ handle[reader[obj[d]]] = obj[d]
          /\ \A u \in Threads : pc[u] \in DeletePcs /\ obj[u] = obj[d] => u = d
      BY <2>0, DeleterFacts
    <2>2. CASE t = d \/ (t = reader[obj[d]] /\ pc[t] = "shut")
      <3>1. pc[t] \in {"memfree", "shut"} /\ ThreadOK(t)
        BY <1>a, <2>0, <2>2
      <3>2. pc'[t] = "idle" /\ payload'[t] = NULL
        BY <1>a, <1>27, <2>2, <3>1 DEF DeleteFree, ThreadOK
      <3>3. obj'[t] = NULL
        BY <1>a, <1>27, <2>0, <2>2, <3>1 DEF DeleteFree, ThreadOK
      <3> QED BY <3>2, <3>3 DEF ThreadOK
    <2>3. CASE t # d /\ ~(t = reader[obj[d]] /\ pc[t] = "shut")
      <3>1. pc'[t] = pc[t] /\ obj'[t] = obj[t] /\ payload'[t] = payload[t]
        BY <1>a, <1>27, <2>3 DEF DeleteFree
      <3>2. pc[t] \in DeletePcs \cup RecvPcs \cup {"signal"} => obj[t] # obj[d]
        BY <1>a, <2>1, <2>3 DEF ThreadOK
      <3>3. pc[t] \in RecvPcs => handle'[t] = handle[t]
        BY <1>a, <1>27, <2>1, <3>2 DEF DeleteFree, ThreadOK
      <3> QED BY <1>a, <1>27, <2>1, <3>1, <3>2, <3>3 DEF DeleteFree, ThreadOK, DeletePhase
    <2> QED BY <2>2, <2>3
  <1>28. CASE UNCHANGED vars
    BY <1>a, <1>28 DEF vars, ThreadOK, DeletePhase
  <1> QED
    BY <1>1, <1>2, <1>3, <1>4, <1>5, <1>6, <1>7, <1>8, <1>9, <1>10,
       <1>11, <1>12, <1>13, <1>14, <1>15, <1>16, <1>17, <1>18, <1>19, <1>20,
       <1>21, <1>22, <1>23, <1>24, <1>25, <1>26, <1>27, <1>28
    DEF Next, SendStep, RecvStep, RecvList, DeleteStep

\* Nobody begins to delete an object that somebody deletes.
LEMMA OneDeleterStep == Layer1 /\ [Next]_vars => OneDeleter'
  <1> SUFFICES ASSUME Layer1, [Next]_vars PROVE OneDeleter'
    OBVIOUS
  <1> USE NullAssumption DEF TypeOK, Threads, Pcs, Lives, RecvPcs, SendPcs,
          DeletePcs, HoldsPayload, At, Goto,
          endpointVars, dataVars, signalVars, localVars
  <1>a. TypeOK /\ TypeOK' /\ (\A u \in Threads : ThreadOK(u))
         /\ (\A p \in Objects : ObjectOK(p)) /\ (\A r \in Readers : HandleOK(r))
         /\ OneDeleter /\ SlotsMatchObjects
    BY TypeStep DEF Layer1, ThreadsMatchObjects
  <1>1. ASSUME NEW s \in Senders, NEW m \in Message, SendLookup(s, m)
        PROVE OneDeleter'
    BY <1>a, <1>1 DEF SendLookup, OneDeleter, ThreadOK, DeletePhase
  <1>2. ASSUME NEW s \in Senders, SendAlloc(s)
        PROVE OneDeleter'
    BY <1>a, <1>2 DEF SendAlloc, OneDeleter, ThreadOK, DeletePhase
  <1>3. ASSUME NEW s \in Senders, SendNoMemory(s)
        PROVE OneDeleter'
    BY <1>a, <1>3 DEF SendNoMemory, OneDeleter, ThreadOK, DeletePhase
  <1>4. ASSUME NEW s \in Senders, SendFill(s)
        PROVE OneDeleter'
    BY <1>a, <1>4 DEF SendFill, OneDeleter, ThreadOK, DeletePhase
  <1>5. ASSUME NEW s \in Senders, SendPut(s)
        PROVE OneDeleter'
    BY <1>a, <1>5 DEF SendPut, OneDeleter, ThreadOK, DeletePhase
  <1>6. ASSUME NEW s \in Senders, SendPutDeleted(s)
        PROVE OneDeleter'
    BY <1>a, <1>6 DEF SendPutDeleted, UseDeleted, OneDeleter, ThreadOK, DeletePhase
  <1>7. ASSUME NEW s \in Senders, SendPost(s)
        PROVE OneDeleter'
    BY <1>a, <1>7 DEF SendPost, OneDeleter, ThreadOK, DeletePhase
  <1>8. ASSUME NEW s \in Senders, SendPostDeleted(s)
        PROVE OneDeleter'
    BY <1>a, <1>8 DEF SendPostDeleted, UseDeleted, OneDeleter, ThreadOK, DeletePhase
  <1>9. ASSUME NEW r \in Readers, RecvPend(r)
        PROVE OneDeleter'
    BY <1>a, <1>9 DEF RecvPend, OneDeleter, ThreadOK, DeletePhase
  <1>10. ASSUME NEW r \in Readers, RecvTimeout(r)
        PROVE OneDeleter'
    BY <1>a, <1>10 DEF RecvTimeout, OneDeleter, ThreadOK, DeletePhase
  <1>11. ASSUME NEW r \in Readers, RecvUnblocked(r)
        PROVE OneDeleter'
    BY <1>a, <1>11 DEF RecvUnblocked, OneDeleter, ThreadOK, DeletePhase
  <1>12. ASSUME NEW r \in Readers, RecvCheck(r)
        PROVE OneDeleter'
    BY <1>a, <1>12 DEF RecvCheck, OneDeleter, ThreadOK, DeletePhase
  <1>13. ASSUME NEW r \in Readers, RecvGet(r)
        PROVE OneDeleter'
    BY <1>a, <1>13 DEF RecvGet, OneDeleter, ThreadOK, DeletePhase
  <1>14. ASSUME NEW r \in Readers, RecvNullPayload(r)
        PROVE OneDeleter'
    BY <1>a, <1>14 DEF RecvNullPayload, OneDeleter, ThreadOK, DeletePhase
  <1>15. ASSUME NEW r \in Readers, RecvCopy(r)
        PROVE OneDeleter'
    BY <1>a, <1>15 DEF RecvCopy, OneDeleter, ThreadOK, DeletePhase
  <1>16. ASSUME NEW r \in Readers, RecvFree(r)
        PROVE OneDeleter'
    BY <1>a, <1>16 DEF RecvFree, OneDeleter, ThreadOK, DeletePhase
  <1>17. ASSUME NEW r \in Readers, NEW reserved \in Endpoints \cup {AssignAny}, Create(r, reserved)
        PROVE OneDeleter'
    BY <1>a, <1>17 DEF Create, FreeSlots, OneDeleter, ThreadOK, DeletePhase
  <1>18. ASSUME NEW r \in Readers, NEW isTimed \in BOOLEAN, RecvBegin(r, isTimed)
        PROVE OneDeleter'
    BY <1>a, <1>18 DEF RecvBegin, OneDeleter, ThreadOK, DeletePhase
  <1>19. ASSUME NEW r \in Readers, NEW d \in Managers \cup {r}, DeleteSemaphore(d, r)
        PROVE OneDeleter'
    BY <1>a, <1>19 DEF DeleteSemaphore, HandleIdle, HandleOK, OneDeleter, ThreadOK, DeletePhase
  <1>20. ASSUME NEW r \in Readers, NEW m \in Managers, Unblock(m, r)
        PROVE OneDeleter'
    BY <1>a, <1>20 DEF Unblock, OneDeleter, ThreadOK, DeletePhase
  <1>21. ASSUME NEW m \in Managers, UnblockPost(m)
        PROVE OneDeleter'
    BY <1>a, <1>21 DEF UnblockPost, OneDeleter, ThreadOK, DeletePhase
  <1>22. ASSUME NEW d \in Readers \cup Managers, DeleteDrain(d)
        PROVE OneDeleter'
    BY <1>a, <1>22 DEF DeleteDrain, OneDeleter, ThreadOK, DeletePhase
  <1>23. ASSUME NEW d \in Readers \cup Managers, DeleteDiscard(d)
        PROVE OneDeleter'
    BY <1>a, <1>23 DEF DeleteDiscard, OneDeleter, ThreadOK, DeletePhase
  <1>24. ASSUME NEW d \in Readers \cup Managers, DeleteDrained(d)
        PROVE OneDeleter'
    BY <1>a, <1>24 DEF DeleteDrained, OneDeleter, ThreadOK, DeletePhase
  <1>25. ASSUME NEW d \in Readers \cup Managers, DeleteList(d)
        PROVE OneDeleter'
    BY <1>a, <1>25 DEF DeleteList, OneDeleter, ThreadOK, DeletePhase
  <1>26. ASSUME NEW d \in Readers \cup Managers, DeleteSlot(d)
        PROVE OneDeleter'
    BY <1>a, <1>26 DEF DeleteSlot, OneDeleter, ThreadOK, DeletePhase
  <1>27. ASSUME NEW d \in Readers \cup Managers, DeleteFree(d)
        PROVE OneDeleter'
    BY <1>a, <1>27 DEF DeleteFree, OneDeleter, ThreadOK, DeletePhase
  <1>28. CASE UNCHANGED vars
    BY <1>a, <1>28 DEF vars, OneDeleter, ThreadOK, DeletePhase
  <1> QED
    BY <1>1, <1>2, <1>3, <1>4, <1>5, <1>6, <1>7, <1>8, <1>9, <1>10,
       <1>11, <1>12, <1>13, <1>14, <1>15, <1>16, <1>17, <1>18, <1>19, <1>20,
       <1>21, <1>22, <1>23, <1>24, <1>25, <1>26, <1>27, <1>28
    DEF Next, SendStep, RecvStep, RecvList, DeleteStep

\* A reader has a handle to its own object, until it is deleted.
LEMMA HandleStep == Layer1 /\ [Next]_vars => (\A q \in Readers : HandleOK(q))'
  <1> SUFFICES ASSUME Layer1, [Next]_vars PROVE (\A q \in Readers : HandleOK(q))'
    OBVIOUS
  <1> SUFFICES ASSUME NEW q \in Readers PROVE HandleOK(q)'
    OBVIOUS
  <1> USE NullAssumption DEF TypeOK, Threads, Pcs, Lives, RecvPcs, SendPcs,
          DeletePcs, HoldsPayload, At, Goto,
          endpointVars, dataVars, signalVars, localVars
  <1>a. TypeOK /\ TypeOK' /\ (\A u \in Threads : ThreadOK(u))
         /\ (\A p \in Objects : ObjectOK(p)) /\ (\A r \in Readers : HandleOK(r))
         /\ OneDeleter /\ SlotsMatchObjects
    BY TypeStep DEF Layer1, ThreadsMatchObjects
  <1>1. ASSUME NEW s \in Senders, NEW m \in Message, SendLookup(s, m)
        PROVE HandleOK(q)'
    BY <1>a, <1>1 DEF SendLookup, HandleOK, ThreadOK, DeletePhase
  <1>2. ASSUME NEW s \in Senders, SendAlloc(s)
        PROVE HandleOK(q)'
    BY <1>a, <1>2 DEF SendAlloc, HandleOK, ThreadOK, DeletePhase
  <1>3. ASSUME NEW s \in Senders, SendNoMemory(s)
        PROVE HandleOK(q)'
    BY <1>a, <1>3 DEF SendNoMemory, HandleOK, ThreadOK, DeletePhase
  <1>4. ASSUME NEW s \in Senders, SendFill(s)
        PROVE HandleOK(q)'
    BY <1>a, <1>4 DEF SendFill, HandleOK, ThreadOK, DeletePhase
  <1>5. ASSUME NEW s \in Senders, SendPut(s)
        PROVE HandleOK(q)'
    BY <1>a, <1>5 DEF SendPut, HandleOK, ThreadOK, DeletePhase
  <1>6. ASSUME NEW s \in Senders, SendPutDeleted(s)
        PROVE HandleOK(q)'
    BY <1>a, <1>6 DEF SendPutDeleted, UseDeleted, HandleOK, ThreadOK, DeletePhase
  <1>7. ASSUME NEW s \in Senders, SendPost(s)
        PROVE HandleOK(q)'
    BY <1>a, <1>7 DEF SendPost, HandleOK, ThreadOK, DeletePhase
  <1>8. ASSUME NEW s \in Senders, SendPostDeleted(s)
        PROVE HandleOK(q)'
    BY <1>a, <1>8 DEF SendPostDeleted, UseDeleted, HandleOK, ThreadOK, DeletePhase
  <1>9. ASSUME NEW r \in Readers, RecvPend(r)
        PROVE HandleOK(q)'
    BY <1>a, <1>9 DEF RecvPend, HandleOK, ThreadOK, DeletePhase
  <1>10. ASSUME NEW r \in Readers, RecvTimeout(r)
        PROVE HandleOK(q)'
    BY <1>a, <1>10 DEF RecvTimeout, HandleOK, ThreadOK, DeletePhase
  <1>11. ASSUME NEW r \in Readers, RecvUnblocked(r)
        PROVE HandleOK(q)'
    BY <1>a, <1>11 DEF RecvUnblocked, HandleOK, ThreadOK, DeletePhase
  <1>12. ASSUME NEW r \in Readers, RecvCheck(r)
        PROVE HandleOK(q)'
    BY <1>a, <1>12 DEF RecvCheck, HandleOK, ThreadOK, DeletePhase
  <1>13. ASSUME NEW r \in Readers, RecvGet(r)
        PROVE HandleOK(q)'
    BY <1>a, <1>13 DEF RecvGet, HandleOK, ThreadOK, DeletePhase
  <1>14. ASSUME NEW r \in Readers, RecvNullPayload(r)
        PROVE HandleOK(q)'
    BY <1>a, <1>14 DEF RecvNullPayload, HandleOK, ThreadOK, DeletePhase
  <1>15. ASSUME NEW r \in Readers, RecvCopy(r)
        PROVE HandleOK(q)'
    BY <1>a, <1>15 DEF RecvCopy, HandleOK, ThreadOK, DeletePhase
  <1>16. ASSUME NEW r \in Readers, RecvFree(r)
        PROVE HandleOK(q)'
    BY <1>a, <1>16 DEF RecvFree, HandleOK, ThreadOK, DeletePhase
  <1>17. ASSUME NEW r \in Readers, NEW reserved \in Endpoints \cup {AssignAny}, Create(r, reserved)
        PROVE HandleOK(q)'
    BY <1>a, <1>17 DEF Create, FreeSlots, ObjectOK, HandleOK, ThreadOK, DeletePhase
  <1>18. ASSUME NEW r \in Readers, NEW isTimed \in BOOLEAN, RecvBegin(r, isTimed)
        PROVE HandleOK(q)'
    BY <1>a, <1>18 DEF RecvBegin, HandleOK, ThreadOK, DeletePhase
  <1>19. ASSUME NEW r \in Readers, NEW d \in Managers \cup {r}, DeleteSemaphore(d, r)
        PROVE HandleOK(q)'
    BY <1>a, <1>19 DEF DeleteSemaphore, HandleIdle, HandleOK, ThreadOK, DeletePhase
  <1>20. ASSUME NEW r \in Readers, NEW m \in Managers, Unblock(m, r)
        PROVE HandleOK(q)'
    BY <1>a, <1>20 DEF Unblock, HandleOK, ThreadOK, DeletePhase
  <1>21. ASSUME NEW m \in Managers, UnblockPost(m)
        PROVE HandleOK(q)'
    BY <1>a, <1>21 DEF UnblockPost, HandleOK, ThreadOK, DeletePhase
  <1>22. ASSUME NEW d \in Readers \cup Managers, DeleteDrain(d)
        PROVE HandleOK(q)'
    BY <1>a, <1>22 DEF DeleteDrain, HandleOK, ThreadOK, DeletePhase
  <1>23. ASSUME NEW d \in Readers \cup Managers, DeleteDiscard(d)
        PROVE HandleOK(q)'
    BY <1>a, <1>23 DEF DeleteDiscard, HandleOK, ThreadOK, DeletePhase
  <1>24. ASSUME NEW d \in Readers \cup Managers, DeleteDrained(d)
        PROVE HandleOK(q)'
    BY <1>a, <1>24 DEF DeleteDrained, HandleOK, ThreadOK, DeletePhase
  <1>25. ASSUME NEW d \in Readers \cup Managers, DeleteList(d)
        PROVE HandleOK(q)'
    BY <1>a, <1>25 DEF DeleteList, HandleOK, ThreadOK, DeletePhase
  <1>26. ASSUME NEW d \in Readers \cup Managers, DeleteSlot(d)
        PROVE HandleOK(q)'
    BY <1>a, <1>26 DEF DeleteSlot, HandleOK, ThreadOK, DeletePhase
  <1>27. ASSUME NEW d \in Readers \cup Managers, DeleteFree(d)
        PROVE HandleOK(q)'
    BY <1>a, <1>27 DEF DeleteFree, HandleOK, ThreadOK, DeletePhase
  <1>28. CASE UNCHANGED vars
    BY <1>a, <1>28 DEF vars, HandleOK, ThreadOK, DeletePhase
  <1> QED
    BY <1>1, <1>2, <1>3, <1>4, <1>5, <1>6, <1>7, <1>8, <1>9, <1>10,
       <1>11, <1>12, <1>13, <1>14, <1>15, <1>16, <1>17, <1>18, <1>19, <1>20,
       <1>21, <1>22, <1>23, <1>24, <1>25, <1>26, <1>27, <1>28
    DEF Next, SendStep, RecvStep, RecvList, DeleteStep

\* The parts of an object agree with how much of it exists.
LEMMA ObjectStep == Layer1 /\ [Next]_vars => (\A o \in Objects : ObjectOK(o))'
  <1> SUFFICES ASSUME Layer1, [Next]_vars PROVE (\A o \in Objects : ObjectOK(o))'
    OBVIOUS
  <1> SUFFICES ASSUME NEW o \in Objects PROVE ObjectOK(o)'
    OBVIOUS
  <1> USE NullAssumption DEF TypeOK, Threads, Pcs, Lives, RecvPcs, SendPcs,
          DeletePcs, HoldsPayload, At, Goto,
          endpointVars, dataVars, signalVars, localVars
  <1>a. TypeOK /\ TypeOK' /\ (\A u \in Threads : ThreadOK(u))
         /\ (\A p \in Objects : ObjectOK(p)) /\ (\A r \in Readers : HandleOK(r))
         /\ OneDeleter /\ SlotsMatchObjects
    BY TypeStep DEF Layer1, ThreadsMatchObjects
  <1>1. ASSUME NEW s \in Senders, NEW m \in Message, SendLookup(s, m)
        PROVE ObjectOK(o)'
    BY <1>a, <1>1 DEF SendLookup, ObjectOK, ThreadOK, DeletePhase
  <1>2. ASSUME NEW s \in Senders, SendAlloc(s)
        PROVE ObjectOK(o)'
    BY <1>a, <1>2 DEF SendAlloc, ObjectOK, ThreadOK, DeletePhase
  <1>3. ASSUME NEW s \in Senders, SendNoMemory(s)
        PROVE ObjectOK(o)'
    BY <1>a, <1>3 DEF SendNoMemory, ObjectOK, ThreadOK, DeletePhase
  <1>4. ASSUME NEW s \in Senders, SendFill(s)
        PROVE ObjectOK(o)'
    BY <1>a, <1>4 DEF SendFill, ObjectOK, ThreadOK, DeletePhase
  <1>5. ASSUME NEW s \in Senders, SendPut(s)
        PROVE ObjectOK(o)'
    <2>1. obj[s] \in Objects /\ life[obj[s]] # "unused"
      BY <1>5, HoldTypes DEF SendPut, HasList
    <2>2. queue'[o] = queue[o] \/ life[o] # "unused"
      BY <1>a, <1>5, <2>1 DEF SendPut
    <2> QED BY <1>a, <1>5, <2>2 DEF SendPut, ObjectOK
  <1>6. ASSUME NEW s \in Senders, SendPutDeleted(s)
        PROVE ObjectOK(o)'
    BY <1>a, <1>6 DEF SendPutDeleted, UseDeleted, ObjectOK, ThreadOK, DeletePhase
  <1>7. ASSUME NEW s \in Senders, SendPost(s)
        PROVE ObjectOK(o)'
    <2>1. obj[s] \in Objects /\ life[obj[s]] # "unused"
      BY <1>7, HoldTypes DEF SendPost, HasSemaphore
    <2>2. sem'[o] = sem[o] \/ life[o] # "unused"
      BY <1>a, <1>7, <2>1 DEF SendPost
    <2> QED BY <1>a, <1>7, <2>2 DEF SendPost, ObjectOK
  <1>8. ASSUME NEW s \in Senders, SendPostDeleted(s)
        PROVE ObjectOK(o)'
    BY <1>a, <1>8 DEF SendPostDeleted, UseDeleted, ObjectOK, ThreadOK, DeletePhase
  <1>9. ASSUME NEW r \in Readers, RecvPend(r)
        PROVE ObjectOK(o)'
    BY <1>a, <1>9 DEF RecvPend, ObjectOK, ThreadOK, DeletePhase
  <1>10. ASSUME NEW r \in Readers, RecvTimeout(r)
        PROVE ObjectOK(o)'
    BY <1>a, <1>10 DEF RecvTimeout, ObjectOK, ThreadOK, DeletePhase
  <1>11. ASSUME NEW r \in Readers, RecvUnblocked(r)
        PROVE ObjectOK(o)'
    BY <1>a, <1>11 DEF RecvUnblocked, ObjectOK, ThreadOK, DeletePhase
  <1>12. ASSUME NEW r \in Readers, RecvCheck(r)
        PROVE ObjectOK(o)'
    BY <1>a, <1>12 DEF RecvCheck, ObjectOK, ThreadOK, DeletePhase
  <1>13. ASSUME NEW r \in Readers, RecvGet(r)
        PROVE ObjectOK(o)'
    BY <1>a, <1>13 DEF RecvGet, ObjectOK, ThreadOK, DeletePhase
  <1>14. ASSUME NEW r \in Readers, RecvNullPayload(r)
        PROVE ObjectOK(o)'
    BY <1>a, <1>14 DEF RecvNullPayload, ObjectOK, ThreadOK, DeletePhase
  <1>15. ASSUME NEW r \in Readers, RecvCopy(r)
        PROVE ObjectOK(o)'
    BY <1>a, <1>15 DEF RecvCopy, ObjectOK, ThreadOK, DeletePhase
  <1>16. ASSUME NEW r \in Readers, RecvFree(r)
        PROVE ObjectOK(o)'
    BY <1>a, <1>16 DEF RecvFree, ObjectOK, ThreadOK, DeletePhase
  <1>17. ASSUME NEW r \in Readers, NEW reserved \in Endpoints \cup {AssignAny}, Create(r, reserved)
        PROVE ObjectOK(o)'
    BY <1>a, <1>17 DEF Create, FreeSlots, ObjectOK, ThreadOK, DeletePhase
  <1>18. ASSUME NEW r \in Readers, NEW isTimed \in BOOLEAN, RecvBegin(r, isTimed)
        PROVE ObjectOK(o)'
    BY <1>a, <1>18 DEF RecvBegin, ObjectOK, ThreadOK, DeletePhase
  <1>19. ASSUME NEW r \in Readers, NEW d \in Managers \cup {r}, DeleteSemaphore(d, r)
        PROVE ObjectOK(o)'
    BY <1>a, <1>19 DEF DeleteSemaphore, HandleIdle, HandleOK, ObjectOK, ThreadOK, DeletePhase
  <1>20. ASSUME NEW r \in Readers, NEW m \in Managers, Unblock(m, r)
        PROVE ObjectOK(o)'
    BY <1>a, <1>20 DEF Unblock, HandleOK, ObjectOK, ThreadOK, DeletePhase
  <1>21. ASSUME NEW m \in Managers, UnblockPost(m)
        PROVE ObjectOK(o)'
    BY <1>a, <1>21 DEF UnblockPost, ObjectOK, ThreadOK, DeletePhase
  <1>22. ASSUME NEW d \in Readers \cup Managers, DeleteDrain(d)
        PROVE ObjectOK(o)'
    BY <1>a, <1>22 DEF DeleteDrain, ObjectOK, ThreadOK, DeletePhase
  <1>23. ASSUME NEW d \in Readers \cup Managers, DeleteDiscard(d)
        PROVE ObjectOK(o)'
    BY <1>a, <1>23 DEF DeleteDiscard, ObjectOK, ThreadOK, DeletePhase
  <1>24. ASSUME NEW d \in Readers \cup Managers, DeleteDrained(d)
        PROVE ObjectOK(o)'
    BY <1>a, <1>24 DEF DeleteDrained, ObjectOK, ThreadOK, DeletePhase
  <1>25. ASSUME NEW d \in Readers \cup Managers, DeleteList(d)
        PROVE ObjectOK(o)'
    <2>1. obj[d] \in Objects /\ life[obj[d]] = "nosem"
      BY <1>25, DeleterFacts DEF DeleteList
    <2> QED BY <1>a, <1>25, <2>1 DEF DeleteList, ObjectOK
  <1>26. ASSUME NEW d \in Readers \cup Managers, DeleteSlot(d)
        PROVE ObjectOK(o)'
    BY <1>a, <1>26 DEF DeleteSlot, ObjectOK, ThreadOK, DeletePhase
  <1>27. ASSUME NEW d \in Readers \cup Managers, DeleteFree(d)
        PROVE ObjectOK(o)'
    <2>1. obj[d] \in Objects /\ life[obj[d]] = "noslot" /\ handle[reader[obj[d]]] = obj[d]
      BY <1>27, DeleterFacts DEF DeleteFree
    <2>2. o # obj[d] => life'[o] = life[o]
      BY <1>a, <1>27 DEF DeleteFree
    <2>3. o = obj[d] => life'[o] = "freed"
      BY <1>a, <1>27 DEF DeleteFree
    <2>4. o # obj[d] /\ life[o] \notin {"unused", "freed"} => handle'[reader[o]] = o
      BY <1>a, <1>27, <2>1 DEF DeleteFree, ObjectOK
    <2> QED BY <1>a, <1>27, <2>1, <2>2, <2>3, <2>4 DEF DeleteFree, ObjectOK
  <1>28. CASE UNCHANGED vars
    BY <1>a, <1>28 DEF vars, ObjectOK, ThreadOK, DeletePhase
  <1> QED
    BY <1>1, <1>2, <1>3, <1>4, <1>5, <1>6, <1>7, <1>8, <1>9, <1>10,
       <1>11, <1>12, <1>13, <1>14, <1>15, <1>16, <1>17, <1>18, <1>19, <1>20,
       <1>21, <1>22, <1>23, <1>24, <1>25, <1>26, <1>27, <1>28
    DEF Next, SendStep, RecvStep, RecvList, DeleteStep

\* A slot is given to an object and taken back by its deleter only.
LEMMA SlotsStep == Layer1 /\ [Next]_vars => SlotsMatchObjects'
  <1> SUFFICES ASSUME Layer1, [Next]_vars PROVE SlotsMatchObjects'
    OBVIOUS
  <1> USE NullAssumption DEF TypeOK, Threads, Pcs, Lives, RecvPcs, SendPcs,
          DeletePcs, HoldsPayload, At, Goto,
          endpointVars, dataVars, signalVars, localVars
  <1>a. TypeOK /\ TypeOK' /\ (\A u \in Threads : ThreadOK(u))
         /\ (\A p \in Objects : ObjectOK(p)) /\ (\A r \in Readers : HandleOK(r))
         /\ OneDeleter /\ SlotsMatchObjects
    BY TypeStep DEF Layer1, ThreadsMatchObjects
  <1>1. ASSUME NEW s \in Senders, NEW m \in Message, SendLookup(s, m)
        PROVE SlotsMatchObjects'
    BY <1>a, <1>1 DEF SendLookup, SlotsMatchObjects, Slotted
  <1>2. ASSUME NEW s \in Senders, SendAlloc(s)
        PROVE SlotsMatchObjects'
    BY <1>a, <1>2 DEF SendAlloc, SlotsMatchObjects, Slotted
  <1>3. ASSUME NEW s \in Senders, SendNoMemory(s)
        PROVE SlotsMatchObjects'
    BY <1>a, <1>3 DEF SendNoMemory, SlotsMatchObjects, Slotted
  <1>4. ASSUME NEW s \in Senders, SendFill(s)
        PROVE SlotsMatchObjects'
    BY <1>a, <1>4 DEF SendFill, SlotsMatchObjects, Slotted
  <1>5. ASSUME NEW s \in Senders, SendPut(s)
        PROVE SlotsMatchObjects'
    BY <1>a, <1>5 DEF SendPut, SlotsMatchObjects, Slotted
  <1>6. ASSUME NEW s \in Senders, SendPutDeleted(s)
        PROVE SlotsMatchObjects'
    BY <1>a, <1>6 DEF SendPutDeleted, UseDeleted, SlotsMatchObjects, Slotted
  <1>7. ASSUME NEW s \in Senders, SendPost(s)
        PROVE SlotsMatchObjects'
    BY <1>a, <1>7 DEF SendPost, SlotsMatchObjects, Slotted
  <1>8. ASSUME NEW s \in Senders, SendPostDeleted(s)
        PROVE SlotsMatchObjects'
    BY <1>a, <1>8 DEF SendPostDeleted, UseDeleted, SlotsMatchObjects, Slotted
  <1>9. ASSUME NEW r \in Readers, RecvPend(r)
        PROVE SlotsMatchObjects'
    BY <1>a, <1>9 DEF RecvPend, SlotsMatchObjects, Slotted
  <1>10. ASSUME NEW r \in Readers, RecvTimeout(r)
        PROVE SlotsMatchObjects'
    BY <1>a, <1>10 DEF RecvTimeout, SlotsMatchObjects, Slotted
  <1>11. ASSUME NEW r \in Readers, RecvUnblocked(r)
        PROVE SlotsMatchObjects'
    BY <1>a, <1>11 DEF RecvUnblocked, SlotsMatchObjects, Slotted
  <1>12. ASSUME NEW r \in Readers, RecvCheck(r)
        PROVE SlotsMatchObjects'
    BY <1>a, <1>12 DEF RecvCheck, SlotsMatchObjects, Slotted
  <1>13. ASSUME NEW r \in Readers, RecvGet(r)
        PROVE SlotsMatchObjects'
    BY <1>a, <1>13 DEF RecvGet, SlotsMatchObjects, Slotted
  <1>14. ASSUME NEW r \in Readers, RecvNullPayload(r)
        PROVE SlotsMatchObjects'
    BY <1>a, <1>14 DEF RecvNullPayload, SlotsMatchObjects, Slotted
  <1>15. ASSUME NEW r \in Readers, RecvCopy(r)
        PROVE SlotsMatchObjects'
    BY <1>a, <1>15 DEF RecvCopy, SlotsMatchObjects, Slotted
  <1>16. ASSUME NEW r \in Readers, RecvFree(r)
        PROVE SlotsMatchObjects'
    BY <1>a, <1>16 DEF RecvFree, SlotsMatchObjects, Slotted
  <1>17. ASSUME NEW r \in Readers, NEW reserved \in Endpoints \cup {AssignAny}, Create(r, reserved)
        PROVE SlotsMatchObjects'
    BY <1>a, <1>17 DEF Create, FreeSlots, ObjectOK, SlotsMatchObjects, Slotted
  <1>18. ASSUME NEW r \in Readers, NEW isTimed \in BOOLEAN, RecvBegin(r, isTimed)
        PROVE SlotsMatchObjects'
    BY <1>a, <1>18 DEF RecvBegin, SlotsMatchObjects, Slotted
  <1>19. ASSUME NEW r \in Readers, NEW d \in Managers \cup {r}, DeleteSemaphore(d, r)
        PROVE SlotsMatchObjects'
    BY <1>a, <1>19 DEF DeleteSemaphore, HandleIdle, SlotsMatchObjects, Slotted
  <1>20. ASSUME NEW r \in Readers, NEW m \in Managers, Unblock(m, r)
        PROVE SlotsMatchObjects'
    BY <1>a, <1>20 DEF Unblock, SlotsMatchObjects, Slotted
  <1>21. ASSUME NEW m \in Managers, UnblockPost(m)
        PROVE SlotsMatchObjects'
    BY <1>a, <1>21 DEF UnblockPost, SlotsMatchObjects, Slotted
  <1>22. ASSUME NEW d \in Readers \cup Managers, DeleteDrain(d)
        PROVE SlotsMatchObjects'
    BY <1>a, <1>22 DEF DeleteDrain, SlotsMatchObjects, Slotted
  <1>23. ASSUME NEW d \in Readers \cup Managers, DeleteDiscard(d)
        PROVE SlotsMatchObjects'
    BY <1>a, <1>23 DEF DeleteDiscard, SlotsMatchObjects, Slotted
  <1>24. ASSUME NEW d \in Readers \cup Managers, DeleteDrained(d)
        PROVE SlotsMatchObjects'
    BY <1>a, <1>24 DEF DeleteDrained, SlotsMatchObjects, Slotted
  <1>25. ASSUME NEW d \in Readers \cup Managers, DeleteList(d)
        PROVE SlotsMatchObjects'
    BY <1>a, <1>25 DEF DeleteList, ThreadOK, DeletePhase, SlotsMatchObjects, Slotted
  <1>26. ASSUME NEW d \in Readers \cup Managers, DeleteSlot(d)
        PROVE SlotsMatchObjects'
    BY <1>a, <1>26 DEF DeleteSlot, ThreadOK, DeletePhase, SlotsMatchObjects, Slotted
  <1>27. ASSUME NEW d \in Readers \cup Managers, DeleteFree(d)
        PROVE SlotsMatchObjects'
    <2>1. obj[d] \in Objects /\ life[obj[d]] = "noslot"
      BY <1>27, DeleterFacts DEF DeleteFree
    <2> QED BY <1>a, <1>27, <2>1 DEF DeleteFree, SlotsMatchObjects, Slotted
  <1>28. CASE UNCHANGED vars
    BY <1>a, <1>28 DEF vars, SlotsMatchObjects, Slotted
  <1> QED
    BY <1>1, <1>2, <1>3, <1>4, <1>5, <1>6, <1>7, <1>8, <1>9, <1>10,
       <1>11, <1>12, <1>13, <1>14, <1>15, <1>16, <1>17, <1>18, <1>19, <1>20,
       <1>21, <1>22, <1>23, <1>24, <1>25, <1>26, <1>27, <1>28
    DEF Next, SendStep, RecvStep, RecvList, DeleteStep

\* The parts together.
LEMMA Layer1Step == Layer1 /\ [Next]_vars => Layer1'
  BY TypeStep, ThreadStep, OneDeleterStep, HandleStep, ObjectStep, SlotsStep
  DEF Layer1, ThreadsMatchObjects

\* What threads do, and the objects and slots they do it on, agree in every state.
THEOREM Layer1Invariant == Spec => []Layer1
  BY Layer1Init, Layer1Step, PTL DEF Spec

\* Every variable keeps to its type, whatever the threads do and however
\* many endpoints, blocks and payloads there are.
THEOREM TypeCorrect == Spec => []TypeOK
  <1>1. Layer1 => TypeOK
    BY DEF Layer1
  <1> QED BY <1>1, Layer1Invariant, PTL

\* Threads and objects stay in step: calls, handles and the phases of a delete
\* agree with how much of the object exists.
THEOREM ThreadsAgree == Spec => []ThreadsMatchObjects
  <1>1. Layer1 => ThreadsMatchObjects
    BY DEF Layer1
  <1> QED BY <1>1, Layer1Invariant, PTL

\* An endpoint number in use leads to exactly one object, through every
\* interleaving of creates and deletes.
THEOREM SlotsAgree == Spec => []SlotsMatchObjects
  <1>1. Layer1 => SlotsMatchObjects
    BY DEF Layer1
  <1> QED BY <1>1, Layer1Invariant, PTL

-----------------------------------------------------------------------------
(* The heap.  Blocks move in four ways; nothing else touches them.         *)

HeapToHand(t, b) ==
  /\ b \in heap /\ payload[t] = NULL
  /\ heap' = heap \ {b}
  /\ payload' = [payload EXCEPT ![t] = b]
  /\ queue' = queue

HandToList(t, o) ==
  /\ payload[t] \in Blocks
  /\ queue' = [queue EXCEPT ![o] = Append(@, payload[t])]
  /\ payload' = [payload EXCEPT ![t] = NULL]
  /\ heap' = heap

ListToHand(t, o) ==
  /\ queue[o] # <<>> /\ payload[t] = NULL
  /\ payload' = [payload EXCEPT ![t] = Head(queue[o])]
  /\ queue' = [queue EXCEPT ![o] = Tail(@)]
  /\ heap' = heap

HandToHeap(t) ==
  /\ payload[t] \in Blocks
  /\ heap' = heap \cup {payload[t]}
  /\ payload' = [payload EXCEPT ![t] = NULL]
  /\ queue' = queue

BlockMove ==
  \/ \E t \in Threads : HandToHeap(t)
  \/ \E t \in Threads, b \in Blocks : HeapToHand(t, b)
  \/ \E t \in Threads, o \in Objects : HandToList(t, o) \/ ListToHand(t, o)
  \/ UNCHANGED <<heap, queue, payload>>

\* Every step moves one block, or none.
LEMMA StepsMoveBlocks == Layer1 /\ [Next]_vars => BlockMove
  <1> SUFFICES ASSUME Layer1, [Next]_vars PROVE BlockMove
    OBVIOUS
  <1>1. ASSUME NEW s \in Senders, NEW m \in Message, SendLookup(s, m)
        PROVE BlockMove
    BY <1>1 DEF SendLookup, BlockMove, dataVars, localVars
  <1>2. ASSUME NEW s \in Senders, SendAlloc(s)
        PROVE BlockMove
    <2>1. s \in Threads /\ ThreadOK(s)
      BY DEF Layer1, ThreadsMatchObjects, Threads
    <2>2. \E b \in Blocks : HeapToHand(s, b)
      BY <1>2, <2>1 DEF SendAlloc, At, HeapToHand, HoldsPayload, ThreadOK, Layer1, TypeOK, dataVars
    <2> QED BY <2>1, <2>2 DEF BlockMove
  <1>3. ASSUME NEW s \in Senders, SendNoMemory(s)
        PROVE BlockMove
    BY <1>3 DEF SendNoMemory, BlockMove, dataVars, localVars
  <1>4. ASSUME NEW s \in Senders, SendFill(s)
        PROVE BlockMove
    BY <1>4 DEF SendFill, BlockMove, dataVars, localVars
  <1>5. ASSUME NEW s \in Senders, SendPut(s)
        PROVE BlockMove
    <2>1. s \in Threads /\ ThreadOK(s)
      BY DEF Layer1, ThreadsMatchObjects, Threads
    <2>2. obj[s] \in Objects /\ HandToList(s, obj[s])
      BY <1>5, <2>1, HoldTypes DEF SendPut, At, HandToList, HoldsPayload, ThreadOK, dataVars
    <2> QED BY <2>1, <2>2 DEF BlockMove
  <1>6. ASSUME NEW s \in Senders, SendPutDeleted(s)
        PROVE BlockMove
    BY <1>6 DEF SendPutDeleted, UseDeleted, BlockMove, dataVars, localVars
  <1>7. ASSUME NEW s \in Senders, SendPost(s)
        PROVE BlockMove
    BY <1>7 DEF SendPost, BlockMove, dataVars, localVars
  <1>8. ASSUME NEW s \in Senders, SendPostDeleted(s)
        PROVE BlockMove
    BY <1>8 DEF SendPostDeleted, UseDeleted, BlockMove, dataVars, localVars
  <1>9. ASSUME NEW r \in Readers, RecvPend(r)
        PROVE BlockMove
    BY <1>9 DEF RecvPend, BlockMove, dataVars, localVars
  <1>10. ASSUME NEW r \in Readers, RecvTimeout(r)
        PROVE BlockMove
    BY <1>10 DEF RecvTimeout, BlockMove, dataVars, localVars
  <1>11. ASSUME NEW r \in Readers, RecvUnblocked(r)
        PROVE BlockMove
    BY <1>11 DEF RecvUnblocked, BlockMove, dataVars, localVars
  <1>12. ASSUME NEW r \in Readers, RecvCheck(r)
        PROVE BlockMove
    BY <1>12 DEF RecvCheck, BlockMove, dataVars, localVars
  <1>13. ASSUME NEW r \in Readers, RecvGet(r)
        PROVE BlockMove
    <2>1. r \in Threads /\ ThreadOK(r)
      BY DEF Layer1, ThreadsMatchObjects, Threads
    <2>2. obj[r] \in Objects /\ ListToHand(r, obj[r])
      BY <1>13, <2>1, HoldTypes DEF RecvGet, At, ListToHand, HoldsPayload, ThreadOK, dataVars
    <2> QED BY <2>1, <2>2 DEF BlockMove
  <1>14. ASSUME NEW r \in Readers, RecvNullPayload(r)
        PROVE BlockMove
    BY <1>14 DEF RecvNullPayload, BlockMove, dataVars, localVars
  <1>15. ASSUME NEW r \in Readers, RecvCopy(r)
        PROVE BlockMove
    BY <1>15 DEF RecvCopy, BlockMove, dataVars, localVars
  <1>16. ASSUME NEW r \in Readers, RecvFree(r)
        PROVE BlockMove
    <2>1. r \in Threads /\ ThreadOK(r)
      BY DEF Layer1, ThreadsMatchObjects, Threads
    <2>2. HandToHeap(r)
      BY <1>16, <2>1, HoldTypes DEF RecvFree, At, HandToHeap, HoldsPayload, dataVars, localVars
    <2> QED BY <2>1, <2>2 DEF BlockMove
  <1>17. ASSUME NEW r \in Readers, NEW reserved \in Endpoints \cup {AssignAny}, Create(r, reserved)
        PROVE BlockMove
    <2>1. PICK o \in Objects : life[o] = "unused" /\ queue' = [queue EXCEPT ![o] = <<>>]
      BY <1>17 DEF Create
    <2>2. queue[o] = <<>>
      BY <2>1 DEF Layer1, ThreadsMatchObjects, ObjectOK
    <2>3. queue' = queue
      BY <2>1, <2>2 DEF Layer1, TypeOK
    <2> QED BY <1>17, <2>3 DEF Create, BlockMove, localVars
  <1>18. ASSUME NEW r \in Readers, NEW isTimed \in BOOLEAN, RecvBegin(r, isTimed)
        PROVE BlockMove
    BY <1>18 DEF RecvBegin, BlockMove, dataVars, localVars
  <1>19. ASSUME NEW r \in Readers, NEW d \in Managers \cup {r}, DeleteSemaphore(d, r)
        PROVE BlockMove
    BY <1>19 DEF DeleteSemaphore, BlockMove, dataVars, localVars
  <1>20. ASSUME NEW r \in Readers, NEW m \in Managers, Unblock(m, r)
        PROVE BlockMove
    BY <1>20 DEF Unblock, BlockMove, dataVars, localVars
  <1>21. ASSUME NEW m \in Managers, UnblockPost(m)
        PROVE BlockMove
    BY <1>21 DEF UnblockPost, BlockMove, dataVars, localVars
  <1>22. ASSUME NEW d \in Readers \cup Managers, DeleteDrain(d)
        PROVE BlockMove
    <2>1. d \in Threads /\ ThreadOK(d)
      BY DEF Layer1, ThreadsMatchObjects, Threads
    <2>2. obj[d] \in Objects /\ ListToHand(d, obj[d])
      BY <1>22, <2>1, HoldTypes DEF DeleteDrain, At, ListToHand, HoldsPayload, ThreadOK, dataVars
    <2> QED BY <2>1, <2>2 DEF BlockMove
  <1>23. ASSUME NEW d \in Readers \cup Managers, DeleteDiscard(d)
        PROVE BlockMove
    <2>1. d \in Threads /\ ThreadOK(d)
      BY DEF Layer1, ThreadsMatchObjects, Threads
    <2>2. HandToHeap(d)
      BY <1>23, <2>1, HoldTypes DEF DeleteDiscard, At, HandToHeap, HoldsPayload, dataVars, localVars
    <2> QED BY <2>1, <2>2 DEF BlockMove
  <1>24. ASSUME NEW d \in Readers \cup Managers, DeleteDrained(d)
        PROVE BlockMove
    BY <1>24 DEF DeleteDrained, BlockMove, dataVars, localVars
  <1>25. ASSUME NEW d \in Readers \cup Managers, DeleteList(d)
        PROVE BlockMove
    BY <1>25 DEF DeleteList, BlockMove, dataVars, localVars
  <1>26. ASSUME NEW d \in Readers \cup Managers, DeleteSlot(d)
        PROVE BlockMove
    BY <1>26 DEF DeleteSlot, BlockMove, dataVars, localVars
  <1>27. ASSUME NEW d \in Readers \cup Managers, DeleteFree(d)
        PROVE BlockMove
    BY <1>27 DEF DeleteFree, BlockMove, dataVars, localVars
  <1>28. CASE UNCHANGED vars
    BY <1>28 DEF BlockMove, vars, dataVars, localVars
  <1> QED
    BY <1>1, <1>2, <1>3, <1>4, <1>5, <1>6, <1>7, <1>8, <1>9, <1>10,
       <1>11, <1>12, <1>13, <1>14, <1>15, <1>16, <1>17, <1>18, <1>19, <1>20,
       <1>21, <1>22, <1>23, <1>24, <1>25, <1>26, <1>27, <1>28
    DEF Next, SendStep, RecvStep, RecvList, DeleteStep

-----------------------------------------------------------------------------
(* Where blocks are after each move, and that no move puts one in two      *)
(* places or loses it.                                                     *)

\* Places in a list that has lost its head.
LEMMA TailIndices ==
  ASSUME NEW q \in Seq(Blocks), q # <<>>
  PROVE  /\ 1 \in DOMAIN q /\ Head(q) = q[1] /\ Head(q) \in Blocks
         /\ DOMAIN Tail(q) = 1..(Len(q) - 1)
         /\ \A i \in DOMAIN Tail(q) : i + 1 \in DOMAIN q /\ Tail(q)[i] = q[i + 1]
         /\ \A i \in DOMAIN q : i # 1 => i - 1 \in DOMAIN Tail(q)
  OBVIOUS

\* Places in a list that was added to.
LEMMA AppendIndices ==
  ASSUME NEW q \in Seq(Blocks), NEW b \in Blocks
  PROVE  /\ DOMAIN Append(q, b) = 1..(Len(q) + 1)
         /\ DOMAIN q = 1..Len(q) /\ Len(q) \in Nat
         /\ \A i \in DOMAIN q : Append(q, b)[i] = q[i]
         /\ Append(q, b)[Len(q) + 1] = b
  OBVIOUS

\* A block put on a list is there and in nobody's hand.
LEMMA HandToListPlaces ==
  ASSUME TypeOK, NEW t \in Threads, NEW o \in Objects, HandToList(t, o)
  PROVE  /\ \A b \in Blocks, u \in Threads : Held(b, u)' <=> Held(b, u) /\ u # t
         /\ \A b \in Blocks, p \in Objects :
              Listed(b, p)' <=> Listed(b, p) \/ (b = payload[t] /\ p = o)
  <1>1. payload[t] \in Blocks /\ queue[o] \in Seq(Blocks) /\ queue'[o] = Append(queue[o], payload[t])
    BY DEF TypeOK, HandToList
  <1>2. ASSUME NEW b \in Blocks, NEW u \in Threads
        PROVE  Held(b, u)' <=> Held(b, u) /\ u # t
    BY NullAssumption DEF TypeOK, HandToList, Held
  <1>3. ASSUME NEW b \in Blocks, NEW p \in Objects
        PROVE  Listed(b, p)' <=> Listed(b, p) \/ (b = payload[t] /\ p = o)
    <2>1. CASE p # o
      BY <2>1 DEF TypeOK, HandToList, Listed
    <2>2. CASE p = o
      <3>1. ASSUME Listed(b, o)' PROVE Listed(b, o) \/ b = payload[t]
        BY <1>1, <3>1, AppendIndices DEF Listed
      <3>2. ASSUME Listed(b, o) PROVE Listed(b, o)'
        BY <1>1, <3>2, AppendIndices DEF Listed
      <3>3. \E i \in DOMAIN queue'[o] : queue'[o][i] = payload[t]
        BY <1>1, AppendIndices
      <3>4. b = payload[t] => Listed(b, o)'
        BY <3>3 DEF Listed
      <3> QED BY <2>2, <3>1, <3>2, <3>4
    <2> QED BY <2>1, <2>2
  <1> QED BY <1>2, <1>3

\* A block taken off a list is in one hand and on no list.
LEMMA ListToHandPlaces ==
  ASSUME TypeOK, NoBlockShared, NEW t \in Threads, NEW o \in Objects, ListToHand(t, o)
  PROVE  /\ Head(queue[o]) \in Blocks /\ Listed(Head(queue[o]), o)
         /\ \A b \in Blocks, u \in Threads :
              Held(b, u)' <=> Held(b, u) \/ (b = Head(queue[o]) /\ u = t)
         /\ \A b \in Blocks, p \in Objects :
              Listed(b, p)' <=> Listed(b, p) /\ b # Head(queue[o])
  <1>1. queue[o] \in Seq(Blocks) /\ queue[o] # <<>> /\ queue'[o] = Tail(queue[o])
    BY DEF TypeOK, ListToHand
  <1>2. Head(queue[o]) \in Blocks /\ Listed(Head(queue[o]), o)
    BY <1>1, TailIndices DEF Listed
  <1>3. ASSUME NEW b \in Blocks, NEW u \in Threads
        PROVE  Held(b, u)' <=> Held(b, u) \/ (b = Head(queue[o]) /\ u = t)
    BY NullAssumption DEF TypeOK, ListToHand, Held
  <1>4. ASSUME NEW b \in Blocks, NEW p \in Objects
        PROVE  Listed(b, p)' <=> Listed(b, p) /\ b # Head(queue[o])
    <2>1. CASE p # o
      <3>1. queue'[p] = queue[p]
        BY <2>1 DEF TypeOK, ListToHand
      <3>2. Listed(b, p) => b # Head(queue[o])
        BY <1>2, <2>1 DEF NoBlockShared
      <3> QED BY <3>1, <3>2 DEF Listed
    <2>2. CASE p = o
      <3> DEFINE q == queue[o]
      <3>1. \A i, j \in DOMAIN q : q[i] = q[j] => i = j
        BY DEF NoBlockShared
      <3>2. ASSUME Listed(b, o)' PROVE Listed(b, o) /\ b # Head(q)
        <4>1. PICK i \in DOMAIN Tail(q) : Tail(q)[i] = b
          BY <1>1, <3>2 DEF Listed
        <4>2. i \in Nat /\ i + 1 # 1 /\ i + 1 \in DOMAIN q /\ q[i + 1] = b /\ 1 \in DOMAIN q /\ Head(q) = q[1]
          BY <1>1, <4>1, TailIndices
        <4> QED BY <4>2, <3>1 DEF Listed
      <3>3. ASSUME Listed(b, o), b # Head(q) PROVE Listed(b, o)'
        <4>1. PICK i \in DOMAIN q : q[i] = b
          BY <3>3 DEF Listed
        <4>2. i # 1
          BY <1>1, <3>3, <4>1, TailIndices
        <4>3. i - 1 \in DOMAIN Tail(q) /\ Tail(q)[i - 1] = q[(i - 1) + 1] /\ i \in Nat
          BY <1>1, <4>2, TailIndices
        <4>4. Tail(q)[i - 1] = b
          BY <4>1, <4>3
        <4> QED BY <1>1, <4>3, <4>4 DEF Listed
      <3> QED BY <2>2, <3>2, <3>3
    <2> QED BY <2>1, <2>2
  <1> QED BY <1>2, <1>3, <1>4

\* Positions on a list stay distinct.
Distinct(q) == \A i, j \in DOMAIN q : q[i] = q[j] => i = j

\* A move puts no block in two places.
LEMMA MoveKeepsBlocksApart ==
  ASSUME TypeOK, NoBlockShared, BlockMove
  PROVE  NoBlockShared'
  <1> USE DEF Free
  <1>0. \A o \in Objects : queue[o] \in Seq(Blocks) /\ Distinct(queue[o])
    BY DEF TypeOK, NoBlockShared, Distinct
  <1>1. ASSUME NEW t \in Threads, HandToHeap(t) PROVE NoBlockShared'
    <2>1. \A b \in Blocks, u \in Threads : Held(b, u)' <=> Held(b, u) /\ u # t
      BY <1>1, NullAssumption DEF TypeOK, HandToHeap, Held
    <2>2. /\ \A b \in Blocks, p \in Objects : Listed(b, p)' <=> Listed(b, p)
          /\ \A b \in Blocks : Free(b)' <=> Free(b) \/ Held(b, t)
          /\ queue' = queue
      BY <1>1 DEF HandToHeap, Listed, Held
    <2> QED BY <2>1, <2>2 DEF NoBlockShared
  <1>2. ASSUME NEW t \in Threads, NEW c \in Blocks, HeapToHand(t, c) PROVE NoBlockShared'
    <2>1. \A b \in Blocks, u \in Threads : Held(b, u)' <=> Held(b, u) \/ (b = c /\ u = t)
      BY <1>2, NullAssumption DEF TypeOK, HeapToHand, Held
    <2>2. /\ \A b \in Blocks, p \in Objects : Listed(b, p)' <=> Listed(b, p)
          /\ \A b \in Blocks : Free(b)' <=> Free(b) /\ b # c
          /\ queue' = queue /\ Free(c)
      BY <1>2 DEF HeapToHand, Listed, Held
    <2> QED BY <2>1, <2>2 DEF NoBlockShared
  <1>3. ASSUME NEW t \in Threads, NEW o \in Objects, HandToList(t, o) PROVE NoBlockShared'
    <2>1. payload[t] \in Blocks /\ Held(payload[t], t) /\ heap' = heap
      BY <1>3 DEF HandToList, Held
    <2>2. \A p \in Objects : Distinct(queue'[p])
      <3>1. ~Listed(payload[t], o)
        BY <2>1 DEF NoBlockShared
      <3>2. Distinct(Append(queue[o], payload[t]))
        BY <1>0, <2>1, <3>1, AppendIndices DEF Distinct, Listed
      <3> QED BY <1>0, <1>3, <3>2 DEF TypeOK, HandToList
    <2>3. /\ \A b \in Blocks, u \in Threads : Held(b, u)' <=> Held(b, u) /\ u # t
          /\ \A b \in Blocks, p \in Objects :
               Listed(b, p)' <=> Listed(b, p) \/ (b = payload[t] /\ p = o)
      BY <1>3, HandToListPlaces
    <2>4. \A b \in Blocks : Held(b, t) => b = payload[t]
      BY DEF Held
    <2> QED BY <2>1, <2>2, <2>3, <2>4 DEF NoBlockShared, Distinct
  <1>4. ASSUME NEW t \in Threads, NEW o \in Objects, ListToHand(t, o) PROVE NoBlockShared'
    <2>1. heap' = heap
      BY <1>4 DEF ListToHand
    <2>2. \A p \in Objects : Distinct(queue'[p])
      <3>1. Distinct(Tail(queue[o]))
        BY <1>0, <1>4, TailIndices DEF Distinct, ListToHand
      <3> QED BY <1>0, <1>4, <3>1 DEF TypeOK, ListToHand
    <2>3. /\ Head(queue[o]) \in Blocks /\ Listed(Head(queue[o]), o)
          /\ \A b \in Blocks, u \in Threads :
               Held(b, u)' <=> Held(b, u) \/ (b = Head(queue[o]) /\ u = t)
          /\ \A b \in Blocks, p \in Objects :
               Listed(b, p)' <=> Listed(b, p) /\ b # Head(queue[o])
      BY <1>4, ListToHandPlaces
    <2> QED BY <2>1, <2>2, <2>3 DEF NoBlockShared, Distinct
  <1>5. ASSUME UNCHANGED <<heap, queue, payload>> PROVE NoBlockShared'
    BY <1>5 DEF NoBlockShared, Listed, Held
  <1> QED BY <1>1, <1>2, <1>3, <1>4, <1>5 DEF BlockMove

\* MessageQCopy_send, _recv and _delete never put a block of the heap in two
\* places, however they interleave: no message is overwritten before it was
\* copied out.
THEOREM BlocksNotShared == Spec => []NoBlockShared
  <1>1. Init => NoBlockShared
    BY NullAssumption DEF Init, NoBlockShared, Free, Listed, Held
  <1>2. Layer1 /\ NoBlockShared /\ [Next]_vars => NoBlockShared'
    BY StepsMoveBlocks, MoveKeepsBlocksApart DEF Layer1
  <1> QED BY <1>1, <1>2, Layer1Invariant, PTL DEF Spec

-----------------------------------------------------------------------------
(* Nothing is lost.                                                        *)

\* A move loses no block.
LEMMA MoveKeepsBlocks ==
  ASSUME TypeOK, NoBlockShared, BlockMove,
         \A b \in Blocks : BlockKept(b)
  PROVE  \A b \in Blocks : BlockKept(b)'
  <1> USE DEF Free, BlockKept
  <1>1. ASSUME NEW t \in Threads, HandToHeap(t) PROVE \A b \in Blocks : BlockKept(b)'
    <2>1. \A b \in Blocks, u \in Threads : Held(b, u) => Held(b, u)' \/ b = payload[t]
      BY <1>1 DEF TypeOK, HandToHeap, Held
    <2> QED BY <1>1, <2>1 DEF HandToHeap, Listed
  <1>2. ASSUME NEW t \in Threads, NEW c \in Blocks, HeapToHand(t, c)
        PROVE \A b \in Blocks : BlockKept(b)'
    <2>1. Held(c, t)' /\ \A b \in Blocks, u \in Threads : Held(b, u) => Held(b, u)'
      BY <1>2, NullAssumption DEF TypeOK, HeapToHand, Held
    <2> QED BY <1>2, <2>1 DEF HeapToHand, Listed
  <1>3. ASSUME NEW t \in Threads, NEW o \in Objects, HandToList(t, o)
        PROVE \A b \in Blocks : BlockKept(b)'
    <2>1. /\ \A b \in Blocks, u \in Threads : Held(b, u)' <=> Held(b, u) /\ u # t
          /\ \A b \in Blocks, p \in Objects :
               Listed(b, p)' <=> Listed(b, p) \/ (b = payload[t] /\ p = o)
      BY <1>3, HandToListPlaces
    <2>2. \A b \in Blocks : Held(b, t) <=> b = payload[t]
      BY DEF Held
    <2> QED BY <1>3, <2>1, <2>2 DEF HandToList
  <1>4. ASSUME NEW t \in Threads, NEW o \in Objects, ListToHand(t, o)
        PROVE \A b \in Blocks : BlockKept(b)'
    <2>1. /\ \A b \in Blocks, u \in Threads :
               Held(b, u)' <=> Held(b, u) \/ (b = Head(queue[o]) /\ u = t)
          /\ \A b \in Blocks, p \in Objects :
               Listed(b, p)' <=> Listed(b, p) /\ b # Head(queue[o])
      BY <1>4, ListToHandPlaces
    <2> QED BY <1>4, <2>1 DEF ListToHand
  <1>5. ASSUME UNCHANGED <<heap, queue, payload>> PROVE \A b \in Blocks : BlockKept(b)'
    BY <1>5 DEF Listed, Held
  <1> QED BY <1>1, <1>2, <1>3, <1>4, <1>5 DEF BlockMove

\* The list of an object whose semaphore is gone: empty, or a sender is still
\* about to post for what it put there.
Announced(o) == queue[o] = <<>> \/ Unposted(o) # {}

NothingStranded ==
  /\ \A o \in Objects : ~HasList(o) => Announced(o)
  /\ \A d \in Threads : pc[d] = "dellist" => Announced(obj[d])

AnnouncedStays ==
  \A o \in Objects : ~HasSemaphore(o) /\ Announced(o) => Announced(o)'

\* A block that a sender will announce stays with it, or is announced.
LEMMA AnnouncedKept == Layer1 /\ [Next]_vars => AnnouncedStays
  <1> SUFFICES ASSUME Layer1, [Next]_vars PROVE AnnouncedStays
    OBVIOUS
  <1> USE HoldTypes, NullAssumption DEF Layer1, TypeOK, AnnouncedStays, Announced, Unposted,
          HasSemaphore, HoldsPayload, At, Goto, UseDeleted, endpointVars, dataVars, signalVars, localVars,
          Threads
  <1>1. ASSUME NEW s \in Senders, NEW m \in Message, SendLookup(s, m)
        PROVE AnnouncedStays
    BY <1>1 DEF SendLookup
  <1>2. ASSUME NEW s \in Senders, SendAlloc(s)
        PROVE AnnouncedStays
    BY <1>2 DEF SendAlloc
  <1>3. ASSUME NEW s \in Senders, SendNoMemory(s)
        PROVE AnnouncedStays
    BY <1>3 DEF SendNoMemory
  <1>4. ASSUME NEW s \in Senders, SendFill(s)
        PROVE AnnouncedStays
    BY <1>4 DEF SendFill
  <1>5. ASSUME NEW s \in Senders, SendPut(s)
        PROVE AnnouncedStays
    BY <1>5 DEF SendPut
  <1>6. ASSUME NEW s \in Senders, SendPutDeleted(s)
        PROVE AnnouncedStays
    BY <1>6 DEF SendPutDeleted
  <1>7. ASSUME NEW s \in Senders, SendPost(s)
        PROVE AnnouncedStays
    BY <1>7 DEF SendPost
  <1>8. ASSUME NEW s \in Senders, SendPostDeleted(s)
        PROVE AnnouncedStays
    BY <1>8 DEF SendPostDeleted
  <1>9. ASSUME NEW r \in Readers, RecvPend(r)
        PROVE AnnouncedStays
    BY <1>9 DEF RecvPend
  <1>10. ASSUME NEW r \in Readers, RecvTimeout(r)
        PROVE AnnouncedStays
    BY <1>10 DEF RecvTimeout
  <1>11. ASSUME NEW r \in Readers, RecvUnblocked(r)
        PROVE AnnouncedStays
    BY <1>11 DEF RecvUnblocked
  <1>12. ASSUME NEW r \in Readers, RecvCheck(r)
        PROVE AnnouncedStays
    BY <1>12 DEF RecvCheck
  <1>13. ASSUME NEW r \in Readers, RecvGet(r)
        PROVE AnnouncedStays
    BY <1>13 DEF RecvGet
  <1>14. ASSUME NEW r \in Readers, RecvNullPayload(r)
        PROVE AnnouncedStays
    BY <1>14 DEF RecvNullPayload
  <1>15. ASSUME NEW r \in Readers, RecvCopy(r)
        PROVE AnnouncedStays
    BY <1>15 DEF RecvCopy
  <1>16. ASSUME NEW r \in Readers, RecvFree(r)
        PROVE AnnouncedStays
    BY <1>16 DEF RecvFree
  <1>17. ASSUME NEW r \in Readers, NEW reserved \in Endpoints \cup {AssignAny}, Create(r, reserved)
        PROVE AnnouncedStays
    BY <1>17 DEF Create
  <1>18. ASSUME NEW r \in Readers, NEW isTimed \in BOOLEAN, RecvBegin(r, isTimed)
        PROVE AnnouncedStays
    BY <1>18 DEF RecvBegin
  <1>19. ASSUME NEW r \in Readers, NEW d \in Managers \cup {r}, DeleteSemaphore(d, r)
        PROVE AnnouncedStays
    BY <1>19 DEF DeleteSemaphore
  <1>20. ASSUME NEW r \in Readers, NEW m \in Managers, Unblock(m, r)
        PROVE AnnouncedStays
    BY <1>20 DEF Unblock
  <1>21. ASSUME NEW m \in Managers, UnblockPost(m)
        PROVE AnnouncedStays
    BY <1>21 DEF UnblockPost
  <1>22. ASSUME NEW d \in Readers \cup Managers, DeleteDrain(d)
        PROVE AnnouncedStays
    BY <1>22 DEF DeleteDrain
  <1>23. ASSUME NEW d \in Readers \cup Managers, DeleteDiscard(d)
        PROVE AnnouncedStays
    BY <1>23 DEF DeleteDiscard
  <1>24. ASSUME NEW d \in Readers \cup Managers, DeleteDrained(d)
        PROVE AnnouncedStays
    BY <1>24 DEF DeleteDrained
  <1>25. ASSUME NEW d \in Readers \cup Managers, DeleteList(d)
        PROVE AnnouncedStays
    BY <1>25 DEF DeleteList
  <1>26. ASSUME NEW d \in Readers \cup Managers, DeleteSlot(d)
        PROVE AnnouncedStays
    BY <1>26 DEF DeleteSlot
  <1>27. ASSUME NEW d \in Readers \cup Managers, DeleteFree(d)
        PROVE AnnouncedStays
    BY <1>27 DEF DeleteFree
  <1>28. CASE UNCHANGED vars
    BY <1>28 DEF vars, dataVars, localVars
  <1> HIDE DEF Layer1, TypeOK, AnnouncedStays, At, Goto, UseDeleted
  <1> QED
    BY <1>1, <1>2, <1>3, <1>4, <1>5, <1>6, <1>7, <1>8, <1>9, <1>10,
       <1>11, <1>12, <1>13, <1>14, <1>15, <1>16, <1>17, <1>18, <1>19, <1>20,
       <1>21, <1>22, <1>23, <1>24, <1>25, <1>26, <1>27, <1>28
    DEF Next, SendStep, RecvStep, RecvList, DeleteStep

\* How a list goes away, and how a thread gets to where it deletes one.
ClosingStep ==
  /\ \A o \in Objects : HasList(o)' \/ ~HasList(o) \/ \E d \in Threads : pc[d] = "dellist" /\ obj[d] = o
  /\ \A d \in Threads :
       pc'[d] = "dellist" =>
         obj'[d] = obj[d] /\ (pc[d] = "dellist" \/ queue'[obj[d]] = <<>>)

\* A list is deleted by the deleter of its object, who found it empty.
LEMMA ClosingSteps == Layer1 /\ [Next]_vars => ClosingStep
  <1> SUFFICES ASSUME Layer1, [Next]_vars PROVE ClosingStep
    OBVIOUS
  <1> USE HoldTypes, NullAssumption DEF Layer1, TypeOK, ClosingStep, HasList, HoldsPayload,
          At, Goto, UseDeleted, endpointVars, dataVars, signalVars, localVars, Threads
  <1>1. ASSUME NEW s \in Senders, NEW m \in Message, SendLookup(s, m)
        PROVE ClosingStep
    BY <1>1 DEF SendLookup
  <1>2. ASSUME NEW s \in Senders, SendAlloc(s)
        PROVE ClosingStep
    BY <1>2 DEF SendAlloc
  <1>3. ASSUME NEW s \in Senders, SendNoMemory(s)
        PROVE ClosingStep
    BY <1>3 DEF SendNoMemory
  <1>4. ASSUME NEW s \in Senders, SendFill(s)
        PROVE ClosingStep
    BY <1>4 DEF SendFill
  <1>5. ASSUME NEW s \in Senders, SendPut(s)
        PROVE ClosingStep
    BY <1>5 DEF SendPut
  <1>6. ASSUME NEW s \in Senders, SendPutDeleted(s)
        PROVE ClosingStep
    BY <1>6 DEF SendPutDeleted
  <1>7. ASSUME NEW s \in Senders, SendPost(s)
        PROVE ClosingStep
    BY <1>7 DEF SendPost
  <1>8. ASSUME NEW s \in Senders, SendPostDeleted(s)
        PROVE ClosingStep
    BY <1>8 DEF SendPostDeleted
  <1>9. ASSUME NEW r \in Readers, RecvPend(r)
        PROVE ClosingStep
    BY <1>9 DEF RecvPend
  <1>10. ASSUME NEW r \in Readers, RecvTimeout(r)
        PROVE ClosingStep
    BY <1>10 DEF RecvTimeout
  <1>11. ASSUME NEW r \in Readers, RecvUnblocked(r)
        PROVE ClosingStep
    BY <1>11 DEF RecvUnblocked
  <1>12. ASSUME NEW r \in Readers, RecvCheck(r)
        PROVE ClosingStep
    BY <1>12 DEF RecvCheck
  <1>13. ASSUME NEW r \in Readers, RecvGet(r)
        PROVE ClosingStep
    BY <1>13 DEF RecvGet
  <1>14. ASSUME NEW r \in Readers, RecvNullPayload(r)
        PROVE ClosingStep
    BY <1>14 DEF RecvNullPayload
  <1>15. ASSUME NEW r \in Readers, RecvCopy(r)
        PROVE ClosingStep
    BY <1>15 DEF RecvCopy
  <1>16. ASSUME NEW r \in Readers, RecvFree(r)
        PROVE ClosingStep
    BY <1>16 DEF RecvFree
  <1>17. ASSUME NEW r \in Readers, NEW reserved \in Endpoints \cup {AssignAny}, Create(r, reserved)
        PROVE ClosingStep
    BY <1>17 DEF Create
  <1>18. ASSUME NEW r \in Readers, NEW isTimed \in BOOLEAN, RecvBegin(r, isTimed)
        PROVE ClosingStep
    BY <1>18 DEF RecvBegin
  <1>19. ASSUME NEW r \in Readers, NEW d \in Managers \cup {r}, DeleteSemaphore(d, r)
        PROVE ClosingStep
    BY <1>19 DEF DeleteSemaphore
  <1>20. ASSUME NEW r \in Readers, NEW m \in Managers, Unblock(m, r)
        PROVE ClosingStep
    BY <1>20 DEF Unblock
  <1>21. ASSUME NEW m \in Managers, UnblockPost(m)
        PROVE ClosingStep
    BY <1>21 DEF UnblockPost
  <1>22. ASSUME NEW d \in Readers \cup Managers, DeleteDrain(d)
        PROVE ClosingStep
    BY <1>22 DEF DeleteDrain
  <1>23. ASSUME NEW d \in Readers \cup Managers, DeleteDiscard(d)
        PROVE ClosingStep
    BY <1>23 DEF DeleteDiscard
  <1>24. ASSUME NEW d \in Readers \cup Managers, DeleteDrained(d)
        PROVE ClosingStep
    BY <1>24 DEF DeleteDrained
  <1>25. ASSUME NEW d \in Readers \cup Managers, DeleteList(d)
        PROVE ClosingStep
    BY <1>25 DEF DeleteList
  <1>26. ASSUME NEW d \in Readers \cup Managers, DeleteSlot(d)
        PROVE ClosingStep
    BY <1>26, DeleterFacts DEF DeleteSlot, DeletePcs
  <1>27. ASSUME NEW d \in Readers \cup Managers, DeleteFree(d)
        PROVE ClosingStep
    BY <1>27, DeleterFacts DEF DeleteFree, DeletePcs
  <1>28. CASE UNCHANGED vars
    BY <1>28 DEF vars
  <1> HIDE DEF Layer1, TypeOK, ClosingStep, At, Goto, UseDeleted
  <1> QED
    BY <1>1, <1>2, <1>3, <1>4, <1>5, <1>6, <1>7, <1>8, <1>9, <1>10,
       <1>11, <1>12, <1>13, <1>14, <1>15, <1>16, <1>17, <1>18, <1>19, <1>20,
       <1>21, <1>22, <1>23, <1>24, <1>25, <1>26, <1>27, <1>28
    DEF Next, SendStep, RecvStep, RecvList, DeleteStep

\* No step leaves a block on a list that nobody empties.
LEMMA NothingStrandedStep == Layer1 /\ NothingStranded /\ [Next]_vars => NothingStranded'
  <1> SUFFICES ASSUME Layer1, NothingStranded, [Next]_vars PROVE NothingStranded'
    OBVIOUS
  <1>1. AnnouncedStays /\ ClosingStep /\ TypeOK
    BY AnnouncedKept, ClosingSteps DEF Layer1
  <1>2. ASSUME NEW o \in Objects, ~HasSemaphore(o), Announced(o) PROVE Announced(o)'
    BY <1>1, <1>2 DEF AnnouncedStays, Announced, Unposted
  <1>3. ASSUME NEW d \in Threads, pc[d] = "dellist"
        PROVE  obj[d] \in Objects /\ ~HasSemaphore(obj[d]) /\ Announced(obj[d])
    BY <1>3, DeleterFacts DEF DeletePcs, HasSemaphore, NothingStranded
  <1>4. ASSUME NEW o \in Objects, ~HasList(o)' PROVE Announced(o)'
    <2>1. CASE ~HasList(o)
      BY <2>1, <1>2 DEF HasList, HasSemaphore, NothingStranded
    <2>2. CASE \E d \in Threads : pc[d] = "dellist" /\ obj[d] = o
      BY <2>2, <1>2, <1>3
    <2> QED BY <1>1, <1>4, <2>1, <2>2 DEF ClosingStep
  <1>5. ASSUME NEW d \in Threads, pc'[d] = "dellist" PROVE Announced(obj[d])'
    <2>1. obj'[d] = obj[d] /\ (pc[d] = "dellist" \/ queue'[obj[d]] = <<>>)
      BY <1>1, <1>5 DEF ClosingStep
    <2>2. CASE pc[d] = "dellist"
      <3> DEFINE o == obj[d]
      <3>1. o \in Objects /\ ~HasSemaphore(o) /\ Announced(o)
        BY <1>3, <2>2
      <3>2. queue'[o] = <<>> \/ {t \in Threads : pc'[t] = "post" /\ obj'[t] = o} # {}
        BY <1>1, <3>1 DEF AnnouncedStays, Announced, Unposted
      <3> QED BY <2>1, <3>2 DEF Announced, Unposted
    <2> QED BY <2>1, <2>2 DEF Announced
  <1> QED BY <1>4, <1>5 DEF NothingStranded

\* No block of the heap is lost, but by a sender that raced the delete and that
\* still is about to post on the deleted semaphore.
THEOREM BlocksNotLost == Spec => []NoBlockLost
  <1> DEFINE Kept == \A b \in Blocks : BlockKept(b)
  <1>1. Init => Kept /\ NothingStranded
    BY DEF Init, BlockKept, Free, NothingStranded, Announced
  <1>2. TypeOK /\ Layer1 /\ NoBlockShared /\ Kept /\ [Next]_vars => Kept'
    BY StepsMoveBlocks, MoveKeepsBlocks
  <1>3. Layer1 /\ NothingStranded /\ [Next]_vars => NothingStranded'
    BY NothingStrandedStep
  <1>4. Kept /\ NothingStranded => NoBlockLost
    BY DEF NoBlockLost, NothingStranded, Announced
  <1> HIDE DEF Kept
  <1> QED BY <1>1, <1>2, <1>3, <1>4, Layer1Invariant, TypeCorrect, BlocksNotShared, PTL DEF Spec

-----------------------------------------------------------------------------
(* Semaphores and lists.  A token of an endpoint in service moves in four  *)
(* ways: put, posted, taken by the reader, turned into a message.          *)

Live(o) == life[o] = "live" /\ ~unblocked[o]

TokenStep(o) ==
  \/ /\ sem'[o] = 0 /\ queue'[o] = <<>>
     /\ Claimed(o)' = {} /\ Unposted(o)' = {}
  \/ /\ Live(o)
     /\ \/ /\ sem'[o] = sem[o] /\ Len(queue'[o]) = Len(queue[o])
           /\ Claimed(o)' = Claimed(o) /\ Unposted(o)' = Unposted(o)
        \/ /\ sem'[o] = sem[o] /\ Len(queue'[o]) = Len(queue[o]) + 1
           /\ Claimed(o)' = Claimed(o)
           /\ \E s \in Threads \ Unposted(o) : Unposted(o)' = Unposted(o) \cup {s}
        \/ /\ sem'[o] = sem[o] + 1 /\ Len(queue'[o]) = Len(queue[o])
           /\ Claimed(o)' = Claimed(o)
           /\ \E s \in Unposted(o) : Unposted(o)' = Unposted(o) \ {s}
        \/ /\ sem'[o] = sem[o] - 1 /\ Len(queue'[o]) = Len(queue[o])
           /\ Unposted(o)' = Unposted(o)
           /\ \E r \in Threads \ Claimed(o) : Claimed(o)' = Claimed(o) \cup {r}
        \/ /\ sem'[o] = sem[o] /\ Len(queue'[o]) = Len(queue[o]) - 1
           /\ Unposted(o)' = Unposted(o)
           /\ \E r \in Claimed(o) : Claimed(o)' = Claimed(o) \ {r}

TokenMove == \A o \in Objects : Live(o)' => TokenStep(o)

\* No thread has an object that was not created.
LEMMA UnusedIsUnknown ==
  ASSUME Layer1, NEW o \in Objects, life[o] = "unused", NEW t \in Threads
  PROVE  obj[t] # o
  BY NullAssumption DEF Layer1, ThreadsMatchObjects, ThreadOK

\* Every step moves one token of an object, or none.
LEMMA StepsMoveTokens == Layer1 /\ [Next]_vars => TokenMove
  <1> SUFFICES ASSUME Layer1, [Next]_vars PROVE TokenMove
    OBVIOUS
  <1> USE HoldTypes, NullAssumption DEF Layer1, TypeOK, TokenMove, TokenStep, Live, Claimed, Unposted,
          HoldsPayload, At, Goto, UseDeleted, endpointVars, dataVars, signalVars, localVars,
          Threads, ThreadsMatchObjects, ThreadOK
  <1>1. ASSUME NEW s \in Senders, NEW m \in Message, SendLookup(s, m)
        PROVE TokenMove
    BY <1>1 DEF SendLookup
  <1>2. ASSUME NEW s \in Senders, SendAlloc(s)
        PROVE TokenMove
    BY <1>2 DEF SendAlloc
  <1>3. ASSUME NEW s \in Senders, SendNoMemory(s)
        PROVE TokenMove
    BY <1>3 DEF SendNoMemory
  <1>4. ASSUME NEW s \in Senders, SendFill(s)
        PROVE TokenMove
    BY <1>4 DEF SendFill
  <1>5. ASSUME NEW s \in Senders, SendPut(s)
        PROVE TokenMove
    <2>1. obj[s] \in Objects /\ payload[s] \in Blocks /\ s \in Threads
      BY <1>5 DEF SendPut
    <2>2. ASSUME NEW o \in Objects, Live(o)' PROVE TokenStep(o)
      <3>1. CASE o = obj[s]
        <4>1. s \notin Unposted(o) /\ Unposted(o)' = Unposted(o) \cup {s} /\ Claimed(o)' = Claimed(o)
          BY <1>5, <2>1, <3>1 DEF SendPut
        <4>2. sem'[o] = sem[o] /\ Len(queue'[o]) = Len(queue[o]) + 1
          BY <1>5, <2>1, <3>1 DEF SendPut
        <4> QED BY <1>5, <2>1, <2>2, <4>1, <4>2 DEF SendPut
      <3>2. CASE o # obj[s]
        BY <1>5, <2>1, <2>2, <3>2 DEF SendPut
      <3> QED BY <3>1, <3>2
    <2> QED BY <2>2
  <1>6. ASSUME NEW s \in Senders, SendPutDeleted(s)
        PROVE TokenMove
    BY <1>6 DEF SendPutDeleted
  <1>7. ASSUME NEW s \in Senders, SendPost(s)
        PROVE TokenMove
    <2>1. obj[s] \in Objects /\ s \in Threads
      BY <1>7 DEF SendPost
    <2>2. ASSUME NEW o \in Objects, Live(o)' PROVE TokenStep(o)
      <3>1. CASE o = obj[s]
        <4>1. s \in Unposted(o) /\ Unposted(o)' = Unposted(o) \ {s} /\ Claimed(o)' = Claimed(o)
          BY <1>7, <2>1, <3>1 DEF SendPost
        <4>2. sem'[o] = sem[o] + 1 /\ Len(queue'[o]) = Len(queue[o])
          BY <1>7, <2>1, <3>1 DEF SendPost
        <4> QED BY <1>7, <2>1, <2>2, <4>1, <4>2 DEF SendPost
      <3>2. CASE o # obj[s]
        BY <1>7, <2>1, <2>2, <3>2 DEF SendPost
      <3> QED BY <3>1, <3>2
    <2> QED BY <2>2
  <1>8. ASSUME NEW s \in Senders, SendPostDeleted(s)
        PROVE TokenMove
    BY <1>8 DEF SendPostDeleted
  <1>9. ASSUME NEW r \in Readers, RecvPend(r)
        PROVE TokenMove
    <2>1. obj[r] \in Objects /\ r \in Threads
      BY <1>9 DEF RecvPend
    <2>2. ASSUME NEW o \in Objects, Live(o)' PROVE TokenStep(o)
      <3>1. CASE o = obj[r]
        <4>1. r \notin Claimed(o) /\ Claimed(o)' = Claimed(o) \cup {r} /\ Unposted(o)' = Unposted(o)
          BY <1>9, <2>1, <3>1 DEF RecvPend
        <4>2. sem'[o] = sem[o] - 1 /\ Len(queue'[o]) = Len(queue[o])
          BY <1>9, <2>1, <3>1 DEF RecvPend
        <4> QED BY <1>9, <2>1, <2>2, <4>1, <4>2 DEF RecvPend
      <3>2. CASE o # obj[r]
        BY <1>9, <2>1, <2>2, <3>2 DEF RecvPend
      <3> QED BY <3>1, <3>2
    <2> QED BY <2>2
  <1>10. ASSUME NEW r \in Readers, RecvTimeout(r)
        PROVE TokenMove
    BY <1>10 DEF RecvTimeout
  <1>11. ASSUME NEW r \in Readers, RecvUnblocked(r)
        PROVE TokenMove
    BY <1>11 DEF RecvUnblocked
  <1>12. ASSUME NEW r \in Readers, RecvCheck(r)
        PROVE TokenMove
    BY <1>12 DEF RecvCheck
  <1>13. ASSUME NEW r \in Readers, RecvGet(r)
        PROVE TokenMove
    <2>1. obj[r] \in Objects /\ r \in Threads
      BY <1>13 DEF RecvGet
    <2>2. ASSUME NEW o \in Objects, Live(o)' PROVE TokenStep(o)
      <3>1. CASE o = obj[r]
        <4>1. r \in Claimed(o) /\ Claimed(o)' = Claimed(o) \ {r} /\ Unposted(o)' = Unposted(o)
          BY <1>13, <2>1, <3>1 DEF RecvGet
        <4>2. sem'[o] = sem[o] /\ Len(queue'[o]) = Len(queue[o]) - 1
          BY <1>13, <2>1, <3>1 DEF RecvGet
        <4> QED BY <1>13, <2>1, <2>2, <4>1, <4>2 DEF RecvGet
      <3>2. CASE o # obj[r]
        BY <1>13, <2>1, <2>2, <3>2 DEF RecvGet
      <3> QED BY <3>1, <3>2
    <2> QED BY <2>2
  <1>14. ASSUME NEW r \in Readers, RecvNullPayload(r)
        PROVE TokenMove
    BY <1>14 DEF RecvNullPayload
  <1>15. ASSUME NEW r \in Readers, RecvCopy(r)
        PROVE TokenMove
    BY <1>15 DEF RecvCopy
  <1>16. ASSUME NEW r \in Readers, RecvFree(r)
        PROVE TokenMove
    BY <1>16 DEF RecvFree
  <1>17. ASSUME NEW r \in Readers, NEW reserved \in Endpoints \cup {AssignAny}, Create(r, reserved)
        PROVE TokenMove
    <2>1. PICK p \in Objects :
            /\ life[p] = "unused" /\ life' = [life EXCEPT ![p] = "live"]
            /\ sem' = [sem EXCEPT ![p] = 0] /\ queue' = [queue EXCEPT ![p] = <<>>]
            /\ unblocked' = [unblocked EXCEPT ![p] = FALSE]
      BY <1>17 DEF Create
    <2>2. pc' = pc /\ obj' = obj
      BY <1>17 DEF Create
    <2>3. \A t \in Threads : obj[t] # p
      BY <2>1, UnusedIsUnknown
    <2>4. ASSUME NEW o \in Objects, Live(o)', o = p PROVE TokenStep(o)
      BY <2>1, <2>2, <2>3, <2>4
    <2>5. ASSUME NEW o \in Objects, Live(o)', o # p PROVE TokenStep(o)
      BY <2>1, <2>2, <2>5
    <2> QED BY <2>4, <2>5
  <1>18. ASSUME NEW r \in Readers, NEW isTimed \in BOOLEAN, RecvBegin(r, isTimed)
        PROVE TokenMove
    BY <1>18 DEF RecvBegin
  <1>19. ASSUME NEW r \in Readers, NEW d \in Managers \cup {r}, DeleteSemaphore(d, r)
        PROVE TokenMove
    BY <1>19 DEF DeleteSemaphore
  <1>20. ASSUME NEW r \in Readers, NEW m \in Managers, Unblock(m, r)
        PROVE TokenMove
    BY <1>20 DEF Unblock
  <1>21. ASSUME NEW m \in Managers, UnblockPost(m)
        PROVE TokenMove
    BY <1>21 DEF UnblockPost
  <1>22. ASSUME NEW d \in Readers \cup Managers, DeleteDrain(d)
        PROVE TokenMove
    <2>1. obj[d] \in Objects /\ life[obj[d]] = "nosem"
      BY <1>22, DeleterFacts DEF DeleteDrain, DeletePcs
    <2>2. ASSUME NEW o \in Objects, Live(o)' PROVE TokenStep(o)
      BY <1>22, <2>1, <2>2 DEF DeleteDrain
    <2> QED BY <2>2
  <1>23. ASSUME NEW d \in Readers \cup Managers, DeleteDiscard(d)
        PROVE TokenMove
    BY <1>23, DeleterFacts DEF DeleteDiscard, DeletePcs
  <1>24. ASSUME NEW d \in Readers \cup Managers, DeleteDrained(d)
        PROVE TokenMove
    BY <1>24, DeleterFacts DEF DeleteDrained, DeletePcs
  <1>25. ASSUME NEW d \in Readers \cup Managers, DeleteList(d)
        PROVE TokenMove
    BY <1>25, DeleterFacts DEF DeleteList, DeletePcs
  <1>26. ASSUME NEW d \in Readers \cup Managers, DeleteSlot(d)
        PROVE TokenMove
    BY <1>26, DeleterFacts DEF DeleteSlot, DeletePcs
  <1>27. ASSUME NEW d \in Readers \cup Managers, DeleteFree(d)
        PROVE TokenMove
    <2>1. obj[d] \in Objects /\ life[obj[d]] = "noslot"
      BY <1>27, DeleterFacts DEF DeleteFree, DeletePcs
    <2>2. ASSUME NEW o \in Objects, Live(o)' PROVE TokenStep(o)
      <3>1. /\ pc[d] = "memfree" /\ obj' = [obj EXCEPT ![d] = NULL]
            /\ life' = [life EXCEPT ![obj[d]] = "freed"] /\ UNCHANGED <<sem, queue, unblocked>>
            /\ pc' = [t \in Threads |-> IF t = d \/ (t = reader[obj[d]] /\ pc[t] = "shut")
                                          THEN "idle" ELSE pc[t]]
        BY <1>27 DEF DeleteFree
      <3>2. Live(o)
        BY <2>1, <2>2, <3>1
      <3>3. Claimed(o)' = Claimed(o) /\ Unposted(o)' = Unposted(o)
        BY <3>1
      <3> QED BY <3>1, <3>2, <3>3
    <2> QED BY <2>2
  <1>28. CASE UNCHANGED vars
    BY <1>28 DEF vars
  <1> HIDE DEF Layer1, TypeOK, TokenMove, At, Goto, UseDeleted
  <1> QED
    BY <1>1, <1>2, <1>3, <1>4, <1>5, <1>6, <1>7, <1>8, <1>9, <1>10,
       <1>11, <1>12, <1>13, <1>14, <1>15, <1>16, <1>17, <1>18, <1>19, <1>20,
       <1>21, <1>22, <1>23, <1>24, <1>25, <1>26, <1>27, <1>28
    DEF Next, SendStep, RecvStep, RecvList, DeleteStep

\* The threads that count can be counted.
LEMMA TokenSetsFinite ==
  \A o \in Objects : /\ IsFiniteSet(Claimed(o)) /\ Cardinality(Claimed(o)) \in Nat
                     /\ IsFiniteSet(Unposted(o)) /\ Cardinality(Unposted(o)) \in Nat
  BY ThreadsAssumption, FS_Subset, FS_CardinalityType DEF Claimed, Unposted

Balanced(o) == sem[o] + Cardinality(Claimed(o)) + Cardinality(Unposted(o)) = Len(queue[o])

\* A move keeps the sum.
LEMMA TokenStepKeepsBalance ==
  ASSUME TypeOK, TypeOK', NEW o \in Objects, TokenStep(o), Live(o) => Balanced(o)
  PROVE  Balanced(o)'
  <1> DEFINE C == Claimed(o)  U == Unposted(o)
             c == Cardinality(C)  u == Cardinality(U)
  <1>1. /\ sem[o] \in Nat /\ Len(queue[o]) \in Nat /\ sem'[o] \in Nat /\ Len(queue'[o]) \in Nat
        /\ Len(<<>>) = 0
    BY DEF TypeOK
  <1>2. IsFiniteSet(C) /\ IsFiniteSet(U) /\ c \in Nat /\ u \in Nat
    BY TokenSetsFinite
  <1>3. /\ \A x \in Threads : x \notin U => Cardinality(U \cup {x}) = u + 1
        /\ \A x \in Threads : x \notin C => Cardinality(C \cup {x}) = c + 1
        /\ \A x \in U : Cardinality(U \ {x}) = u - 1
        /\ \A x \in C : Cardinality(C \ {x}) = c - 1
        /\ Cardinality({}) = 0
    BY <1>2, FS_AddElement, FS_RemoveElement, FS_EmptySet
  <1>4. Live(o) => sem[o] + c + u = Len(queue[o])
    BY DEF Balanced
  <1> DEFINE D == Claimed(o)'  V == Unposted(o)'
  <1>5. \/ Cardinality(D) = 0 /\ Cardinality(V) = 0 /\ sem'[o] = 0 /\ Len(queue'[o]) = 0
        \/ Live(o) /\ \E i, j, k \in {-1, 0, 1} :
             /\ Cardinality(D) = c + i /\ Cardinality(V) = u + j
             /\ sem'[o] = sem[o] + k /\ Len(queue'[o]) = Len(queue[o]) + (i + j + k)
    <2>1. CASE sem'[o] = 0 /\ queue'[o] = <<>> /\ D = {} /\ V = {}
      BY <2>1, <1>1, <1>3
    <2>2. CASE Live(o) /\ sem'[o] = sem[o] /\ Len(queue'[o]) = Len(queue[o]) /\ D = C /\ V = U
      BY <2>2, <1>1, <1>2
    <2>3. CASE /\ Live(o) /\ sem'[o] = sem[o] /\ Len(queue'[o]) = Len(queue[o]) + 1
               /\ D = C /\ \E x \in Threads \ U : V = U \cup {x}
      <3>1. Cardinality(D) = c + 0 /\ Cardinality(V) = u + 1
        BY <2>3, <1>2, <1>3
      <3> HIDE DEF C, U, D, V, c, u
      <3> QED BY <2>3, <3>1, <1>1
    <2>4. CASE /\ Live(o) /\ sem'[o] = sem[o] + 1 /\ Len(queue'[o]) = Len(queue[o])
               /\ D = C /\ \E x \in U : V = U \ {x}
      <3>1. Cardinality(D) = c + 0 /\ Cardinality(V) = u + (-1)
        BY <2>4, <1>2, <1>3
      <3> HIDE DEF C, U, D, V, c, u
      <3> QED BY <2>4, <3>1, <1>1
    <2>5. CASE /\ Live(o) /\ sem'[o] = sem[o] - 1 /\ Len(queue'[o]) = Len(queue[o])
               /\ V = U /\ \E x \in Threads \ C : D = C \cup {x}
      <3>1. Cardinality(V) = u + 0 /\ Cardinality(D) = c + 1
        BY <2>5, <1>2, <1>3
      <3> HIDE DEF C, U, D, V, c, u
      <3> QED BY <2>5, <3>1, <1>1
    <2>6. CASE /\ Live(o) /\ sem'[o] = sem[o] /\ Len(queue'[o]) = Len(queue[o]) - 1
               /\ V = U /\ \E x \in C : D = C \ {x}
      <3>1. Cardinality(V) = u + 0 /\ Cardinality(D) = c + (-1)
        BY <2>6, <1>2, <1>3
      <3> HIDE DEF C, U, D, V, c, u
      <3> QED BY <2>6, <3>1, <1>1
    <2> QED BY <2>1, <2>2, <2>3, <2>4, <2>5, <2>6 DEF TokenStep
  <1>6. sem'[o] + Cardinality(D) + Cardinality(V) = Len(queue'[o])
    <2> HIDE DEF C, U, D, V, c, u
    <2>1. CASE Cardinality(D) = 0 /\ Cardinality(V) = 0 /\ sem'[o] = 0 /\ Len(queue'[o]) = 0
      BY <2>1
    <2>2. ASSUME Live(o), NEW i \in {-1, 0, 1}, NEW j \in {-1, 0, 1}, NEW k \in {-1, 0, 1},
                 Cardinality(D) = c + i, Cardinality(V) = u + j, sem'[o] = sem[o] + k,
                 Len(queue'[o]) = Len(queue[o]) + (i + j + k)
          PROVE  sem'[o] + Cardinality(D) + Cardinality(V) = Len(queue'[o])
      <3>1. sem[o] + c + u = Len(queue[o])
        BY <2>2, <1>4
      <3>2. (sem[o] + k) + (c + i) + (u + j) = Len(queue[o]) + (i + j + k)
        <4> DEFINE a == sem[o]  l == Len(queue[o])
        <4>1. a \in Nat /\ c \in Nat /\ u \in Nat /\ l \in Nat /\ a + c + u = l
          BY <3>1, <1>1, <1>2
        <4> HIDE DEF a, l
        <4>2. i \in Int /\ j \in Int /\ k \in Int
          OBVIOUS
        <4>3. (a + k) + (c + i) + (u + j) = l + (i + j + k)
          BY <4>1, <4>2
        <4> QED BY <4>3 DEF a, l
      <3> QED BY <2>2, <3>2
    <2> QED BY <1>5, <2>1, <2>2
  <1> QED BY <1>6 DEF Balanced

\* Tokens and messages of an endpoint in service agree: the counting semaphore
\* announces every message of the list once, however sends, receives, timeouts,
\* creates and deletes interleave.
THEOREM TokensAgree == Spec => []TokensMatchMessages
  <1> DEFINE Inv == \A o \in Objects : Live(o) => Balanced(o)
  <1>1. Init => Inv
    BY DEF Init, Live
  <1>2. TypeOK /\ TypeOK' /\ Layer1 /\ Inv /\ [Next]_vars => Inv'
    <2> SUFFICES ASSUME TypeOK, TypeOK', Layer1, Inv, [Next]_vars,
                        NEW o \in Objects, Live(o)'
                 PROVE  Balanced(o)'
      OBVIOUS
    <2>1. TokenStep(o)
      BY StepsMoveTokens DEF TokenMove, Live
    <2> QED BY <2>1, TokenStepKeepsBalance
  <1>3. Inv <=> TokensMatchMessages
    BY DEF TokensMatchMessages, Live, Balanced
  <1> HIDE DEF Inv
  <1> QED BY <1>1, <1>2, <1>3, Layer1Invariant, TypeCorrect, PTL DEF Spec

-----------------------------------------------------------------------------
(* A reader that passed the check of the unblocked flag finds a message.   *)

\* An object has one reader, and it is not deleted under it.
LEMMA ReaderFacts ==
  ASSUME Layer1, NEW t \in Threads, pc[t] = "get"
  PROVE  /\ life[obj[t]] = "live"
         /\ \A u \in Threads : pc[u] = "get" /\ obj[u] = obj[t] => u = t
  <1>1. ASSUME NEW u \in Threads, pc[u] = "get"
        PROVE  u \in Readers /\ handle[u] = obj[u] /\ life[obj[u]] = "live" /\ reader[obj[u]] = u
    <2>1. u \in Readers /\ handle[u] = obj[u] /\ life[obj[u]] = "live" /\ obj[u] \in Objects
      BY <1>1, HoldTypes DEF Layer1, ThreadsMatchObjects, ThreadOK, RecvPcs
    <2>2. HandleOK(u)
      BY <2>1 DEF Layer1, ThreadsMatchObjects
    <2> QED BY <2>1, <2>2, NullAssumption DEF HandleOK
  <1> QED BY <1>1

\* A token that was not that of an unblock stands for a message.
LEMMA CheckedHasMessage ==
  ASSUME Layer1, TokensMatchMessages,
         NEW r \in Threads, pc[r] = "check", ~unblocked[obj[r]]
  PROVE  queue[obj[r]] # <<>>
  <1> DEFINE o == obj[r]
  <1>1. o \in Objects /\ life[o] = "live"
    BY HoldTypes DEF Layer1, ThreadsMatchObjects, ThreadOK, RecvPcs
  <1>2. sem[o] \in Nat /\ queue[o] \in Seq(Blocks)
    BY <1>1 DEF Layer1, TypeOK
  <1>3. sem[o] + Cardinality(Claimed(o)) + Cardinality(Unposted(o)) = Len(queue[o])
    BY <1>1 DEF TokensMatchMessages
  <1>4. Claimed(o) # {} /\ IsFiniteSet(Claimed(o))
        /\ Cardinality(Claimed(o)) \in Nat /\ Cardinality(Unposted(o)) \in Nat
    BY <1>1, TokenSetsFinite DEF Claimed
  <1>5. Cardinality(Claimed(o)) # 0
    BY <1>4, FS_EmptySet
  <1>6. Len(queue[o]) # 0
    BY <1>2, <1>3, <1>4, <1>5
  <1> QED BY <1>6

ReaderFinds ==
  /\ fault # "aborted"
  /\ \A t \in Threads : pc[t] = "get" => queue[obj[t]] # <<>>

\* Nobody takes the message away from the reader that claimed it.
LEMMA ReaderFindsStep == Layer1 /\ TokensMatchMessages /\ ReaderFinds /\ [Next]_vars => ReaderFinds'
  <1> SUFFICES ASSUME Layer1 /\ TokensMatchMessages /\ ReaderFinds, [Next]_vars PROVE ReaderFinds'
    OBVIOUS
  <1>0. Layer1 /\ TypeOK
    BY DEF Layer1
  <1> USE HoldTypes, NullAssumption DEF ReaderFinds, HoldsPayload,
          At, Goto, UseDeleted, endpointVars, dataVars, signalVars, localVars, Threads
  <1>1. ASSUME NEW s \in Senders, NEW m \in Message, SendLookup(s, m)
        PROVE ReaderFinds'
    BY <1>1, <1>0 DEF SendLookup, TypeOK
  <1>2. ASSUME NEW s \in Senders, SendAlloc(s)
        PROVE ReaderFinds'
    BY <1>2, <1>0 DEF SendAlloc, TypeOK
  <1>3. ASSUME NEW s \in Senders, SendNoMemory(s)
        PROVE ReaderFinds'
    BY <1>3, <1>0 DEF SendNoMemory, TypeOK
  <1>4. ASSUME NEW s \in Senders, SendFill(s)
        PROVE ReaderFinds'
    BY <1>4, <1>0 DEF SendFill, TypeOK
  <1>5. ASSUME NEW s \in Senders, SendPut(s)
        PROVE ReaderFinds'
    <2>1. obj[s] \in Objects /\ payload[s] \in Blocks /\ queue[obj[s]] \in Seq(Blocks)
      BY <1>5, <1>0 DEF SendPut, TypeOK
    <2>2. Append(queue[obj[s]], payload[s]) # <<>>
      BY <2>1
    <2>3. \A o \in Objects : queue[o] # <<>> => queue'[o] # <<>>
      BY <1>5, <1>0, <2>1, <2>2 DEF SendPut, TypeOK
    <2> QED BY <1>5, <1>0, <2>3 DEF SendPut, TypeOK
  <1>6. ASSUME NEW s \in Senders, SendPutDeleted(s)
        PROVE ReaderFinds'
    BY <1>6, <1>0 DEF SendPutDeleted, TypeOK
  <1>7. ASSUME NEW s \in Senders, SendPost(s)
        PROVE ReaderFinds'
    BY <1>7, <1>0 DEF SendPost, TypeOK
  <1>8. ASSUME NEW s \in Senders, SendPostDeleted(s)
        PROVE ReaderFinds'
    BY <1>8, <1>0 DEF SendPostDeleted, TypeOK
  <1>9. ASSUME NEW r \in Readers, RecvPend(r)
        PROVE ReaderFinds'
    BY <1>9, <1>0 DEF RecvPend, TypeOK
  <1>10. ASSUME NEW r \in Readers, RecvTimeout(r)
        PROVE ReaderFinds'
    BY <1>10, <1>0 DEF RecvTimeout, TypeOK
  <1>11. ASSUME NEW r \in Readers, RecvUnblocked(r)
        PROVE ReaderFinds'
    BY <1>11, <1>0 DEF RecvUnblocked, TypeOK
  <1>12. ASSUME NEW r \in Readers, RecvCheck(r)
        PROVE ReaderFinds'
    <2>1. r \in Threads /\ obj[r] \in Objects /\ queue[obj[r]] # <<>>
      <3>1. r \in Threads /\ obj[r] \in Objects /\ pc[r] = "check" /\ ~unblocked[obj[r]]
        BY <1>12 DEF RecvCheck
      <3> QED BY <3>1, <1>0, CheckedHasMessage
    <2> QED BY <1>12, <2>1 DEF RecvCheck, TypeOK
  <1>13. ASSUME NEW r \in Readers, RecvGet(r)
        PROVE ReaderFinds'
    <2>1. r \in Threads /\ obj[r] \in Objects /\ pc[r] = "get"
      BY <1>13 DEF RecvGet
    <2>2. \A t \in Threads : pc[t] = "get" /\ t # r => obj[t] # obj[r]
      BY <1>0, <2>1, ReaderFacts
    <2>3. \A o \in Objects : o # obj[r] => queue'[o] = queue[o]
      BY <1>13, <1>0 DEF RecvGet, TypeOK
    <2>4. \A t \in Threads : pc'[t] = "get" => t # r /\ pc[t] = "get" /\ obj'[t] = obj[t]
      BY <1>13, <1>0, <2>1 DEF RecvGet, TypeOK
    <2>5. ASSUME NEW t \in Threads, pc'[t] = "get" PROVE queue'[obj'[t]] # <<>>
      <3>1. obj[t] \in Objects /\ obj[t] # obj[r] /\ queue[obj[t]] # <<>> /\ obj'[t] = obj[t]
        BY <2>2, <2>4, <2>5, <1>0
      <3> QED BY <2>3, <3>1
    <2>6. fault' = fault
      BY <1>13 DEF RecvGet
    <2> QED BY <2>5, <2>6
  <1>14. ASSUME NEW r \in Readers, RecvNullPayload(r)
        PROVE ReaderFinds'
    BY <1>14, <1>0 DEF RecvNullPayload, TypeOK
  <1>15. ASSUME NEW r \in Readers, RecvCopy(r)
        PROVE ReaderFinds'
    BY <1>15, <1>0 DEF RecvCopy, TypeOK
  <1>16. ASSUME NEW r \in Readers, RecvFree(r)
        PROVE ReaderFinds'
    BY <1>16, <1>0 DEF RecvFree, TypeOK
  <1>17. ASSUME NEW r \in Readers, NEW reserved \in Endpoints \cup {AssignAny}, Create(r, reserved)
        PROVE ReaderFinds'
    <2>1. PICK p \in Objects : life[p] = "unused" /\ queue' = [queue EXCEPT ![p] = <<>>]
      BY <1>17 DEF Create
    <2>2. \A t \in Threads : obj[t] # p
      BY <1>0, <2>1, UnusedIsUnknown
    <2> QED BY <1>17, <2>1, <2>2 DEF Create, TypeOK
  <1>18. ASSUME NEW r \in Readers, NEW isTimed \in BOOLEAN, RecvBegin(r, isTimed)
        PROVE ReaderFinds'
    BY <1>18, <1>0 DEF RecvBegin, TypeOK
  <1>19. ASSUME NEW r \in Readers, NEW d \in Managers \cup {r}, DeleteSemaphore(d, r)
        PROVE ReaderFinds'
    BY <1>19, <1>0 DEF DeleteSemaphore, TypeOK
  <1>20. ASSUME NEW r \in Readers, NEW m \in Managers, Unblock(m, r)
        PROVE ReaderFinds'
    BY <1>20, <1>0 DEF Unblock, TypeOK
  <1>21. ASSUME NEW m \in Managers, UnblockPost(m)
        PROVE ReaderFinds'
    BY <1>21, <1>0 DEF UnblockPost, TypeOK
  <1>22. ASSUME NEW d \in Readers \cup Managers, DeleteDrain(d)
        PROVE ReaderFinds'
    <2>1. d \in Threads /\ obj[d] \in Objects /\ life[obj[d]] = "nosem"
      BY <1>22, <1>0, DeleterFacts DEF DeleteDrain, DeletePcs
    <2>2. \A t \in Threads : pc[t] = "get" => obj[t] # obj[d]
      BY <1>0, <2>1, ReaderFacts
    <2> QED BY <1>22, <2>1, <2>2 DEF DeleteDrain, TypeOK
  <1>23. ASSUME NEW d \in Readers \cup Managers, DeleteDiscard(d)
        PROVE ReaderFinds'
    BY <1>23, <1>0 DEF DeleteDiscard, TypeOK
  <1>24. ASSUME NEW d \in Readers \cup Managers, DeleteDrained(d)
        PROVE ReaderFinds'
    BY <1>24, <1>0 DEF DeleteDrained, TypeOK
  <1>25. ASSUME NEW d \in Readers \cup Managers, DeleteList(d)
        PROVE ReaderFinds'
    BY <1>25, <1>0 DEF DeleteList, TypeOK
  <1>26. ASSUME NEW d \in Readers \cup Managers, DeleteSlot(d)
        PROVE ReaderFinds'
    BY <1>26, <1>0 DEF DeleteSlot, TypeOK
  <1>27. ASSUME NEW d \in Readers \cup Managers, DeleteFree(d)
        PROVE ReaderFinds'
    BY <1>27, <1>0 DEF DeleteFree, TypeOK
  <1>28. CASE UNCHANGED vars
    BY <1>28, <1>0 DEF vars
  <1> HIDE DEF ReaderFinds, At, Goto, UseDeleted
  <1> QED
    BY <1>1, <1>2, <1>3, <1>4, <1>5, <1>6, <1>7, <1>8, <1>9, <1>10,
       <1>11, <1>12, <1>13, <1>14, <1>15, <1>16, <1>17, <1>18, <1>19, <1>20,
       <1>21, <1>22, <1>23, <1>24, <1>25, <1>26, <1>27, <1>28
    DEF Next, SendStep, RecvStep, RecvList, DeleteStep

\* The abort of MessageQCopy_recv on a NULL payload is never reached, for any
\* number of readers, senders, managers, endpoints and blocks.
THEOREM NullPayloadUnreachable == Spec => []NoNullPayload
  <1>1. Init => ReaderFinds
    BY DEF Init, ReaderFinds
  <1>2. ReaderFinds => NoNullPayload
    BY DEF ReaderFinds, NoNullPayload
  <1> QED BY <1>1, <1>2, ReaderFindsStep, Layer1Invariant, TokensAgree, PTL DEF Spec
-----------------------------------------------------------------------------
(* The refinement of Mailbox.                                              *)

\* What the mapping of RefinesMailbox makes of the state.
Letters(q) == [i \in DOMAIN q |-> content[q[i]]]
MailPhase == [o \in Objects |-> Phase(o)]
MailBox == [o \in Objects |-> Letters(queue[o])]
MailHand == [r \in Readers |-> IF pc[r] = "copy" THEN content[payload[r]] ELSE data[r]]

\* A message is on, or on its way to, the list of the endpoint it is sent to.
Addressed(b, o) == content[b] \in Message /\ content[b].dst = queueId[o]
WellAddressed ==
  /\ \A b \in Blocks, o \in Objects : Listed(b, o) => Addressed(b, o)
  /\ \A t \in Threads : pc[t] = "put" => Addressed(payload[t], obj[t])

\* The threads at l stay there with the block and the object they have.
StillAt(l) ==
  \A t \in Threads : /\ pc'[t] = l <=> pc[t] = l
                     /\ pc[t] = l => payload'[t] = payload[t] /\ obj'[t] = obj[t]

\* A step that concerns neither the messages nor who is told of them.
Quiet ==
  /\ UNCHANGED <<queueId, reader, life, queue, content, data>>
  /\ StillAt("copy") /\ StillAt("put")

\* A sequence of blocks, read as messages, grows at its end.
LEMMA LettersAppended ==
  ASSUME TypeOK, NEW q \in Seq(Blocks), NEW b \in Blocks
  PROVE  Letters(Append(q, b)) = Append(Letters(q), content[b])
  BY DEF Letters, TypeOK

\* A sequence of blocks, read as messages, loses its head.
LEMMA LettersTaken ==
  ASSUME TypeOK, NEW q \in Seq(Blocks), q # <<>>
  PROVE  /\ Letters(q) # <<>> /\ Letters(Tail(q)) = Tail(Letters(q))
         /\ Head(Letters(q)) = content[Head(q)]
  BY DEF Letters, TypeOK

\* Lists that stay, of blocks that stay as they are, read the same.
LEMMA SameLetters ==
  ASSUME TypeOK, TypeOK', UNCHANGED queue,
         \A b \in Blocks, o \in Objects : Listed(b, o) => content'[b] = content[b]
  PROVE  UNCHANGED MailBox
  <1> SUFFICES ASSUME NEW o \in Objects PROVE Letters(queue[o])' = Letters(queue[o])
    BY DEF MailBox
  <1>1. queue[o] \in Seq(Blocks) /\ queue'[o] = queue[o]
    BY DEF TypeOK
  <1>2. \A i \in DOMAIN queue[o] : queue[o][i] \in Blocks /\ content'[queue[o][i]] = content[queue[o][i]]
    BY <1>1 DEF Listed
  <1> QED BY <1>1, <1>2 DEF Letters

\* Readers that are not copying, or go on copying, have the same message in hand.
LEMMA SameHands ==
  ASSUME StillAt("copy"), UNCHANGED data,
         \A r \in Readers : pc[r] = "copy" => content'[payload[r]] = content[payload[r]]
  PROVE  UNCHANGED MailHand
  BY DEF StillAt, MailHand, Threads

\* Quiet steps change nothing of the mailboxes.
LEMMA QuietStutters ==
  ASSUME TypeOK, TypeOK', WellAddressed, Quiet
  PROVE  WellAddressed' /\ UNCHANGED <<queueId, reader, MailPhase, MailBox, MailHand>>
  <1>1. WellAddressed'
    BY DEF Quiet, StillAt, WellAddressed, Listed, Addressed
  <1>2. UNCHANGED MailPhase
    BY DEF Quiet, MailPhase, Phase
  <1>3. UNCHANGED MailBox
    BY SameLetters DEF Quiet
  <1>4. UNCHANGED MailHand
    BY SameHands DEF Quiet
  <1> QED BY <1>1, <1>2, <1>3, <1>4 DEF Quiet

\* The steps that a mailbox knows nothing of.
QuietStep ==
  \/ \E s \in Senders :
       \/ SendAlloc(s) \/ SendNoMemory(s) \/ SendPutDeleted(s)
       \/ SendPost(s) \/ SendPostDeleted(s)
       \/ \E m \in Message : SendLookup(s, m)
  \/ \E r \in Readers :
       \/ RecvPend(r) \/ RecvTimeout(r) \/ RecvUnblocked(r) \/ RecvCheck(r)
       \/ RecvNullPayload(r) \/ RecvFree(r)
       \/ \E isTimed \in BOOLEAN : RecvBegin(r, isTimed)
       \/ \E m \in Managers : Unblock(m, r)
  \/ \E m \in Managers : UnblockPost(m)
  \/ \E d \in Readers \cup Managers : DeleteDiscard(d) \/ DeleteDrained(d)
  \/ UNCHANGED vars

\* They are quiet.
LEMMA QuietSteps == Layer1 /\ QuietStep => Quiet
  <1> SUFFICES ASSUME Layer1, QuietStep PROVE Quiet
    OBVIOUS
  <1>0. TypeOK
    BY DEF Layer1
  <1> USE DEF Quiet, StillAt, Threads, At, Goto, endpointVars, dataVars, signalVars, localVars
  <1>1. ASSUME NEW s \in Senders, NEW m \in Message, SendLookup(s, m)
        PROVE Quiet
    BY <1>1, <1>0 DEF SendLookup, TypeOK
  <1>2. ASSUME NEW s \in Senders, SendAlloc(s)
        PROVE Quiet
    BY <1>2, <1>0 DEF SendAlloc, TypeOK
  <1>3. ASSUME NEW s \in Senders, SendNoMemory(s)
        PROVE Quiet
    BY <1>3, <1>0 DEF SendNoMemory, TypeOK
  <1>4. ASSUME NEW s \in Senders, SendPutDeleted(s)
        PROVE Quiet
    BY <1>4, <1>0 DEF SendPutDeleted, UseDeleted, TypeOK
  <1>5. ASSUME NEW s \in Senders, SendPost(s)
        PROVE Quiet
    BY <1>5, <1>0 DEF SendPost, TypeOK
  <1>6. ASSUME NEW s \in Senders, SendPostDeleted(s)
        PROVE Quiet
    BY <1>6, <1>0 DEF SendPostDeleted, UseDeleted, TypeOK
  <1>7. ASSUME NEW r \in Readers, RecvPend(r)
        PROVE Quiet
    BY <1>7, <1>0 DEF RecvPend, TypeOK
  <1>8. ASSUME NEW r \in Readers, RecvTimeout(r)
        PROVE Quiet
    BY <1>8, <1>0 DEF RecvTimeout, TypeOK
  <1>9. ASSUME NEW r \in Readers, RecvUnblocked(r)
        PROVE Quiet
    BY <1>9, <1>0 DEF RecvUnblocked, TypeOK
  <1>10. ASSUME NEW r \in Readers, RecvCheck(r)
        PROVE Quiet
    BY <1>10, <1>0 DEF RecvCheck, TypeOK
  <1>11. ASSUME NEW r \in Readers, RecvNullPayload(r)
        PROVE Quiet
    BY <1>11, <1>0 DEF RecvNullPayload, TypeOK
  <1>12. ASSUME NEW r \in Readers, RecvFree(r)
        PROVE Quiet
    BY <1>12, <1>0 DEF RecvFree, TypeOK
  <1>13. ASSUME NEW r \in Readers, NEW isTimed \in BOOLEAN, RecvBegin(r, isTimed)
        PROVE Quiet
    BY <1>13, <1>0 DEF RecvBegin, TypeOK
  <1>14. ASSUME NEW r \in Readers, NEW m \in Managers, Unblock(m, r)
        PROVE Quiet
    BY <1>14, <1>0 DEF Unblock, TypeOK
  <1>15. ASSUME NEW m \in Managers, UnblockPost(m)
        PROVE Quiet
    BY <1>15, <1>0 DEF UnblockPost, TypeOK
  <1>16. ASSUME NEW d \in Readers \cup Managers, DeleteDiscard(d)
        PROVE Quiet
    BY <1>16, <1>0 DEF DeleteDiscard, TypeOK
  <1>17. ASSUME NEW d \in Readers \cup Managers, DeleteDrained(d)
        PROVE Quiet
    BY <1>17, <1>0 DEF DeleteDrained, TypeOK
  <1>18. CASE UNCHANGED vars
    BY <1>18 DEF vars
  <1> HIDE DEF Quiet, At, Goto
  <1> QED
    BY <1>1, <1>2, <1>3, <1>4, <1>5, <1>6, <1>7, <1>8, <1>9, <1>10,
       <1>11, <1>12, <1>13, <1>14, <1>15, <1>16, <1>17, <1>18
    DEF QuietStep

\* A new object opens its mailbox, at a number where no other is in use.
LEMMA CreateOpens ==
  ASSUME Layer1, TypeOK', WellAddressed,
         NEW r \in Readers, NEW reserved \in Endpoints \cup {AssignAny}, Create(r, reserved)
  PROVE  WellAddressed' /\ \E o \in Objects, e \in Endpoints : MB!Open(o, e, r)
  <1>0. TypeOK /\ SlotsMatchObjects /\ \A p \in Objects : ObjectOK(p)
    BY DEF Layer1, ThreadsMatchObjects
  <1>1. PICK e \in Endpoints, o \in Objects :
          /\ msgqObjects[e] = NULL /\ life[o] = "unused"
          /\ life' = [life EXCEPT ![o] = "live"]
          /\ queueId' = [queueId EXCEPT ![o] = e]
          /\ reader' = [reader EXCEPT ![o] = r]
          /\ queue' = [queue EXCEPT ![o] = <<>>]
          /\ UNCHANGED <<heap, content, localVars, fault>>
    BY DEF Create, FreeSlots
  <1>2. queue[o] = <<>> /\ queue' = queue
    BY <1>0, <1>1 DEF ObjectOK, TypeOK
  <1>3. \A t \in Threads : obj[t] # o
    BY <1>1, UnusedIsUnknown
  <1>4. \A b \in Blocks : ~Listed(b, o)
    BY <1>2 DEF Listed
  <1>5. WellAddressed'
    BY <1>0, <1>1, <1>2, <1>3, <1>4 DEF WellAddressed, Addressed, Listed, TypeOK, localVars
  <1>6. \A p \in Objects : queueId[p] = e => Phase(p) \in {"unborn", "closed"}
    BY <1>0, <1>1, NullAssumption DEF SlotsMatchObjects, Slotted, Phase, TypeOK, Lives
  <1>7. Phase(o) = "unborn" /\ MailPhase' = [MailPhase EXCEPT ![o] = "open"]
    BY <1>0, <1>1 DEF MailPhase, Phase, TypeOK
  <1>8. UNCHANGED MailBox
    BY <1>0, <1>1, <1>2, SameLetters
  <1>9. UNCHANGED MailHand
    BY <1>1 DEF MailHand, localVars
  <1>10. MB!Open(o, e, r)
    BY <1>1, <1>6, <1>7, <1>8, <1>9 DEF MB!Open, MailPhase, MailBox, MailHand, Letters
  <1> QED BY <1>5, <1>10

\* A sender fills a block that is nobody else's: no message changes.
LEMMA FillStutters ==
  ASSUME Layer1, TypeOK', NoBlockShared, WellAddressed, NEW s \in Senders, SendFill(s)
  PROVE  WellAddressed' /\ UNCHANGED <<queueId, reader, MailPhase, MailBox, MailHand>>
  <1> DEFINE c == payload[s]
  <1>0. TypeOK /\ s \in Threads /\ ThreadOK(s)
    BY DEF Layer1, ThreadsMatchObjects, Threads
  <1>1. pc[s] = "fill" /\ c \in Blocks /\ Held(c, s) /\ msg[s] \in Message /\ msg[s].dst = queueId[obj[s]]
    BY <1>0, HoldTypes DEF SendFill, At, ThreadOK, Held, HoldsPayload
  <1>2. /\ content' = [content EXCEPT ![c] = msg[s]]
        /\ pc' = [pc EXCEPT ![s] = "put"]
        /\ UNCHANGED <<endpointVars, queue, payload, obj, data>>
    BY DEF SendFill, Goto
  <1> HIDE DEF c
  <1>3. content'[c] = msg[s] /\ \A b \in Blocks : b # c => content'[b] = content[b]
    BY <1>0, <1>1, <1>2 DEF TypeOK
  <1>4. /\ \A o \in Objects : ~Listed(c, o)
        /\ \A t \in Threads : t # s => payload[t] # c
    BY <1>0, <1>1 DEF NoBlockShared, Held
  <1>5. \A t \in Threads : /\ pc'[t] = "copy" <=> pc[t] = "copy"
                           /\ pc[t] = "copy" => t # s
                           /\ pc'[t] = "put" => t = s \/ (t # s /\ pc[t] = "put")
    BY <1>0, <1>1, <1>2 DEF TypeOK
  <1>6. WellAddressed'
    <2>1. ASSUME NEW b \in Blocks, NEW o \in Objects, Listed(b, o)' PROVE Addressed(b, o)'
      <3>1. Listed(b, o) /\ b # c
        BY <1>2, <1>4, <2>1 DEF Listed
      <3> QED BY <1>2, <1>3, <3>1 DEF WellAddressed, Addressed, endpointVars
    <2>2. ASSUME NEW t \in Threads, pc'[t] = "put" PROVE Addressed(payload[t], obj[t])'
      <3>1. CASE t = s
        BY <1>1, <1>2, <1>3, <3>1 DEF Addressed, endpointVars, c
      <3>2. CASE t # s
        <4>1. pc[t] = "put" /\ payload[t] \in Blocks /\ payload[t] # c
          BY <1>4, <1>5, <2>2, <3>2, HoldTypes DEF HoldsPayload
        <4> QED BY <1>2, <1>3, <4>1 DEF WellAddressed, Addressed, endpointVars
      <3> QED BY <3>1, <3>2
    <2> QED BY <2>1, <2>2 DEF WellAddressed
  <1>7. UNCHANGED MailPhase
    BY <1>2 DEF MailPhase, Phase, endpointVars
  <1>8. UNCHANGED MailBox
    BY <1>0, <1>2, <1>3, <1>4, SameLetters
  <1>9. UNCHANGED MailHand
    <2>1. StillAt("copy")
      BY <1>2, <1>5 DEF StillAt
    <2>2. \A r \in Readers : pc[r] = "copy" => payload[r] \in Blocks /\ payload[r] # c
      BY <1>4, <1>5, HoldTypes DEF HoldsPayload, Threads
    <2> QED BY <1>2, <1>3, <2>1, <2>2, SameHands
  <1> QED BY <1>2, <1>6, <1>7, <1>8, <1>9 DEF endpointVars

\* A message put on the list is accepted by the mailbox it is sent to.
LEMMA PutAccepts ==
  ASSUME Layer1, TypeOK', WellAddressed, NEW s \in Senders, SendPut(s)
  PROVE  WellAddressed' /\ \E o \in Objects, m \in Message : MB!Accept(o, m)
  <1>0. TypeOK /\ s \in Threads
    BY DEF Layer1, Threads
  <1>1. /\ pc[s] = "put" /\ payload[s] \in Blocks /\ obj[s] \in Objects
        /\ life[obj[s]] \in {"live", "nosem"}
    BY <1>0, HoldTypes DEF SendPut, At, HasList, HoldsPayload
  <1>2. PICK o \in Objects, c \in Blocks, m \in Message :
          o = obj[s] /\ c = payload[s] /\ m = content[c] /\ m.dst = queueId[o]
    BY <1>0, <1>1 DEF WellAddressed, Addressed
  <1>3. /\ queue' = [queue EXCEPT ![o] = Append(@, c)]
        /\ pc' = [pc EXCEPT ![s] = "post"]
        /\ payload' = [payload EXCEPT ![s] = NULL]
        /\ UNCHANGED <<endpointVars, content, data, obj>>
    BY <1>2 DEF SendPut, Goto
  <1>4. HandToList(s, o)
    BY <1>1, <1>2, <1>3, HoldTypes DEF HandToList, SendPut, HoldsPayload, At
  <1>5. WellAddressed'
    <2>1. ASSUME NEW b \in Blocks, NEW p \in Objects, Listed(b, p)' PROVE Addressed(b, p)'
      <3>1. Listed(b, p) \/ (b = c /\ p = o)
        BY <1>0, <1>2, <1>4, <2>1, HandToListPlaces
      <3> QED BY <1>2, <1>3, <3>1 DEF WellAddressed, Addressed, endpointVars
    <2>2. \A t \in Threads : pc'[t] = "put" => pc[t] = "put" /\ payload'[t] = payload[t]
      BY <1>0, <1>3 DEF TypeOK
    <2> QED BY <1>3, <2>1, <2>2 DEF WellAddressed, Addressed, endpointVars
  <1>6. UNCHANGED MailPhase /\ Phase(o) \in {"open", "closing"}
    BY <1>1, <1>2, <1>3 DEF MailPhase, Phase, endpointVars
  <1>7. MailBox' = [MailBox EXCEPT ![o] = Append(@, m)]
    <2>1. queue[o] \in Seq(Blocks)
      BY <1>0 DEF TypeOK
    <2>2. Letters(Append(queue[o], c)) = Append(Letters(queue[o]), m)
      BY <1>0, <1>2, <2>1, LettersAppended
    <2>3. \A p \in Objects : queue'[p] = IF p = o THEN Append(queue[o], c) ELSE queue[p]
      BY <1>0, <1>3 DEF TypeOK
    <2>4. MailBox' = [p \in Objects |-> Letters(queue'[p])]
      BY <1>3 DEF MailBox, Letters
    <2>5. MailBox' = [p \in Objects |-> IF p = o THEN Append(Letters(queue[o]), m) ELSE Letters(queue[p])]
      BY <2>2, <2>3, <2>4
    <2> QED BY <2>5 DEF MailBox
  <1>8. UNCHANGED MailHand
    <2>1. StillAt("copy")
      BY <1>0, <1>1, <1>3 DEF StillAt, TypeOK
    <2> QED BY <1>3, <2>1, SameHands
  <1>9. MB!Accept(o, m)
    BY <1>2, <1>3, <1>6, <1>7, <1>8
    DEF MB!Accept, MailPhase, MailBox, MailHand, Letters, endpointVars
  <1> QED BY <1>5, <1>9

\* What leaves a list is taken from the mailbox, oldest first; the block is on
\* no list any more.
LEMMA HeadLeaves ==
  ASSUME TypeOK, TypeOK', NoBlockShared, WellAddressed,
         NEW t \in Threads, NEW o \in Objects, ListToHand(t, o),
         UNCHANGED <<queueId, content>>, NEW l \in Pcs, l # "put", pc[t] # "put",
         pc' = [pc EXCEPT ![t] = l], UNCHANGED obj
  PROVE  /\ WellAddressed'
         /\ MailBox[o] # <<>> /\ MailBox' = [MailBox EXCEPT ![o] = Tail(@)]
         /\ content'[payload'[t]] = Head(MailBox[o])
         /\ \A u \in Threads : u # t => pc'[u] = pc[u] /\ payload'[u] = payload[u]
  <1>1. /\ queue[o] \in Seq(Blocks) /\ queue[o] # <<>>
        /\ queue' = [queue EXCEPT ![o] = Tail(@)]
        /\ payload' = [payload EXCEPT ![t] = Head(queue[o])]
    BY DEF ListToHand, TypeOK
  <1>2. \A u \in Threads : u # t => pc'[u] = pc[u] /\ payload'[u] = payload[u]
    BY <1>1 DEF TypeOK
  <1>3. pc'[t] # "put" /\ payload'[t] = Head(queue[o])
    BY <1>1 DEF TypeOK
  <1>4. \A b \in Blocks, p \in Objects : Listed(b, p)' => Listed(b, p)
    BY ListToHandPlaces
  <1>5. WellAddressed'
    BY <1>2, <1>3, <1>4 DEF WellAddressed, Addressed
  <1>6. /\ MailBox[o] # <<>> /\ Letters(Tail(queue[o])) = Tail(Letters(queue[o]))
        /\ Head(MailBox[o]) = content[Head(queue[o])]
    BY <1>1, LettersTaken DEF MailBox
  <1>7. MailBox' = [MailBox EXCEPT ![o] = Tail(@)]
    <2>1. \A p \in Objects : queue'[p] = IF p = o THEN Tail(queue[o]) ELSE queue[p]
      BY <1>1 DEF TypeOK
    <2>2. MailBox' = [p \in Objects |-> Letters(queue'[p])]
      BY DEF MailBox, Letters
    <2>3. MailBox' = [p \in Objects |-> IF p = o THEN Tail(Letters(queue[o])) ELSE Letters(queue[p])]
      BY <1>6, <2>1, <2>2
    <2> QED BY <2>3 DEF MailBox
  <1> QED BY <1>2, <1>3, <1>5, <1>6, <1>7

\* The reader takes the oldest message of its own mailbox.
LEMMA GetTakes ==
  ASSUME Layer1, TypeOK', NoBlockShared, WellAddressed, NEW r \in Readers, RecvGet(r)
  PROVE  WellAddressed' /\ \E o \in Objects : MB!Take(o)
  <1>0. TypeOK /\ r \in Threads /\ ThreadOK(r) /\ HandleOK(r)
    BY DEF Layer1, ThreadsMatchObjects, Threads
  <1>1. pc[r] = "get" /\ obj[r] \in Objects
    BY <1>0, HoldTypes DEF RecvGet, At
  <1>2. life[obj[r]] = "live" /\ reader[obj[r]] = r
    BY <1>0, <1>1, NullAssumption DEF ThreadOK, HandleOK, RecvPcs
  <1>3. PICK o \in Objects : o = obj[r]
    BY <1>1
  <1>4. ListToHand(r, o)
    BY <1>0, <1>1, <1>3 DEF RecvGet, ListToHand, ThreadOK, HoldsPayload, dataVars
  <1>5. /\ pc' = [pc EXCEPT ![r] = "copy"]
        /\ UNCHANGED <<endpointVars, content, obj, data>>
    BY DEF RecvGet, Goto
  <1>6. /\ WellAddressed'
        /\ MailBox[o] # <<>> /\ MailBox' = [MailBox EXCEPT ![o] = Tail(@)]
        /\ content'[payload'[r]] = Head(MailBox[o])
        /\ \A u \in Threads : u # r => pc'[u] = pc[u] /\ payload'[u] = payload[u]
    BY <1>0, <1>1, <1>4, <1>5, HeadLeaves DEF Pcs, RecvPcs, endpointVars
  <1>7. UNCHANGED MailPhase /\ Phase(o) = "open"
    BY <1>2, <1>3, <1>5 DEF MailPhase, Phase, endpointVars
  <1>8. MailHand' = [MailHand EXCEPT ![r] = Head(MailBox[o])]
    <2>1. pc'[r] = "copy"
      BY <1>0, <1>5 DEF TypeOK
    <2> QED BY <1>5, <1>6, <2>1 DEF MailHand, Threads
  <1>9. MB!Take(o)
    BY <1>2, <1>3, <1>5, <1>6, <1>7, <1>8
    DEF MB!Take, MailPhase, MailBox, MailHand, Letters, endpointVars
  <1> QED BY <1>6, <1>9

\* The message taken is the one that is copied out.
LEMMA CopyStutters ==
  ASSUME Layer1, TypeOK', WellAddressed, NEW r \in Readers, RecvCopy(r)
  PROVE  WellAddressed' /\ UNCHANGED <<queueId, reader, MailPhase, MailBox, MailHand>>
  <1>0. TypeOK /\ r \in Threads
    BY DEF Layer1, Threads
  <1>1. /\ pc[r] = "copy" /\ pc' = [pc EXCEPT ![r] = "free"]
        /\ data' = [data EXCEPT ![r] = content[payload[r]]]
        /\ UNCHANGED <<endpointVars, content, queue, obj, payload>>
    BY DEF RecvCopy, At, Goto, dataVars
  <1>2. WellAddressed'
    BY <1>0, <1>1 DEF WellAddressed, Listed, Addressed, TypeOK, endpointVars
  <1>3. UNCHANGED MailHand
    BY <1>0, <1>1 DEF MailHand, TypeOK, Threads
  <1> QED BY <1>0, <1>1, <1>2, <1>3 DEF MailPhase, MailBox, Letters, Phase, endpointVars

\* Deleting an object begins with the closing of its mailbox.
LEMMA DeleteBeginsClose ==
  ASSUME Layer1, TypeOK', WellAddressed,
         NEW r \in Readers, NEW d \in Managers \cup {r}, DeleteSemaphore(d, r)
  PROVE  WellAddressed' /\ \E o \in Objects : MB!BeginClose(o)
  <1>0. TypeOK /\ d \in Threads
    BY DEF Layer1, Threads
  <1>1. PICK o \in Objects : o = handle[r]
    BY <1>0 DEF DeleteSemaphore, TypeOK
  <1>2. /\ pc[d] \in {"idle", "shut"} /\ pc' = [pc EXCEPT ![d] = "drain"]
        /\ life[o] = "live" /\ life' = [life EXCEPT ![o] = "nosem"]
        /\ obj' = [obj EXCEPT ![d] = o]
        /\ UNCHANGED <<queueId, reader, content, queue, payload, data>>
    BY <1>1 DEF DeleteSemaphore, Goto, dataVars
  <1>3. StillAt("copy") /\ StillAt("put")
    BY <1>0, <1>2 DEF StillAt, TypeOK
  <1>4. WellAddressed'
    BY <1>2, <1>3 DEF WellAddressed, Listed, Addressed, StillAt
  <1>5. Phase(o) = "open" /\ MailPhase' = [MailPhase EXCEPT ![o] = "closing"]
    BY <1>0, <1>2 DEF MailPhase, Phase, TypeOK
  <1>6. UNCHANGED MailBox /\ UNCHANGED MailHand
    BY <1>2, <1>3, SameHands DEF MailBox, Letters
  <1>7. MB!BeginClose(o)
    BY <1>2, <1>5, <1>6 DEF MB!BeginClose, MailPhase, MailBox, MailHand, Letters
  <1> QED BY <1>4, <1>7

\* What is drained is discarded.
LEMMA DrainDiscards ==
  ASSUME Layer1, TypeOK', NoBlockShared, WellAddressed,
         NEW d \in Readers \cup Managers, DeleteDrain(d)
  PROVE  WellAddressed' /\ \E o \in Objects : MB!Discard(o)
  <1>0. TypeOK /\ d \in Threads /\ ThreadOK(d)
    BY DEF Layer1, ThreadsMatchObjects, Threads
  <1>1. pc[d] = "drain" /\ obj[d] \in Objects /\ life[obj[d]] = "nosem"
    BY <1>0, DeleterFacts DEF DeleteDrain, At, DeletePcs
  <1>2. PICK o \in Objects : o = obj[d]
    BY <1>1
  <1>3. ListToHand(d, o)
    BY <1>0, <1>1, <1>2 DEF DeleteDrain, ListToHand, ThreadOK, HoldsPayload, dataVars
  <1>4. /\ pc' = [pc EXCEPT ![d] = "discard"]
        /\ UNCHANGED <<endpointVars, content, obj, data>>
    BY DEF DeleteDrain, Goto
  <1>5. /\ WellAddressed'
        /\ MailBox[o] # <<>> /\ MailBox' = [MailBox EXCEPT ![o] = Tail(@)]
        /\ \A u \in Threads : u # d => pc'[u] = pc[u] /\ payload'[u] = payload[u]
    BY <1>0, <1>1, <1>3, <1>4, HeadLeaves DEF Pcs, DeletePcs, endpointVars
  <1>6. UNCHANGED MailPhase /\ Phase(o) = "closing"
    BY <1>1, <1>2, <1>4 DEF MailPhase, Phase, endpointVars
  <1>7. UNCHANGED MailHand
    <2>1. StillAt("copy")
      BY <1>0, <1>1, <1>4, <1>5 DEF StillAt, TypeOK
    <2> QED BY <1>4, <2>1, SameHands
  <1>8. MB!Discard(o)
    BY <1>4, <1>5, <1>6, <1>7
    DEF MB!Discard, MailPhase, MailBox, MailHand, Letters, endpointVars
  <1> QED BY <1>5, <1>8

\* A mailbox is closed when the slot is cleared; what goes before and after in
\* the deletion is its own affair.
LEMMA DeleteEnds ==
  ASSUME Layer1, TypeOK', WellAddressed,
         NEW d \in Readers \cup Managers, DeleteList(d) \/ DeleteSlot(d) \/ DeleteFree(d)
  PROVE  /\ WellAddressed'
         /\ \/ \E o \in Objects : MB!Close(o)
            \/ UNCHANGED <<queueId, reader, MailPhase, MailBox, MailHand>>
  <1>0. TypeOK /\ d \in Threads
    BY DEF Layer1, Threads
  <1>1. /\ pc[d] \in {"dellist", "nullslot", "memfree"} /\ obj[d] \in Objects
        /\ DeleteList(d) => life[obj[d]] = "nosem"
        /\ DeleteSlot(d) => life[obj[d]] = "nolist"
        /\ DeleteFree(d) => life[obj[d]] = "noslot"
    BY <1>0, DeleterFacts DEF DeleteList, DeleteSlot, DeleteFree, At, DeletePcs
  <1>2. PICK o \in Objects : o = obj[d]
    BY <1>1
  <1>3. /\ UNCHANGED <<queueId, reader, content, queue, payload, data>>
        /\ \A t \in Threads : t # d => obj'[t] = obj[t]
    BY <1>0 DEF DeleteList, DeleteSlot, DeleteFree, TypeOK, dataVars
  <1>4. StillAt("copy") /\ StillAt("put")
    <2>1. \A t \in Threads : \/ pc'[t] = pc[t] /\ t # d
                             \/ /\ pc[t] \in {"dellist", "nullslot", "memfree", "shut"}
                                /\ pc'[t] \in {"nullslot", "memfree", "idle"}
      <3>0. pc \in [Threads -> Pcs]
        BY <1>0 DEF TypeOK
      <3>1. CASE DeleteList(d)
        BY <1>0, <1>1, <3>0, <3>1 DEF DeleteList, Goto
      <3>2. CASE DeleteSlot(d)
        BY <1>0, <1>1, <3>0, <3>2 DEF DeleteSlot, Goto
      <3>3. CASE DeleteFree(d)
        BY <1>0, <1>1, <3>0, <3>3 DEF DeleteFree
      <3> QED BY <3>1, <3>2, <3>3
    <2> QED BY <1>3, <2>1 DEF StillAt
  <1>5. WellAddressed'
    BY <1>3, <1>4 DEF WellAddressed, Listed, Addressed, StillAt
  <1>6. UNCHANGED MailBox /\ UNCHANGED MailHand
    BY <1>3, <1>4, SameHands DEF MailBox, Letters
  <1>7. CASE DeleteSlot(d)
    <2>1. Phase(o) = "closing" /\ MailPhase' = [MailPhase EXCEPT ![o] = "closed"]
      BY <1>0, <1>1, <1>2, <1>7 DEF DeleteSlot, MailPhase, Phase, TypeOK
    <2>2. MB!Close(o)
      BY <1>3, <1>6, <2>1 DEF MB!Close, MailPhase, MailBox, MailHand, Letters
    <2> QED BY <1>5, <2>2
  <1>8. CASE DeleteList(d) \/ DeleteFree(d)
    <2>1. UNCHANGED MailPhase
      BY <1>0, <1>1, <1>2, <1>8 DEF DeleteList, DeleteFree, MailPhase, Phase, TypeOK
    <2> QED BY <1>3, <1>5, <1>6, <2>1
  <1> QED BY <1>7, <1>8

\* Every step is a step of the mailboxes, or none.
LEMMA MailboxStep ==
  Layer1 /\ TypeOK' /\ NoBlockShared /\ WellAddressed /\ [Next]_vars
    => WellAddressed' /\ [MB!Next]_<<queueId, reader, MailPhase, MailBox, MailHand>>
  <1> SUFFICES ASSUME Layer1, TypeOK', NoBlockShared, WellAddressed, [Next]_vars
               PROVE  WellAddressed' /\ [MB!Next]_<<queueId, reader, MailPhase, MailBox, MailHand>>
    OBVIOUS
  <1> DEFINE Opens == \E o \in Objects, e \in Endpoints, r \in Readers : MB!Open(o, e, r)
             Accepts == \E o \in Objects, m \in Message : MB!Accept(o, m)
             Others == \E o \in Objects : MB!Take(o) \/ MB!BeginClose(o) \/ MB!Discard(o) \/ MB!Close(o)
             Stutters == UNCHANGED <<queueId, reader, MailPhase, MailBox, MailHand>>
             Shown == WellAddressed' /\ (Opens \/ Accepts \/ Others \/ Stutters)
  <1>1. ASSUME QuietStep PROVE Shown
    BY <1>1, QuietSteps, QuietStutters DEF Layer1
  <1>2. ASSUME NEW s \in Senders, SendFill(s) PROVE Shown
    BY <1>2, FillStutters
  <1>3. ASSUME NEW s \in Senders, SendPut(s) PROVE Shown
    BY <1>3, PutAccepts
  <1>4. ASSUME NEW r \in Readers, RecvGet(r) PROVE Shown
    BY <1>4, GetTakes
  <1>5. ASSUME NEW r \in Readers, RecvCopy(r) PROVE Shown
    BY <1>5, CopyStutters
  <1>6. ASSUME NEW r \in Readers, NEW reserved \in Endpoints \cup {AssignAny}, Create(r, reserved)
        PROVE Shown
    BY <1>6, CreateOpens
  <1>7. ASSUME NEW r \in Readers, NEW d \in Managers \cup {r}, DeleteSemaphore(d, r) PROVE Shown
    BY <1>7, DeleteBeginsClose
  <1>8. ASSUME NEW d \in Readers \cup Managers, DeleteDrain(d) PROVE Shown
    BY <1>8, DrainDiscards
  <1>9. ASSUME NEW d \in Readers \cup Managers, DeleteList(d) \/ DeleteSlot(d) \/ DeleteFree(d)
        PROVE Shown
    BY <1>9, DeleteEnds
  <1> HIDE DEF Shown
  <1>10. Shown
    BY <1>1, <1>2, <1>3, <1>4, <1>5, <1>6, <1>7, <1>8, <1>9
    DEF Next, SendStep, RecvStep, RecvList, DeleteStep, QuietStep
  <1>11. Opens \/ Accepts \/ Others => MB!Next
    BY DEF MB!Next, MB!Message, Message
  <1> QED BY <1>10, <1>11 DEF Shown

\* Endpoints behave as mailboxes, whatever the interleaving of creates, sends,
\* receives and deletes: what MessageQCopy_send accepts for a number is received
\* by the reader of that number, unaltered, once and in order, unless the
\* endpoint is being deleted.
THEOREM EndpointsImplementMailboxes == Spec => RefinesMailbox
  <1>1. Init => MB!Init /\ WellAddressed
    <2> SUFFICES ASSUME Init PROVE MB!Init /\ WellAddressed
      OBVIOUS
    <2>1. MailPhase = [o \in Objects |-> "unborn"]
      BY DEF Init, MailPhase, Phase
    <2>2. MailBox = [o \in Objects |-> <<>>]
      BY DEF Init, MailBox, Letters
    <2>3. MailHand = [r \in Readers |-> NULL]
      BY DEF Init, MailHand, Threads
    <2>4. WellAddressed
      BY DEF Init, WellAddressed, Listed
    <2> QED BY <2>1, <2>2, <2>3, <2>4 DEF Init, MB!Init, MailPhase, MailBox, MailHand, Letters
  <1>2. Spec => [](Layer1 /\ TypeOK /\ NoBlockShared)
    BY Layer1Invariant, BlocksNotShared, PTL DEF Layer1
  <1>3. Layer1 /\ TypeOK' /\ NoBlockShared /\ WellAddressed /\ [Next]_vars
          => WellAddressed' /\ [MB!Next]_MB!mailboxVars
    BY MailboxStep DEF MB!mailboxVars, MailPhase, MailBox, MailHand, Letters
  <1> QED BY <1>1, <1>2, <1>3, PTL DEF Spec, RefinesMailbox, MB!Spec
=============================================================================
