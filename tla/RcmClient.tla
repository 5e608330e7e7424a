------------------------------ MODULE RcmClient ------------------------------
(***************************************************************************)
(* One client of an RCM server used by several threads.  All replies come  *)
(* to one queue; each thread wants the one with its message's number.      *)
(* Whoever gets the queue lock is the mailman: it takes messages from the  *)
(* queue, gives those of waiting threads to them, puts the others in the   *)
(* list of new mail, and leaves the job to a waiting thread when its own   *)
(* message comes.                                                          *)
(*                                                                         *)
(* The lists and the queue lock are touched only between the pend and the  *)
(* post of mbxLock, so such a section is one step, unless it takes         *)
(* messages from the queue, to which the server adds meanwhile.  The queue *)
(* service and the server are external: a reply comes in any order, and no *)
(* get fails (nobody unblocks the queue).                                  *)
(***************************************************************************)
EXTENDS Naturals, Sequences, SequencesExt, FiniteSetsExt

CONSTANTS
  Threads,
  MaxMsgId,    \* 0xFFFF
  MaxUnawaited, \* bound: messages of execNoWait nobody has asked for yet, and
                \* of execCmd at the server or in the error queue
  None

ASSUME ConstantsAssumption ==
  /\ MaxMsgId \in Nat /\ MaxMsgId > 1
  /\ MaxUnawaited \in Nat
  /\ None \notin 1..MaxMsgId /\ None \notin Threads
  /\ None \notin {"exec", "noWait", "cmd"}

VARIABLES
  msgId,      \* the number given to a message last
  mbxLock,    \* whether the semaphore is free
  queueLock,
  server,     \* messages the server has to answer
  msgQue,     \* replies
  errorMsgQue,
  newMail,    \* replies whose recipient has not come
  recipients, \* threads on the waiting list
  mail,       \* msg of a thread's entry in that list
  event,      \* whether its event was posted; a second post changes nothing,
              \* for the event goes away with the entry
  pc,         \* where each thread is
  call,       \* the kind of function it sends its message with
  want,       \* the number of its message
  hand,       \* the message it took from the queue, as a mailman
  pending     \* its execNoWait messages

vars == <<msgId, mbxLock, queueLock, server, msgQue, errorMsgQue, newMail,
          recipients, mail, event, pc, call, want, hand, pending>>
mailVars == <<mbxLock, queueLock, newMail, recipients, mail, event, hand>>

MsgIds == 1..MaxMsgId
Calls == {None, "exec", "noWait", "cmd"}
\* Number of the message and queue the answer is to go to.
Messages == [id : MsgIds, replyTo : {"msgQue", "errorMsgQue"}]

Goto(t, l) == pc' = [pc EXCEPT ![t] = l]

\* The thread leaves the function.
Return(t) == Goto(t, "idle") /\ want' = [want EXCEPT ![t] = None]

Init ==
  /\ msgId = MaxMsgId
  /\ mbxLock = TRUE /\ queueLock = TRUE
  /\ server = {} /\ msgQue = <<>> /\ errorMsgQue = <<>>
  /\ newMail = <<>> /\ recipients = <<>>
  /\ mail = [t \in Threads |-> None]
  /\ event = [t \in Threads |-> FALSE]
  /\ pc = [t \in Threads |-> "idle"]
  /\ call = [t \in Threads |-> None]
  /\ want = [t \in Threads |-> None]
  /\ hand = [t \in Threads |-> None]
  /\ pending = [t \in Threads |-> {}]

-----------------------------------------------------------------------------
(* Sending. *)

\* Mutant: the counter does not start again.
genMsgIdNoWrap == msgId + 1

genMsgId == IF msgId = MaxMsgId THEN 1 ELSE msgId + 1

InUse == {want[t] : t \in Threads} \cup UNION {pending[t] : t \in Threads}

Unawaited ==
  Cardinality(UNION {pending[t] : t \in Threads})
    + Cardinality({m \in server : m.replyTo = "errorMsgQue"}) + Len(errorMsgQue)
    + Cardinality({t \in Threads : call[t] \in {"noWait", "cmd"}})

(* Bound: the numbers start again after 65535 messages; a message is not  *)
(* left without its answer or unclaimed for as long as that.               *)
NumberIsFree == genMsgId \notin InUse \cup {m.id : m \in server}

\* A thread takes a message for a call.  Nothing changes if there is none.
alloc(t, c) ==
  /\ pc[t] = "idle"
  /\ NumberIsFree
  /\ msgId' = genMsgId
  /\ want' = [want EXCEPT ![t] = genMsgId]
  /\ call' = [call EXCEPT ![t] = c]
  /\ Goto(t, "put")
  /\ UNCHANGED <<mailVars, server, msgQue, errorMsgQue, pending>>

(* exec and execDpc return the reply to their caller; the three queries    *)
(* read it and free it.                                                    *)
exec(t) == alloc(t, "exec")
execDpc(t) == alloc(t, "exec")
getSymbolIndex(t) == alloc(t, "exec")
acquireJobId(t) == alloc(t, "exec")
releaseJobId(t) == alloc(t, "exec")
execNoWait(t) == Unawaited < MaxUnawaited /\ alloc(t, "noWait")
execCmd(t) == Unawaited < MaxUnawaited /\ alloc(t, "cmd")

Put(t) ==
  /\ pc[t] = "put"
  /\ server' = server \cup
       {[id |-> want[t],
         replyTo |-> IF call[t] = "cmd" THEN "errorMsgQue" ELSE "msgQue"]}
  /\ call' = [call EXCEPT ![t] = None]
  /\ IF call[t] = "exec"
       THEN Goto(t, "mbx") /\ UNCHANGED <<want, pending>>
       ELSE /\ Return(t)
            /\ pending' = IF call[t] = "noWait"
                            THEN [pending EXCEPT ![t] = @ \cup {want[t]}]
                            ELSE pending
  /\ UNCHANGED <<mailVars, msgId, msgQue, errorMsgQue>>

\* The call returns an error and nothing was sent.
PutFails(t) ==
  /\ pc[t] = "put"
  /\ call' = [call EXCEPT ![t] = None]
  /\ Return(t)
  /\ UNCHANGED <<mailVars, msgId, server, msgQue, errorMsgQue, pending>>

waitUntilDone(t) ==
  /\ pc[t] = "idle"
  /\ \E i \in pending[t] :
       /\ want' = [want EXCEPT ![t] = i]
       /\ pending' = [pending EXCEPT ![t] = @ \ {i}]
  /\ Goto(t, "mbx")
  /\ UNCHANGED <<mailVars, msgId, server, msgQue, errorMsgQue, call>>

\* Looks for the answer of a failed command and takes it.
checkForError(t) ==
  /\ pc[t] = "idle"
  /\ errorMsgQue # <<>>
  /\ errorMsgQue' = Tail(errorMsgQue)
  /\ UNCHANGED <<mailVars, msgId, server, msgQue, pc, call, want, pending>>

(* The server answers its messages in any order; a command is answered     *)
(* only when it failed.                                                    *)
Answer ==
  \E m \in server :
    /\ server' = server \ {m}
    /\ IF m.replyTo = "msgQue"
         THEN msgQue' = Append(msgQue, m.id) /\ UNCHANGED errorMsgQue
         ELSE /\ errorMsgQue' \in {errorMsgQue, Append(errorMsgQue, m.id)}
              /\ UNCHANGED msgQue
    /\ UNCHANGED <<mailVars, msgId, pc, call, want, pending>>

-----------------------------------------------------------------------------
(* getReturnMsg: the thread wants the reply with the number want[t]. *)

rest == <<msgId, server, errorMsgQue, call, pending>>

\* Its reply is in the list of new mail.
TakeNewMail(t) ==
  /\ pc[t] = "mbx" /\ mbxLock
  /\ Contains(newMail, want[t])
  /\ newMail' = RemoveFirst(newMail, want[t])
  /\ Return(t)
  /\ UNCHANGED <<rest, mbxLock, queueLock, msgQue, recipients, mail, event, hand>>

\* It is not, and nobody empties the queue: the thread becomes the mailman.
BecomeMailman(t) ==
  /\ pc[t] = "mbx" /\ mbxLock
  /\ ~Contains(newMail, want[t])
  /\ queueLock
  /\ mbxLock' = FALSE /\ queueLock' = FALSE
  /\ Goto(t, "sort")
  /\ UNCHANGED <<rest, msgQue, newMail, recipients, mail, event, want, hand>>

\* There is a mailman: the thread puts itself on the waiting list.
BecomeRecipient(t) ==
  /\ pc[t] = "mbx" /\ mbxLock
  /\ ~Contains(newMail, want[t])
  /\ ~queueLock
  /\ recipients' = Append(recipients, t)
  /\ mail' = [mail EXCEPT ![t] = None]
  /\ event' = [event EXCEPT ![t] = FALSE]
  /\ Goto(t, "wait")
  /\ UNCHANGED <<rest, mbxLock, queueLock, msgQue, newMail, want, hand>>

(* The event was posted: the thread leaves the list, with its reply or, if *)
(* it was woken to be the mailman, to try again.                           *)
WakeUp(t) ==
  /\ pc[t] = "wait" /\ event[t] /\ mbxLock
  /\ recipients' = RemoveFirst(recipients, t)
  /\ mail' = [mail EXCEPT ![t] = None]
  /\ event' = [event EXCEPT ![t] = FALSE]
  /\ IF mail[t] # None THEN Return(t) ELSE Goto(t, "mbx") /\ UNCHANGED want
  /\ UNCHANGED <<rest, mbxLock, queueLock, msgQue, newMail, hand>>

\* The mailman takes the next message without waiting.
GetNext(t) ==
  /\ pc[t] = "sort" /\ hand[t] = None
  /\ msgQue # <<>>
  /\ hand' = [hand EXCEPT ![t] = Head(msgQue)]
  /\ msgQue' = Tail(msgQue)
  /\ UNCHANGED <<rest, mbxLock, queueLock, newMail, recipients, mail, event, pc, want>>

\* There is none: it releases the mailbox before it waits for one.
QueueEmpty(t) ==
  /\ pc[t] = "sort" /\ hand[t] = None
  /\ msgQue = <<>>
  /\ mbxLock' = TRUE
  /\ Goto(t, "block")
  /\ UNCHANGED <<rest, queueLock, msgQue, newMail, recipients, mail, event, want, hand>>

GetBlocking(t) ==
  /\ pc[t] = "block"
  /\ msgQue # <<>>
  /\ hand' = [hand EXCEPT ![t] = Head(msgQue)]
  /\ msgQue' = Tail(msgQue)
  /\ Goto(t, "relock")
  /\ UNCHANGED <<rest, mbxLock, queueLock, newMail, recipients, mail, event, want>>

Relock(t) ==
  /\ pc[t] = "relock" /\ mbxLock
  /\ mbxLock' = FALSE
  /\ Goto(t, "sort")
  /\ UNCHANGED <<rest, queueLock, msgQue, newMail, recipients, mail, event, want, hand>>

\* Place in the list of the first thread that was not given its reply, or 0.
FirstUnserved == SelectInSeq(recipients, LAMBDA u : mail[u] = None)

\* Mutant: the first thread of the list is woken, served or not.
OwnMessageWakesFirst(t) ==
  /\ pc[t] = "sort" /\ hand[t] = want[t]
  /\ event' = IF recipients = <<>> THEN event
                                   ELSE [event EXCEPT ![Head(recipients)] = TRUE]
  /\ mbxLock' = TRUE /\ queueLock' = TRUE
  /\ hand' = [hand EXCEPT ![t] = None]
  /\ Return(t)
  /\ UNCHANGED <<rest, msgQue, newMail, recipients, mail>>

(* The message is the mailman's own: it wakes the first unserved thread to *)
(* be the mailman after it.                                                *)
OwnMessage(t) ==
  /\ pc[t] = "sort" /\ hand[t] = want[t]
  /\ event' = IF FirstUnserved = 0
                THEN event
                ELSE [event EXCEPT ![recipients[FirstUnserved]] = TRUE]
  /\ mbxLock' = TRUE /\ queueLock' = TRUE
  /\ hand' = [hand EXCEPT ![t] = None]
  /\ Return(t)
  /\ UNCHANGED <<rest, msgQue, newMail, recipients, mail>>

\* Mutant: a message nobody waits for is dropped.
DeliverToWaiting(t) ==
  /\ pc[t] = "sort" /\ hand[t] \notin {None, want[t]}
  /\ LET owner == {u \in ToSet(recipients) : want[u] = hand[t]}
     IN IF owner = {}
          THEN UNCHANGED <<newMail, mail, event>>
          ELSE \E u \in owner :
                 /\ mail' = [mail EXCEPT ![u] = hand[t]]
                 /\ event' = [event EXCEPT ![u] = TRUE]
                 /\ UNCHANGED newMail
  /\ hand' = [hand EXCEPT ![t] = None]
  /\ UNCHANGED <<rest, mbxLock, queueLock, msgQue, recipients, pc, want>>

\* The thread that waits for a message gets it; else it is new mail.
Deliver(t) ==
  /\ pc[t] = "sort" /\ hand[t] \notin {None, want[t]}
  /\ LET owner == {u \in ToSet(recipients) : want[u] = hand[t]}
     IN IF owner = {}
          THEN newMail' = Append(newMail, hand[t]) /\ UNCHANGED <<mail, event>>
          ELSE \E u \in owner :
                 /\ mail' = [mail EXCEPT ![u] = hand[t]]
                 /\ event' = [event EXCEPT ![u] = TRUE]
                 /\ UNCHANGED newMail
  /\ hand' = [hand EXCEPT ![t] = None]
  /\ UNCHANGED <<rest, mbxLock, queueLock, msgQue, recipients, pc, want>>

-----------------------------------------------------------------------------
LockMailbox(t) ==
  TakeNewMail(t) \/ BecomeMailman(t) \/ BecomeRecipient(t) \/ WakeUp(t) \/ Relock(t)

Sort(t) ==
  GetNext(t) \/ QueueEmpty(t) \/ GetBlocking(t) \/ OwnMessage(t) \/ Deliver(t)

Send(t) ==
  \/ exec(t) \/ execDpc(t) \/ getSymbolIndex(t) \/ acquireJobId(t) \/ releaseJobId(t)
  \/ execNoWait(t) \/ execCmd(t)
  \/ Put(t) \/ PutFails(t) \/ waitUntilDone(t) \/ checkForError(t)

Next == Answer \/ \E t \in Threads : Send(t) \/ LockMailbox(t) \/ Sort(t)

Spec == Init /\ [][Next]_vars

(* A thread executes the code it is in; the semaphore serves its waiters   *)
(* in order, so that one of them is not passed by for ever.  Nobody has to *)
(* call, and the server need not answer.                                   *)
FairSpec ==
  Spec /\ \A t \in Threads : SF_vars(LockMailbox(t)) /\ WF_vars(Sort(t))

-----------------------------------------------------------------------------
TypeOK ==
  /\ msgId \in MsgIds
  /\ mbxLock \in BOOLEAN /\ queueLock \in BOOLEAN
  /\ server \subseteq Messages
  /\ msgQue \in Seq(MsgIds) /\ errorMsgQue \in Seq(MsgIds) /\ newMail \in Seq(MsgIds)
  /\ recipients \in Seq(Threads)
  /\ mail \in [Threads -> MsgIds \cup {None}]
  /\ event \in [Threads -> BOOLEAN]
  /\ pc \in [Threads -> {"idle", "put", "mbx", "sort", "block", "relock", "wait"}]
  /\ call \in [Threads -> Calls]
  /\ want \in [Threads -> MsgIds \cup {None}]
  /\ hand \in [Threads -> MsgIds \cup {None}]
  /\ pending \in [Threads -> SUBSET MsgIds]

(* Whenever nobody empties the queue, a thread that waits without a reply  *)
(* has a successor to the mailman: one that was woken for that and was not *)
(* given its reply since, or one that has yet to look for its reply and    *)
(* will not find it.  The last mailman's choice must not have been made    *)
(* void by what happened before that thread ran.                           *)
MailmanFollows ==
  (queueLock /\ \E t \in Threads : pc[t] = "wait" /\ mail[t] = None)
    => \E u \in Threads :
         \/ pc[u] = "wait" /\ event[u] /\ mail[u] = None
         \/ pc[u] = "mbx" /\ ~Contains(newMail, want[u])

(* Every caller gets the reply to its own message, each reply is collected *)
(* once, none is dropped on its way through hand, list and new mail, and a *)
(* caller whose reply has arrived is not left waiting whatever the others  *)
(* do: getReturnMsg implements the abstract reply box.                     *)
Asking(t) == pc[t] \in {"mbx", "sort", "block", "relock", "wait"}

Asked == [t \in Threads |-> IF Asking(t) THEN want[t] ELSE None]
Arrived ==
  (ToSet(msgQue) \cup ToSet(newMail) \cup {hand[t] : t \in Threads}
    \cup {mail[t] : t \in Threads}) \ {None}

Box == INSTANCE ReplyBox WITH
  Replies <- MsgIds, NoReply <- None, asked <- Asked, arrived <- Arrived

ImplementsReplyBox == Box!FairSpec
=============================================================================
