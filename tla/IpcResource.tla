------------------------------ MODULE IpcResource -----------------------------
(***************************************************************************)
(* The client of the host's resource manager: tasks share one connection,  *)
(* whose semaphore admits one of them at a time to send a request and wait *)
(* for the answer.  A wait is bounded, an answer is known by nothing but   *)
(* its turn at the endpoint, and two kinds of request have no answer.      *)
(*                                                                         *)
(* The endpoint and what lies below it are the FIFOs of MessageQCopy,      *)
(* modelled there; the host is external.                                   *)
(***************************************************************************)
EXTENDS Naturals, Sequences, FiniteSets

CONSTANTS
  Tasks,        \* the callers
  ResHandles,   \* the handles the host gives out
  None,
  RingSize,     \* messages the host may have yet to read
  MaxConnects,  \* bound of the model: connections made one after another
  MaxTimeouts   \* bound of the model: waits that end while an answer is due

ASSUME NoneAssumption == None \notin Tasks \cup ResHandles
ASSUME BoundsAssumption ==
  RingSize \in Nat \ {0} /\ MaxConnects \in Nat /\ MaxTimeouts \in Nat

VARIABLES
  conn,      \* the handle: "none", "wait" for the host's ack, "open", "leave"
  remote,    \* handle->remote
  sem,       \* handle->sem
  endpoint,  \* handle->msgq: the acks that arrived there
  toHost,    \* what the host has not yet read
  channel,   \* the host's address of the channel, 0 when there is none
  channels,  \* the channels the host made
  allocated, \* the handles the host gave out on its channel
  pc, call, ack,
  held,      \* the handles each task was given
  timeouts,  \* waits that ended while an answer was due
  connects

host == <<channel, channels, allocated>>
handle == <<conn, remote, sem, connects>>
task == <<pc, call, ack, held>>
vars == <<handle, endpoint, toHost, host, task, timeouts>>

Answered == {"ALLOC", "REQ_DATA", "REQ_CONSTRAINTS"}
Unanswered == {"REL_CONSTRAINTS", "FREE"}

NoCall == [type |-> "none", res |-> None]
NoAck == [type |-> "none", to |-> None, from |-> 0, ok |-> FALSE, res |-> None]

Goto(t, l) == pc' = [pc EXCEPT ![t] = l]

Init ==
  /\ conn = "none" /\ remote = 0 /\ sem = 1 /\ connects = 0
  /\ endpoint = <<>>
  /\ toHost = <<>>
  /\ channel = 0 /\ channels = 0 /\ allocated = {}
  /\ pc = [t \in Tasks |-> "out"]
  /\ call = [t \in Tasks |-> NoCall]
  /\ ack = [t \in Tasks |-> NoAck]
  /\ held = [t \in Tasks |-> {}]
  /\ timeouts = 0

-----------------------------------------------------------------------------
(* The host reads in order.  Whatever it sends to a deleted endpoint is    *)
(* dropped, and so is what is sent to a channel it has taken down.         *)

Due == \E i \in 1..Len(toHost) :
         \/ toHost[i].type = "announce"
         \/ (toHost[i].type \in Answered /\ toHost[i].channel = channel)

Arrives(a) ==
  endpoint' = IF conn \in {"wait", "open"} THEN Append(endpoint, a) ELSE endpoint

\* A new channel; the driver's ack says whether it accepts the connection.
HostConnects(ok) ==
  /\ channel' = channels + 1
  /\ channels' = channels + 1
  /\ allocated' = {}
  /\ Arrives([type |-> "CONNECT", to |-> None, from |-> channels + 1,
              ok |-> ok, res |-> None])

HostRemoves ==
  /\ channel' = 0
  /\ allocated' = {}
  /\ UNCHANGED <<channels, endpoint>>

\* A request of a live channel; the host may refuse what it has to answer.
HostServes(m, ok, r) ==
  /\ m.channel = channel
  /\ CASE m.type = "ALLOC" /\ ok -> r \in ResHandles \ allocated /\ allocated' = allocated \cup {r}
       [] m.type = "FREE" -> allocated' = allocated \ {m.res}
       [] OTHER -> UNCHANGED allocated
  /\ IF m.type \in Answered
     THEN Arrives([type |-> m.type, to |-> m.task, from |-> channel, ok |-> ok,
                   res |-> IF m.type = "ALLOC" /\ ok THEN r ELSE None])
     ELSE UNCHANGED endpoint
  /\ UNCHANGED <<channel, channels>>

Host ==
  /\ toHost # <<>>
  /\ toHost' = Tail(toHost)
  /\ LET m == Head(toHost) IN
       \/ m.type = "announce" /\ \E ok \in BOOLEAN : HostConnects(ok)
       \/ m.type = "remove" /\ HostRemoves
       \/ m.type \in Answered \cup Unanswered /\ \E ok \in BOOLEAN, r \in ResHandles :
            HostServes(m, ok, r)
       \/ m.type \in Answered \cup Unanswered /\ m.channel # channel
            /\ UNCHANGED <<host, endpoint>>
  /\ UNCHANGED <<handle, task, timeouts>>

-----------------------------------------------------------------------------
(* The connection, made and left by one task for all: the callers' rule is *)
(* to be out of their calls by then.                                       *)

Idle == \A t \in Tasks : pc[t] = "out"

\* Without a buffer to send with, NameMap aborts the program: the model leaves
\* that ending out.
Announce(what) ==
  /\ Len(toHost) < RingSize
  /\ toHost' = Append(toHost, [type |-> what, task |-> None,
                               res |-> None, channel |-> 0])

Connect ==
  /\ conn = "none" /\ connects < MaxConnects
  /\ conn' = "wait" /\ connects' = connects + 1
  /\ sem' = 1
  /\ endpoint' = <<>>
  /\ Announce("announce")
  /\ UNCHANGED <<remote, host, task, timeouts>>

\* The ack is the first message, and its sender the remote end.
Connected ==
  /\ conn = "wait" /\ endpoint # <<>>
  /\ endpoint' = Tail(endpoint)
  /\ remote' = Head(endpoint).from
  /\ conn' = IF Head(endpoint).ok THEN "open" ELSE "leave"
  /\ UNCHANGED <<sem, connects, toHost, host, task, timeouts>>

\* A wait that ends while an answer is due counts; the others are not bounded.
Expires ==
  /\ endpoint = <<>>
  /\ Due => timeouts < MaxTimeouts
  /\ timeouts' = IF Due THEN timeouts + 1 ELSE timeouts

ConnectTimesOut ==
  /\ conn = "wait"
  /\ Expires
  /\ conn' = "leave"
  /\ UNCHANGED <<remote, sem, connects, endpoint, toHost, host, task>>

\* IpcResource_disconnect; and after a failure, what IpcResource_connect does.
Disconnect ==
  /\ conn = "leave" \/ (conn = "open" /\ Idle)
  /\ conn' = "none" /\ remote' = 0
  /\ endpoint' = <<>>
  /\ held' = [t \in Tasks |-> {}]
  /\ Announce("remove")
  /\ UNCHANGED <<sem, connects, host, pc, call, ack, timeouts>>

-----------------------------------------------------------------------------
(* The calls of tasks: what they do when they begin, and the steps that   *)
(* they share.                                                             *)

Begin(t, type, r, next) ==
  /\ conn = "open" /\ pc[t] = "out"
  /\ call' = [call EXCEPT ![t] = [type |-> type, res |-> r]]
  /\ Goto(t, next)
  /\ UNCHANGED <<handle, endpoint, toHost, host, ack, held, timeouts>>

request(t) == Begin(t, "ALLOC", None, "pend")

\* In the other calls a caller names a resource that it holds.
requestData(t) == \E r \in held[t] : Begin(t, "REQ_DATA", r, "pend")

setConstraints(t, reqType) == \E r \in held[t] : Begin(t, reqType, r, "pend")
requestConstraints(t) == setConstraints(t, "REQ_CONSTRAINTS")
releaseConstraints(t) == setConstraints(t, "REL_CONSTRAINTS")

\* FREE does not take the semaphore.
release(t) == \E r \in held[t] : Begin(t, "FREE", r, "send")

Pend(t) ==
  /\ pc[t] = "pend" /\ sem = 1
  /\ sem' = 0
  /\ Goto(t, "send")
  /\ UNCHANGED <<conn, remote, connects, endpoint, toHost, host, call, ack, held, timeouts>>

\* Mutant: a release posts the semaphore that it did not take.
PostAlways(t) == sem' = sem + 1

Post(t) == sem' = IF call[t].type = "FREE" THEN sem ELSE 1

Return(t) ==
  /\ Goto(t, "out")
  /\ call' = [call EXCEPT ![t] = NoCall]

\* Mutant: the semaphore is held on the way out.
SendFailsHolding(t) ==
  /\ pc[t] = "send"
  /\ Return(t)
  /\ UNCHANGED <<handle, endpoint, toHost, host, ack, held, timeouts>>

\* Mutant: a release that was not sent forgets the resource.
SendFailsForgetting(t) ==
  /\ pc[t] = "send"
  /\ Post(t)
  /\ Return(t)
  /\ held' = [held EXCEPT ![t] = @ \ {call[t].res}]
  /\ UNCHANGED <<conn, remote, connects, endpoint, toHost, host, ack, timeouts>>

\* No buffer of the ring to send with.
SendFails(t) ==
  /\ pc[t] = "send"
  /\ Post(t)
  /\ Return(t)
  /\ UNCHANGED <<conn, remote, connects, endpoint, toHost, host, ack, held, timeouts>>

Request(t) == [type |-> call[t].type, task |-> t, res |-> call[t].res, channel |-> remote]

\* Mutant: the semaphore covers the send alone.
SendPosts(t) ==
  /\ pc[t] = "send" /\ Len(toHost) < RingSize
  /\ toHost' = Append(toHost, Request(t))
  /\ Post(t)
  /\ IF call[t].type \in Answered
     THEN Goto(t, "recv") /\ UNCHANGED call
     ELSE Return(t)
  /\ held' = IF call[t].type = "FREE"
             THEN [held EXCEPT ![t] = @ \ {call[t].res}] ELSE held
  /\ UNCHANGED <<conn, remote, connects, endpoint, host, ack, timeouts>>

\* A request without an answer is over, and the semaphore posted.
Send(t) ==
  /\ pc[t] = "send" /\ Len(toHost) < RingSize
  /\ toHost' = Append(toHost, Request(t))
  /\ IF call[t].type \in Answered
     THEN Goto(t, "recv") /\ UNCHANGED <<call, sem>>
     ELSE Return(t) /\ Post(t)
  /\ held' = IF call[t].type = "FREE"
             THEN [held EXCEPT ![t] = @ \ {call[t].res}] ELSE held
  /\ UNCHANGED <<conn, remote, connects, endpoint, host, ack, timeouts>>

Recv(t) ==
  /\ pc[t] = "recv" /\ endpoint # <<>>
  /\ ack' = [ack EXCEPT ![t] = Head(endpoint)]
  /\ endpoint' = Tail(endpoint)
  /\ Post(t)
  /\ Goto(t, "check")
  /\ UNCHANGED <<conn, remote, connects, toHost, host, call, held, timeouts>>

\* E_TIMEOUT: the answer, when it comes, stays at the endpoint.
TimesOut(t) ==
  /\ pc[t] = "recv"
  /\ Expires
  /\ Post(t)
  /\ Return(t)
  /\ UNCHANGED <<conn, remote, connects, endpoint, toHost, host, ack, held>>

Refused(t) == ~ack[t].ok \/ (call[t].type # "REQ_DATA" /\ ack[t].from # remote)

\* The sender, the status and the length of the ack; what it holds is given to
\* the caller.  Where the lengths differ, the assertion ends the program.
Check(t) ==
  /\ pc[t] = "check"
  /\ held' = IF call[t].type = "ALLOC" /\ ~Refused(t)
             THEN [held EXCEPT ![t] = @ \cup {ack[t].res}] ELSE held
  /\ ack' = [ack EXCEPT ![t] = NoAck]
  /\ Refused(t) \/ ack[t].type = call[t].type
  /\ Return(t)
  /\ UNCHANGED <<handle, endpoint, toHost, host, timeouts>>

Asserted(t) == pc[t] = "check" /\ ~Refused(t) /\ ack[t].type # call[t].type
Aborted == \E t \in Tasks : Asserted(t)

TaskStep(t) ==
  \/ Pend(t) \/ Send(t) \/ SendFails(t) \/ Recv(t) \/ TimesOut(t) \/ Check(t)

Running ==
  \/ Connect \/ Connected \/ ConnectTimesOut \/ Disconnect
  \/ \E t \in Tasks :
       \/ request(t) \/ requestData(t)
       \/ requestConstraints(t) \/ releaseConstraints(t) \/ release(t)
       \/ TaskStep(t)

Next == Host \/ (~Aborted /\ Running)

Spec == Init /\ [][Next]_vars

\* The host reads and answers; a wait for what will not come expires; a
\* semaphore serves its waiters in turn.
Fairness ==
  /\ WF_vars(Host)
  /\ WF_vars(~Aborted /\ (Connected \/ ConnectTimesOut))
  /\ WF_vars(~Aborted /\ conn = "leave" /\ Disconnect)
  /\ \A t \in Tasks :
       /\ WF_vars(~Aborted /\ TaskStep(t))
       /\ SF_vars(~Aborted /\ Pend(t))

FairSpec == Spec /\ Fairness

-----------------------------------------------------------------------------
(* Properties.                                                             *)

Types == Answered \cup Unanswered

TypeOK ==
  /\ conn \in {"none", "wait", "open", "leave"}
  /\ remote \in 0..channels /\ channel \in {0, channels} /\ channels <= connects
  /\ connects \in 0..MaxConnects /\ timeouts \in 0..MaxTimeouts
  /\ sem \in {0, 1} /\ allocated \subseteq ResHandles
  /\ Len(toHost) <= RingSize
  /\ \A t \in Tasks :
       /\ pc[t] \in {"out", "pend", "send", "recv", "check"}
       /\ call[t].type \in Types \cup {"none"}
       /\ held[t] \subseteq ResHandles

\* Until a wait ends too early, whoever takes an answer is the one whose
\* request it answers, on the channel it was sent on, although tasks share the
\* endpoint and requests without an answer go out at any time.  (So the
\* assertions on the length hold until then.)
OwnAnswer ==
  timeouts = 0 =>
    \A t \in Tasks : pc[t] = "check" =>
      /\ ack[t].to = t /\ ack[t].type = call[t].type /\ ack[t].from = remote

\* Until a wait ends too early, the host and the tasks agree on what is given
\* out: each handle the host allocated on the open channel is held by one task,
\* or on its way to the one that asked, or its FREE is on its way back.
OnItsWay(r) ==
  \/ \E i \in 1..Len(endpoint) : endpoint[i].res = r
  \/ \E t \in Tasks : pc[t] = "check" /\ ack[t].res = r
  \/ \E i \in 1..Len(toHost) : toHost[i].type = "FREE" /\ toHost[i].res = r

HostAgrees ==
  timeouts = 0 /\ conn = "open" =>
    /\ remote = channel
    /\ \A r \in ResHandles :
         LET holders == {t \in Tasks : r \in held[t]} IN
           IF r \in allocated THEN OnItsWay(r) <=> holders = {} ELSE holders = {}
    /\ \A t, u \in Tasks : t # u => held[t] \cap held[u] = {}

\* A call ends, whatever was lost, refused or late, unless an assertion ends the
\* program; and so does an attempt to connect.
CallsEnd ==
  /\ \A t \in Tasks : pc[t] = "pend" ~> pc[t] = "out" \/ Aborted
  /\ conn = "wait" ~> conn \in {"open", "none"}
=============================================================================
