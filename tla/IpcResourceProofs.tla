-------------------------- MODULE IpcResourceProofs ---------------------------
(***************************************************************************)
(* Proofs about IpcResource, for any number of tasks, of resources and of  *)
(* connections.  Typing and the semaphore hold whatever the host and the   *)
(* clock do; what is said of the answers and of the resources holds until  *)
(* a wait ends while its answer is due, and rests on the order of the two  *)
(* FIFOs between the tasks and the host.                                   *)
(***************************************************************************)
EXTENDS IpcResource, FiniteSetTheorems, SequenceTheorems, TLAPS

Message ==
  [type : {"announce", "remove"} \cup Types, task : Tasks \cup {None},
   res : ResHandles \cup {None}, channel : Nat]

\* An ack of a request that was granted a resource names it, and no other does.
AckOK(a, n) ==
  /\ a.type = "ALLOC" /\ a.ok => a.res \in ResHandles
  /\ a.res # None => a.type = "ALLOC" /\ a.ok
  /\ a.from <= n

Ack ==
  [type : {"none", "CONNECT"} \cup Answered, to : Tasks \cup {None}, from : Nat,
   ok : BOOLEAN, res : ResHandles \cup {None}]

Typed ==
  /\ conn \in {"none", "wait", "open", "leave"}
  /\ remote \in Nat /\ channel \in Nat /\ channels \in Nat
  /\ connects \in 0..MaxConnects /\ timeouts \in 0..MaxTimeouts
  /\ sem \in {0, 1} /\ allocated \subseteq ResHandles
  /\ toHost \in Seq(Message) /\ endpoint \in Seq(Ack)
  /\ pc \in [Tasks -> {"out", "pend", "send", "recv", "check"}]
  /\ call \in [Tasks -> [type : Types \cup {"none"}, res : ResHandles \cup {None}]]
  /\ ack \in [Tasks -> Ack]
  /\ held \in [Tasks -> SUBSET ResHandles]

AcksOK ==
  /\ remote <= channels /\ channel \in {0, channels}
  /\ \A i \in 1..Len(endpoint) : AckOK(endpoint[i], channels)
  /\ \A t \in Tasks : AckOK(ack[t], channels)
  /\ Len(toHost) <= RingSize

\* Each connection announces itself once, and has a channel after that at most.
Announced(s) == {i \in 1..Len(s) : s[i].type = "announce"}
ChannelsAnnounced == channels + Cardinality(Announced(toHost)) <= connects

\* Tasks are inside their calls and hold resources as long as the connection is
\* open; a caller of FREE holds what it gives back.
CallsOK ==
  \A t \in Tasks :
    /\ pc[t] # "out" \/ held[t] # {} => conn = "open"
    /\ pc[t] = "pend" => call[t].type \in Types \ {"FREE"}
    /\ pc[t] = "send" => call[t].type \in Types
    /\ pc[t] \in {"recv", "check"} => call[t].type \in Answered
    /\ pc[t] = "send" /\ call[t].type = "FREE" => call[t].res \in held[t]

\* One task at a time sends a request that has the semaphore and waits.
HasSem(t) == pc[t] \in {"send", "recv"} /\ call[t].type # "FREE"

SemHeld ==
  /\ sem = 1 <=> \A t \in Tasks : ~HasSem(t)
  /\ \A t, u \in Tasks : HasSem(t) /\ HasSem(u) => t = u

Always == Typed /\ AcksOK /\ ChannelsAnnounced /\ CallsOK /\ SemHeld

-----------------------------------------------------------------------------
\* The announcement is the last that the host has to read, and then its ack is
\* the first that the endpoint has.
Connecting ==
  /\ \A i \in 1..Len(toHost) : toHost[i].type = "announce" =>
       conn = "wait" /\ i = Len(toHost) /\ endpoint = <<>>
  /\ conn = "wait" =>
       \/ toHost # <<>> /\ toHost[Len(toHost)].type = "announce"
       \/ /\ toHost = <<>> /\ Len(endpoint) = 1 /\ allocated = {}
          /\ endpoint[1].type = "CONNECT" /\ endpoint[1].from = channel
          /\ endpoint[1].res = None
  /\ conn = "open" =>
       /\ remote = channel
       /\ \A i \in 1..Len(toHost) : toHost[i].type \in Types /\ toHost[i].channel = channel

\* One answer is due at most, and it is that of the task that waits: its request
\* is on its way or its ack is.
AnswerDue ==
  /\ \A i \in 1..Len(toHost) : toHost[i].type \in Answered =>
       /\ endpoint = <<>>
       /\ \E t \in Tasks : pc[t] = "recv" /\ toHost[i] = Request(t)
       /\ \A j \in 1..Len(toHost) : toHost[j].type \in Answered => i = j
  /\ endpoint # <<>> /\ conn # "wait" =>
       /\ Len(endpoint) = 1
       /\ \E t \in Tasks : /\ pc[t] = "recv" /\ endpoint[1].to = t
                           /\ endpoint[1].type = call[t].type /\ endpoint[1].from = remote
  /\ \A t \in Tasks : pc[t] = "recv" =>
       \/ endpoint # <<>>
       \/ \E i \in 1..Len(toHost) : toHost[i].type \in Answered

\* Where a resource can be: with a task, in an ack in a task's hand or at the
\* endpoint, or in a FREE on its way to the host.
Holds(t, r) == r \in held[t]
InHand(t, r) == pc[t] = "check" /\ ack[t].res = r
Arrived(r) == \E i \in 1..Len(endpoint) : endpoint[i].res = r
Leaving(i, r) == toHost[i].type = "FREE" /\ toHost[i].res = r
Freed(r) == \E i \in 1..Len(toHost) : Leaving(i, r)

\* What the host has given out is in one place, and nothing else is anywhere.
Somewhere(r) == Arrived(r) \/ Freed(r) \/ \E t \in Tasks : Holds(t, r) \/ InHand(t, r)

NotTwice(r) ==
  /\ \A t \in Tasks : Holds(t, r) =>
       /\ \A u \in Tasks : (Holds(u, r) => u = t) /\ ~InHand(u, r)
       /\ ~Arrived(r) /\ ~Freed(r)
  /\ \A t \in Tasks : InHand(t, r) =>
       /\ \A u \in Tasks : InHand(u, r) => u = t
       /\ ~Arrived(r) /\ ~Freed(r)
  /\ ~(Arrived(r) /\ Freed(r))
  /\ \A i, j \in 1..Len(toHost) : Leaving(i, r) /\ Leaving(j, r) => i = j

InOnePlace ==
  conn = "open" =>
    \A r \in ResHandles : (r \in allocated <=> Somewhere(r)) /\ NotTwice(r)

InTime == timeouts = 0 => Connecting /\ AnswerDue /\ OwnAnswer /\ InOnePlace
IInv == Always /\ InTime

-----------------------------------------------------------------------------
\* What the first element of a FIFO is, and what is left of it.
LEMMA TailFacts ==
  ASSUME NEW S, NEW s \in Seq(S), s # <<>>
  PROVE  /\ Len(s) \in Nat \ {0} /\ Head(s) = s[1] /\ Head(s) \in S
         /\ Tail(s) \in Seq(S) /\ Len(Tail(s)) = Len(s) - 1
         /\ \A i \in 1..Len(Tail(s)) : Tail(s)[i] = s[i + 1]
  BY HeadTailProperties, EmptySeq

\* The four things the host does with the message it reads.
LEMMA HostCases ==
  ASSUME Typed, Host
  PROVE  LET m == toHost[1] IN
         /\ m \in Message
         /\ \/ m.type = "announce" /\ \E ok \in BOOLEAN : HostConnects(ok)
            \/ m.type = "remove" /\ HostRemoves
            \/ m.type \in Types /\ \E ok \in BOOLEAN, r \in ResHandles : HostServes(m, ok, r)
            \/ m.type \in Types /\ m.channel # channel /\ UNCHANGED <<host, endpoint>>
  <1>1. Head(toHost) \in Message /\ Head(toHost) = toHost[1]
    BY TailFacts DEF Typed, Host
  <1> QED BY <1>1 DEF Host, Types

\* An ack comes to the end of the endpoint, if there is one.
LEMMA ArrivesFacts ==
  ASSUME Typed, NEW a \in Ack, Arrives(a)
  PROVE  /\ endpoint' \in Seq(Ack)
         /\ Len(endpoint) \in Nat
         /\ \/ endpoint' = endpoint /\ conn \notin {"wait", "open"}
            \/ /\ endpoint' = Append(endpoint, a) /\ conn \in {"wait", "open"}
               /\ Len(endpoint') = Len(endpoint) + 1
               /\ endpoint'[Len(endpoint) + 1] = a
               /\ \A i \in 1..Len(endpoint) : endpoint'[i] = endpoint[i]
  BY AppendProperties DEF Typed, Arrives

\* There is no connection at first.
LEMMA AlwaysInit == Init => Always
  <1> SUFFICES ASSUME Init PROVE Always
    OBVIOUS
  <1> USE NoneAssumption, BoundsAssumption DEF Init, NoCall, NoAck
  <1>1. Typed
    BY DEF Typed, Ack, Types
  <1>2. AcksOK /\ CallsOK /\ SemHeld
    BY DEF AcksOK, AckOK, CallsOK, SemHeld, HasSem
  <1>3. ChannelsAnnounced
    <2>1. Announced(toHost) = {}
      BY DEF Announced
    <2>2. Cardinality(Announced(toHost)) = 0
      BY <2>1, FS_EmptySet
    <2> QED BY <2>2 DEF ChannelsAnnounced
  <1> QED BY <1>1, <1>2, <1>3 DEF Always

\* No step takes a variable out of its set.
LEMMA TypedStep == Always /\ [Next]_vars => Typed'
  <1> SUFFICES ASSUME Always, [Next]_vars PROVE Typed'
    OBVIOUS
  <1> USE NoneAssumption, BoundsAssumption DEF Goto, Return, Post, NoCall, NoAck,
          Types, Answered, Unanswered, host, handle, task, vars, Always, Typed, CallsOK, AcksOK, AckOK, Message, Ack
  <1>1. CASE Host
    <2> DEFINE m == toHost[1]
               Q == endpoint' \in Seq(Ack) /\ channel' \in Nat /\ channels' \in Nat /\ allocated' \subseteq ResHandles
    <2>1. m \in Message /\ toHost' \in Seq(Message) /\ UNCHANGED <<handle, task, timeouts>>
      BY <1>1, HostCases, TailFacts DEF Host
    <2>2. ASSUME NEW ok \in BOOLEAN, HostConnects(ok)
          PROVE  Q
      <3> DEFINE a == [type |-> "CONNECT", to |-> None, from |-> channels + 1, ok |-> ok, res |-> None]
      <3>1. a \in Ack
        OBVIOUS
      <3>2. Arrives(a)
        BY <2>2 DEF HostConnects
      <3> QED BY <2>2, <3>1, <3>2, ArrivesFacts DEF HostConnects
    <2>3. ASSUME m.type \in Types, NEW ok \in BOOLEAN, NEW r \in ResHandles, HostServes(m, ok, r)
          PROVE  Q
      <3> DEFINE a == [type |-> m.type, to |-> m.task, from |-> channel, ok |-> ok,
                       res |-> IF m.type = "ALLOC" /\ ok THEN r ELSE None]
      <3>1. m.type \in Answered => a \in Ack /\ Arrives(a)
        BY <2>1, <2>3 DEF HostServes
      <3>2. endpoint' \in Seq(Ack)
        <4>1. CASE m.type \in Answered
          BY <3>1, <4>1, ArrivesFacts
        <4>2. CASE m.type \notin Answered
          BY <2>3, <4>2 DEF HostServes
        <4> QED BY <4>1, <4>2
      <3> QED BY <2>1, <2>3, <3>2 DEF HostServes
    <2>4. HostRemoves \/ UNCHANGED <<host, endpoint>> => Q
      BY DEF HostRemoves
    <2>5. Typed
      OBVIOUS
    <2>6. Q
      <3> HIDE DEF Q, Typed, AcksOK, CallsOK, Always, Types
      <3> QED BY <1>1, <2>2, <2>3, <2>4, <2>5, HostCases
    <2> QED BY <2>1, <2>6
  <1>2. CASE Connect
    BY <1>2 DEF Connect, Announce
  <1>3. CASE Connected
    <2>1. Head(endpoint) \in Ack /\ Tail(endpoint) \in Seq(Ack)
      BY <1>3, TailFacts DEF Connected
    <2>2. Head(endpoint).from \in Nat
      BY <2>1
    <2> QED BY <1>3, <2>1, <2>2 DEF Connected
  <1>4. CASE ConnectTimesOut
    BY <1>4 DEF ConnectTimesOut, Expires
  <1>5. CASE Disconnect
    BY <1>5 DEF Disconnect, Announce
  <1>6. ASSUME NEW t \in Tasks, request(t) PROVE Typed'
    BY <1>6 DEF request, Begin
  <1>7. ASSUME NEW t \in Tasks, NEW r \in held[t], NEW type \in Types \ {"FREE", "ALLOC"}, Begin(t, type, r, "pend") PROVE Typed'
    BY <1>7 DEF Begin
  <1>8. ASSUME NEW t \in Tasks, release(t) PROVE Typed'
    BY <1>8 DEF release, Begin
  <1>9. ASSUME NEW t \in Tasks, Pend(t) PROVE Typed'
    BY <1>9 DEF Pend
  <1>10. ASSUME NEW t \in Tasks, Send(t) PROVE Typed'
    <2>1. call[t].type \in Types /\ call[t].res \in ResHandles \cup {None}
      BY <1>10 DEF Send
    <2>2. Request(t) \in Message
      BY <2>1 DEF Request
    <2>3. toHost' \in Seq(Message)
      BY <1>10, <2>2 DEF Send
    <2>4. held' \in [Tasks -> SUBSET ResHandles] /\ sem' \in {0, 1}
      BY <1>10 DEF Send
    <2>5. pc' \in [Tasks -> {"out", "pend", "send", "recv", "check"}]
      <3>1. pc' = [pc EXCEPT ![t] = "recv"] \/ pc' = [pc EXCEPT ![t] = "out"]
        BY <1>10 DEF Send
      <3>2. pc \in [Tasks -> {"out", "pend", "send", "recv", "check"}]
        OBVIOUS
      <3> HIDE DEF Typed, Always, AcksOK, CallsOK
      <3> QED BY <3>1, <3>2
    <2>6. call' = call \/ call' = [call EXCEPT ![t] = NoCall]
      BY <1>10 DEF Send
    <2>7. call' \in [Tasks -> [type : Types \cup {"none"}, res : ResHandles \cup {None}]]
      <3> DEFINE C == [type : Types \cup {"none"}, res : ResHandles \cup {None}]
      <3>1. NoCall \in C /\ call \in [Tasks -> C]
        OBVIOUS
      <3> HIDE DEF C, NoCall, Always, Typed
      <3>2. call' \in [Tasks -> C]
        BY <2>6, <3>1
      <3> QED BY <3>2 DEF C
    <2> QED BY <1>10, <2>3, <2>4, <2>5, <2>7 DEF Send
  <1>11. ASSUME NEW t \in Tasks, SendFails(t) PROVE Typed'
    BY <1>11 DEF SendFails
  <1>12. ASSUME NEW t \in Tasks, Recv(t) PROVE Typed'
    BY <1>12, TailFacts DEF Recv
  <1>13. ASSUME NEW t \in Tasks, TimesOut(t) PROVE Typed'
    BY <1>13 DEF TimesOut, Expires
  <1>14. ASSUME NEW t \in Tasks, Check(t) PROVE Typed'
    BY <1>14 DEF Check, Refused
  <1>15. CASE UNCHANGED vars
    BY <1>15 DEF vars
  <1> QED
    BY <1>1, <1>2, <1>3, <1>4, <1>5, <1>6, <1>7, <1>8, <1>9, <1>10, <1>11, <1>12, <1>13, <1>14, <1>15
    DEF Next, Running, TaskStep, requestData, setConstraints, requestConstraints,
        releaseConstraints, Types, Answered, Unanswered

\* The host makes one channel for each connection, and acks what it has read.
LEMMA AcksStep == Always /\ [Next]_vars => AcksOK'
  <1> SUFFICES ASSUME Always, [Next]_vars PROVE AcksOK'
    OBVIOUS
  <1> USE NoneAssumption, BoundsAssumption DEF Goto, Return, Post, NoCall, NoAck,
          Types, Answered, Unanswered, host, handle, task, vars, Always, Typed, AcksOK, AckOK, Message, Ack
  <1>1. CASE Host
    <2> DEFINE m == toHost[1]
    <2>1. Typed /\ AcksOK
      OBVIOUS
    <2>2. m \in Message /\ UNCHANGED <<remote, ack>> /\ Len(toHost') <= RingSize
      BY <1>1, HostCases, TailFacts DEF Host
    <2>3. ASSUME NEW a \in Ack, Arrives(a), AckOK(a, channels'),
                 channels' \in Nat, channels' >= channels
          PROVE  \A i \in 1..Len(endpoint') : AckOK(endpoint'[i], channels')
      <3>1. \A i \in 1..Len(endpoint) : AckOK(endpoint[i], channels')
        <4>1. ASSUME NEW b \in Ack, AckOK(b, channels) PROVE AckOK(b, channels')
          BY <2>3, <4>1
        <4>2. \A i \in 1..Len(endpoint) : endpoint[i] \in Ack
          BY ElementOfSeq
        <4> QED BY <2>1, <4>1, <4>2
      <3> HIDE DEF AckOK, Typed, Always, Ack, AcksOK
      <3>2. Len(endpoint) \in Nat
        BY <2>1, <2>3, ArrivesFacts
      <3> QED BY <2>1, <2>3, <3>1, <3>2, ArrivesFacts
    <2>4. ASSUME NEW ok \in BOOLEAN, HostConnects(ok) PROVE AcksOK'
      <3> DEFINE a == [type |-> "CONNECT", to |-> None, from |-> channels + 1, ok |-> ok, res |-> None]
      <3>1. a \in Ack /\ Arrives(a) /\ AckOK(a, channels') /\ channels' = channels + 1 /\ channel' = channels + 1
        BY <2>4 DEF HostConnects
      <3>2. \A i \in 1..Len(endpoint') : AckOK(endpoint'[i], channels')
        <4>1. channels' \in Nat /\ channels' >= channels
          BY <3>1
        <4> HIDE DEF a, AckOK, Ack, AcksOK, Always
        <4> QED BY <2>3, <3>1, <4>1
      <3> QED BY <2>2, <3>1, <3>2
    <2>5. CASE HostRemoves
      BY <2>2, <2>5 DEF HostRemoves
    <2>6. ASSUME m.type \in Types, NEW ok \in BOOLEAN, NEW r \in ResHandles, HostServes(m, ok, r)
          PROVE  AcksOK'
      <3> DEFINE a == [type |-> m.type, to |-> m.task, from |-> channel, ok |-> ok,
                       res |-> IF m.type = "ALLOC" /\ ok THEN r ELSE None]
      <3>1. UNCHANGED <<channel, channels>>
        BY <2>6 DEF HostServes
      <3>2. m.type \in Answered => a \in Ack /\ Arrives(a) /\ AckOK(a, channels')
        BY <2>2, <2>6, <3>1 DEF HostServes
      <3>3. m.type \notin Answered => UNCHANGED endpoint
        BY <2>6 DEF HostServes
      <3>4. \A i \in 1..Len(endpoint') : AckOK(endpoint'[i], channels')
        <4>0. channels' \in Nat /\ channels' >= channels
          BY <3>1
        <4> HIDE DEF a, AckOK, Ack, Typed, Always, Message
        <4>1. CASE m.type \in Answered
          BY <2>3, <3>1, <3>2, <4>0, <4>1
        <4>2. CASE m.type \notin Answered
          BY <2>1, <3>1, <3>3, <4>2
        <4> QED BY <4>1, <4>2
      <3> QED BY <2>2, <3>1, <3>4
    <2>7. CASE UNCHANGED <<host, endpoint>>
      BY <2>2, <2>7
    <2> HIDE DEF AcksOK, Typed
    <2> QED BY <1>1, <2>1, <2>4, <2>5, <2>6, <2>7, HostCases
  <1>2. CASE Connect
    BY <1>2 DEF Connect, Announce
  <1>3. CASE Connected
    BY <1>3 DEF Connected
  <1>4. CASE ConnectTimesOut
    BY <1>4 DEF ConnectTimesOut, Expires
  <1>5. CASE Disconnect
    BY <1>5 DEF Disconnect, Announce
  <1>6. ASSUME NEW t \in Tasks, request(t) PROVE AcksOK'
    BY <1>6 DEF request, Begin
  <1>7. ASSUME NEW t \in Tasks, NEW r \in held[t], NEW type \in Types \ {"FREE", "ALLOC"}, Begin(t, type, r, "pend") PROVE AcksOK'
    BY <1>7 DEF Begin
  <1>8. ASSUME NEW t \in Tasks, release(t) PROVE AcksOK'
    BY <1>8 DEF release, Begin
  <1>9. ASSUME NEW t \in Tasks, Pend(t) PROVE AcksOK'
    BY <1>9 DEF Pend
  <1>10. ASSUME NEW t \in Tasks, Send(t) PROVE AcksOK'
    BY <1>10 DEF Send, Request
  <1>11. ASSUME NEW t \in Tasks, SendFails(t) PROVE AcksOK'
    BY <1>11 DEF SendFails
  <1>12. ASSUME NEW t \in Tasks, Recv(t) PROVE AcksOK'
    BY <1>12 DEF Recv
  <1>13. ASSUME NEW t \in Tasks, TimesOut(t) PROVE AcksOK'
    BY <1>13 DEF TimesOut, Expires
  <1>14. ASSUME NEW t \in Tasks, Check(t) PROVE AcksOK'
    BY <1>14 DEF Check, Refused
  <1>15. CASE UNCHANGED vars
    BY <1>15 DEF vars
  <1> QED
    BY <1>1, <1>2, <1>3, <1>4, <1>5, <1>6, <1>7, <1>8, <1>9, <1>10, <1>11, <1>12, <1>13, <1>14, <1>15
    DEF Next, Running, TaskStep, requestData, setConstraints, requestConstraints,
        releaseConstraints, Types, Answered, Unanswered

\* A call begins and ends with its connection open; one task at a time has the semaphore.
LEMMA CallsStep == Always /\ [Next]_vars => (CallsOK /\ SemHeld)'
  <1> SUFFICES ASSUME Always, [Next]_vars PROVE (CallsOK /\ SemHeld)'
    OBVIOUS
  <1> USE NoneAssumption, BoundsAssumption DEF Goto, Return, Post, NoCall, NoAck,
          Types, Answered, Unanswered, host, handle, task, vars, Always, Typed, CallsOK, SemHeld, HasSem, Idle
  <1>1. CASE Host
    BY <1>1 DEF Host, HostConnects, HostRemoves, HostServes, Arrives
  <1>2. CASE Connect
    BY <1>2 DEF Connect, Announce
  <1>3. CASE Connected
    BY <1>3 DEF Connected
  <1>4. CASE ConnectTimesOut
    BY <1>4 DEF ConnectTimesOut, Expires
  <1>5. CASE Disconnect
    BY <1>5 DEF Disconnect, Announce
  <1>6. ASSUME NEW t \in Tasks, request(t) PROVE (CallsOK /\ SemHeld)'
    BY <1>6 DEF request, Begin
  <1>7. ASSUME NEW t \in Tasks, NEW r \in held[t], NEW type \in Types \ {"FREE", "ALLOC"}, Begin(t, type, r, "pend") PROVE (CallsOK /\ SemHeld)'
    BY <1>7 DEF Begin
  <1>8. ASSUME NEW t \in Tasks, release(t) PROVE (CallsOK /\ SemHeld)'
    BY <1>8 DEF release, Begin
  <1>9. ASSUME NEW t \in Tasks, Pend(t) PROVE (CallsOK /\ SemHeld)'
    BY <1>9 DEF Pend
  <1>10. ASSUME NEW t \in Tasks, Send(t) PROVE (CallsOK /\ SemHeld)'
    <2>1. CASE call[t].type \in Answered
      <3>1. /\ pc' = [pc EXCEPT ![t] = "recv"] /\ pc[t] = "send" /\ call[t].type # "FREE"
            /\ UNCHANGED <<call, sem, held, conn>>
        BY <1>10, <2>1 DEF Send
      <3>2. CallsOK'
        BY <2>1, <3>1
      <3>3. \A u \in Tasks : HasSem(u)' <=> HasSem(u)
        BY <3>1
      <3>4. SemHeld'
        BY <3>1, <3>3
      <3> QED BY <3>2, <3>4
    <2>2. CASE call[t].type \notin Answered
      <3>1. pc' = [pc EXCEPT ![t] = "out"]
        BY <1>10, <2>2 DEF Send
      <3>2. CallsOK'
        BY <1>10, <2>2, <3>1 DEF Send
      <3>3. \A u \in Tasks \ {t} : HasSem(u)' <=> HasSem(u)
        BY <1>10, <2>2, <3>1 DEF Send
      <3>4. ~HasSem(t)' /\ (HasSem(t) <=> call[t].type # "FREE")
        BY <1>10, <3>1 DEF Send
      <3>5. sem' = IF call[t].type = "FREE" THEN sem ELSE 1
        BY <1>10, <2>2 DEF Send
      <3> HIDE DEF HasSem
      <3>6. SemHeld'
        BY <3>3, <3>4, <3>5
      <3> QED BY <3>2, <3>6
    <2> QED BY <2>1, <2>2
  <1>11. ASSUME NEW t \in Tasks, SendFails(t) PROVE (CallsOK /\ SemHeld)'
    BY <1>11 DEF SendFails
  <1>12. ASSUME NEW t \in Tasks, Recv(t) PROVE (CallsOK /\ SemHeld)'
    BY <1>12 DEF Recv
  <1>13. ASSUME NEW t \in Tasks, TimesOut(t) PROVE (CallsOK /\ SemHeld)'
    BY <1>13 DEF TimesOut, Expires
  <1>14. ASSUME NEW t \in Tasks, Check(t) PROVE (CallsOK /\ SemHeld)'
    BY <1>14 DEF Check, Refused
  <1>15. CASE UNCHANGED vars
    BY <1>15 DEF vars
  <1> QED
    BY <1>1, <1>2, <1>3, <1>4, <1>5, <1>6, <1>7, <1>8, <1>9, <1>10, <1>11, <1>12, <1>13, <1>14, <1>15
    DEF Next, Running, TaskStep, requestData, setConstraints, requestConstraints,
        releaseConstraints, Types, Answered, Unanswered

\* The announcements of a FIFO that grows and shrinks.
LEMMA AnnouncedFinite ==
  ASSUME NEW s \in Seq(Message)
  PROVE  IsFiniteSet(Announced(s)) /\ Cardinality(Announced(s)) \in Nat
  <1>1. IsFiniteSet(1..Len(s))
    BY LenProperties, FS_Interval
  <1>2. IsFiniteSet(Announced(s))
    BY <1>1, FS_Subset DEF Announced
  <1> QED BY <1>2, FS_CardinalityType

\* A message adds to the announcements if it is one.
LEMMA AnnouncedAppend ==
  ASSUME NEW s \in Seq(Message), NEW m \in Message
  PROVE  Cardinality(Announced(Append(s, m)))
           = Cardinality(Announced(s)) + (IF m.type = "announce" THEN 1 ELSE 0)
  <1>1. /\ Len(s) \in Nat /\ Len(Append(s, m)) = Len(s) + 1
        /\ \A i \in 1..Len(s) : Append(s, m)[i] = s[i]
        /\ Append(s, m)[Len(s) + 1] = m
    BY AppendProperties, LenProperties
  <1>2. Len(s) + 1 \notin Announced(s)
    BY <1>1 DEF Announced
  <1>3. CASE m.type = "announce"
    <2>1. Announced(Append(s, m)) = Announced(s) \cup {Len(s) + 1}
      BY <1>1, <1>3 DEF Announced
    <2> QED BY <1>2, <1>3, <2>1, AnnouncedFinite, FS_AddElement
  <1>4. CASE m.type # "announce"
    <2>1. Announced(Append(s, m)) = Announced(s)
      BY <1>1, <1>4 DEF Announced
    <2> QED BY <1>4, <2>1, AnnouncedFinite
  <1> QED BY <1>3, <1>4

\* So does the one that is read take away.
LEMMA AnnouncedTail ==
  ASSUME NEW s \in Seq(Message), s # <<>>
  PROVE  Cardinality(Announced(Tail(s)))
           <= Cardinality(Announced(s)) - (IF s[1].type = "announce" THEN 1 ELSE 0)
  <1> DEFINE Rest == Announced(s) \ {1}
             f == [i \in Announced(Tail(s)) |-> i + 1]
  <1>1. Len(s) \in Nat \ {0} /\ Len(Tail(s)) = Len(s) - 1
        /\ \A i \in 1..Len(Tail(s)) : Tail(s)[i] = s[i + 1]
    BY TailFacts
  <1>2. \A i \in Announced(Tail(s)) : i \in Nat /\ i + 1 \in Rest
    BY <1>1 DEF Announced
  <1>3. f \in Injection(Announced(Tail(s)), Rest)
    BY <1>2 DEF Injection, IsInjective
  <1>4. /\ IsFiniteSet(Rest)
        /\ Cardinality(Rest) = IF 1 \in Announced(s) THEN Cardinality(Announced(s)) - 1
                              ELSE Cardinality(Announced(s))
    BY AnnouncedFinite, FS_RemoveElement
  <1>5. Cardinality(Announced(Tail(s))) <= Cardinality(Rest)
    BY <1>3, <1>4, FS_Injection
  <1>6. 1 \in Announced(s) <=> s[1].type = "announce"
    BY <1>1 DEF Announced
  <1>7. Cardinality(Announced(s)) \in Nat
    BY AnnouncedFinite
  <1> HIDE DEF Rest
  <1>8. Cardinality(Rest) = Cardinality(Announced(s)) - (IF s[1].type = "announce" THEN 1 ELSE 0)
    BY <1>4, <1>6, <1>7
  <1> QED BY <1>5, <1>8

\* A channel is made when an announcement is read, and there is one for each connection.
LEMMA ChannelsStep == Always /\ [Next]_vars => ChannelsAnnounced'
  <1> SUFFICES ASSUME Always, [Next]_vars PROVE ChannelsAnnounced'
    OBVIOUS
  <1> USE NoneAssumption DEF host, handle, task
  <1>1. /\ Typed /\ ChannelsAnnounced
        /\ toHost \in Seq(Message) /\ channels \in Nat /\ connects \in Nat
        /\ Cardinality(Announced(toHost)) \in Nat
        /\ \A t \in Tasks : pc[t] = "send" => Request(t) \in Message /\ Request(t).type # "announce"
    <2>1. Typed /\ ChannelsAnnounced /\ CallsOK
      BY DEF Always
    <2>2. ASSUME NEW t \in Tasks, pc[t] = "send"
          PROVE  Request(t) \in Message /\ Request(t).type # "announce"
      <3>1. call[t].type \in Types /\ call[t].res \in ResHandles \cup {None} /\ remote \in Nat
        BY <2>1, <2>2 DEF Typed, CallsOK
      <3> QED BY <3>1 DEF Request, Message, Types, Answered, Unanswered
    <2> QED BY <2>1, <2>2, AnnouncedFinite DEF Typed
  <1>2. CASE Host
    <2>1. /\ Cardinality(Announced(toHost'))
              <= Cardinality(Announced(toHost)) - (IF toHost[1].type = "announce" THEN 1 ELSE 0)
          /\ toHost' \in Seq(Message) /\ UNCHANGED connects
      BY <1>1, <1>2, AnnouncedTail, TailFacts DEF Host
    <2>2. Cardinality(Announced(toHost')) \in Nat
      BY <2>1, AnnouncedFinite
    <2>3. \/ toHost[1].type = "announce" /\ channels' = channels + 1
          \/ channels' = channels
      BY <1>1, <1>2, HostCases DEF HostConnects, HostRemoves, HostServes
    <2> QED BY <1>1, <2>1, <2>2, <2>3 DEF ChannelsAnnounced
  <1>3. ASSUME NEW m \in Message, toHost' = Append(toHost, m), UNCHANGED channels,
               connects' = IF m.type = "announce" THEN connects + 1 ELSE connects
        PROVE  ChannelsAnnounced'
    BY <1>1, <1>3, AnnouncedAppend DEF ChannelsAnnounced
  <1>4. ASSUME NEW what \in {"announce", "remove"}
        PROVE  [type |-> what, task |-> None, res |-> None, channel |-> 0] \in Message
    BY DEF Message
  <1>5. CASE Connect
    BY <1>3, <1>4, <1>5 DEF Connect, Announce
  <1>6. CASE Disconnect
    BY <1>3, <1>4, <1>6 DEF Disconnect, Announce
  <1>7. ASSUME NEW t \in Tasks, Send(t) PROVE ChannelsAnnounced'
    BY <1>1, <1>3, <1>7 DEF Send
  <1>8. ASSUME UNCHANGED <<toHost, channels, connects>> PROVE ChannelsAnnounced'
    BY <1>1, <1>8 DEF ChannelsAnnounced
  <1>9. CASE Connected \/ ConnectTimesOut \/ UNCHANGED vars
    BY <1>8, <1>9 DEF Connected, ConnectTimesOut, vars
  <1>10. ASSUME NEW t \in Tasks,
                \/ request(t) \/ requestData(t) \/ requestConstraints(t)
                \/ releaseConstraints(t) \/ release(t)
         PROVE  ChannelsAnnounced'
    BY <1>8, <1>10 DEF request, requestData, requestConstraints, releaseConstraints, release,
       setConstraints, Begin
  <1>11. ASSUME NEW t \in Tasks, Pend(t) \/ SendFails(t) \/ Recv(t) \/ TimesOut(t) \/ Check(t)
         PROVE  ChannelsAnnounced'
    BY <1>8, <1>11 DEF Pend, SendFails, Recv, TimesOut, Check
  <1> QED
    BY <1>2, <1>5, <1>6, <1>7, <1>9, <1>10, <1>11 DEF Next, Running, TaskStep

\* The parts together.
LEMMA AlwaysStep == Always /\ [Next]_vars => Always'
  BY TypedStep, AcksStep, ChannelsStep, CallsStep DEF Always

-----------------------------------------------------------------------------
\* What a step that reads, and one that writes, the FIFO to the host does to it.
LEMMA HostReads ==
  ASSUME Typed, Host
  PROVE  /\ Len(toHost) \in Nat \ {0} /\ Len(toHost') \in Nat /\ Len(toHost') = Len(toHost) - 1
         /\ \A i \in 1..Len(toHost') : toHost'[i] = toHost[i + 1]
         /\ toHost[1] \in Message
         /\ UNCHANGED <<handle, task, timeouts>>
  BY TailFacts, HostCases DEF Host, Typed

\* The places of a message that is written, and of those before it.
LEMMA ToHostWritten ==
  ASSUME Typed, NEW m \in Message, toHost' = Append(toHost, m)
  PROVE  /\ Len(toHost) \in Nat /\ Len(toHost') = Len(toHost) + 1
         /\ \A i \in 1..Len(toHost) : toHost'[i] = toHost[i]
         /\ toHost'[Len(toHost) + 1] = m
  BY AppendProperties, LenProperties DEF Typed

\* What a task sends is a message.
LEMMA RequestTyped ==
  ASSUME Always, NEW t \in Tasks, pc[t] = "send"
  PROVE  Request(t) \in Message /\ Request(t).type \in Types
  <1>1. call[t].type \in Types /\ call[t].res \in ResHandles \cup {None} /\ remote \in Nat
    BY DEF Always, Typed, CallsOK
  <1> QED BY <1>1 DEF Request, Message

\* So is what the connection announces.
LEMMA AnnounceTyped ==
  ASSUME NEW what \in {"announce", "remove"}
  PROVE  [type |-> what, task |-> None, res |-> None, channel |-> 0] \in Message
  BY DEF Message

\* Once a wait has ended while its answer was due, the count of these does not go back.
LEMMA Timely ==
  ASSUME Always, [Next]_vars, timeouts' = 0
  PROVE  timeouts = 0
  <1> USE DEF Always, Typed
  <1>1. Host => UNCHANGED timeouts
    BY DEF Host
  <1>2. Connect \/ Connected \/ Disconnect \/ UNCHANGED vars => UNCHANGED timeouts
    BY DEF Connect, Connected, Disconnect, vars
  <1>3. ConnectTimesOut => timeouts = 0
    BY DEF ConnectTimesOut, Expires
  <1>4. ASSUME NEW t \in Tasks, TaskStep(t) PROVE timeouts = 0
    BY <1>4 DEF TaskStep, Pend, Send, SendFails, Recv, TimesOut, Expires, Check
  <1>5. ASSUME NEW t \in Tasks,
               \/ request(t) \/ requestData(t) \/ requestConstraints(t)
               \/ releaseConstraints(t) \/ release(t)
        PROVE  UNCHANGED timeouts
    BY <1>5 DEF request, requestData, requestConstraints, releaseConstraints, release,
       setConstraints, Begin
  <1> HIDE DEF Always, Typed
  <1> QED BY <1>1, <1>2, <1>3, <1>4, <1>5 DEF Next, Running

\* A wait that may end loses no answer: nobody waits then, for an answer is always due.
LEMMA NoneExpires ==
  ASSUME Always, Connecting, AnswerDue, Expires, timeouts = 0, timeouts' = 0
  PROVE  conn # "wait" /\ \A t \in Tasks : pc[t] # "recv"
  <1>1. ~Due /\ endpoint = <<>>
    BY DEF Expires
  <1>2. conn # "wait"
    <2>1. SUFFICES ASSUME conn = "wait" PROVE FALSE
      OBVIOUS
    <2>2. toHost # <<>> /\ toHost[Len(toHost)].type = "announce"
      BY <1>1, <2>1 DEF Connecting
    <2>3. Len(toHost) \in 1..Len(toHost)
      BY <2>2, TailFacts DEF Always, Typed
    <2> QED BY <1>1, <2>2, <2>3 DEF Due
  <1>3. ASSUME NEW t \in Tasks, pc[t] = "recv" PROVE FALSE
    <2>1. PICK i \in 1..Len(toHost) : toHost[i].type \in Answered
      BY <1>1, <1>3 DEF AnswerDue
    <2>2. toHost[i].channel = channel
      BY <1>3, <2>1 DEF Always, CallsOK, Connecting
    <2> QED BY <1>1, <2>1, <2>2 DEF Due
  <1> QED BY <1>2, <1>3

\* The announcement stays the last message, and its ack the first.
LEMMA ConnectingStep == Always /\ Connecting /\ AnswerDue /\ [Next]_vars /\ timeouts = 0 /\ timeouts' = 0 => Connecting'
  <1> SUFFICES ASSUME Always /\ Connecting /\ AnswerDue /\ [Next]_vars /\ timeouts = 0 /\ timeouts' = 0
               PROVE  Connecting'
    OBVIOUS
  <1> USE NoneAssumption DEF Connecting, host, handle, task, Goto, Return
  <1>0. Typed /\ CallsOK
    BY DEF Always
  <1>1. CASE Host
    <2> DEFINE m == toHost[1]
    <2>1. m.type = "announce" => conn = "wait" /\ Len(toHost) = 1 /\ endpoint = <<>>
      BY <1>0, <1>1, HostReads
    <2>2. ASSUME NEW ok \in BOOLEAN, m.type = "announce", HostConnects(ok) PROVE Connecting'
      <3> DEFINE a == [type |-> "CONNECT", to |-> None, from |-> channels + 1, ok |-> ok, res |-> None]
      <3>1. endpoint' = <<a>> /\ channel' = channels + 1 /\ allocated' = {}
        BY <2>1, <2>2 DEF HostConnects, Arrives
      <3>2. Len(toHost') = 0 /\ UNCHANGED conn
        BY <1>0, <1>1, <2>1, <2>2, HostReads
      <3>3. toHost' = <<>>
        BY <1>0, <1>1, <3>2, TailFacts, EmptySeq DEF Host, Typed
      <3> QED BY <2>1, <2>2, <3>1, <3>2, <3>3
    <2>3. ASSUME m.type # "announce", UNCHANGED endpoint,
                 conn = "open" => UNCHANGED channel
          PROVE  Connecting'
      <3>1. toHost # <<>>
        BY <1>1 DEF Host
      <3>2. conn = "wait" => Len(toHost) > 1 /\ toHost[Len(toHost)].type = "announce"
        BY <1>0, <1>1, <2>3, <3>1, HostReads
      <3>3. Len(toHost') > 0 => toHost' # <<>>
        BY <1>0, <1>1, EmptySeq
      <3> QED BY <1>0, <1>1, <2>3, <3>2, <3>3, HostReads
    <2>4. ASSUME m.type \in Types, NEW ok \in BOOLEAN, NEW r \in ResHandles, HostServes(m, ok, r)
          PROVE  Connecting'
      <3>1. UNCHANGED <<channel, conn, remote>> /\ m.type # "announce"
        BY <1>0, <1>1, <2>4, HostReads DEF HostServes, Types, Answered, Unanswered
      <3>2. CASE m.type \notin Answered
        BY <2>3, <2>4, <3>1, <3>2 DEF HostServes
      <3>3. CASE m.type \in Answered
        <4>1. conn = "open"
          BY <1>0, <1>1, <3>3, HostReads DEF AnswerDue, CallsOK
        <4> QED BY <1>0, <1>1, <3>1, <4>1, HostReads DEF Types
      <3> QED BY <3>2, <3>3
    <2>5. CASE m.type = "remove" /\ HostRemoves
      <3>1. conn # "open"
        BY <1>0, <1>1, <2>5, HostReads DEF Types, Answered, Unanswered
      <3> QED BY <2>3, <2>5, <3>1 DEF HostRemoves
    <2>6. CASE m.type \in Types /\ UNCHANGED <<host, endpoint>>
      BY <2>3, <2>6 DEF Types, Answered, Unanswered
    <2> HIDE DEF Connecting
    <2> QED BY <1>0, <1>1, <2>2, <2>4, <2>5, <2>6, HostCases
  <1>2. CASE Connect
    <2>1. PICK a \in Message : a.type = "announce" /\ toHost' = Append(toHost, a)
      BY <1>2, AnnounceTyped DEF Connect, Announce
    <2>2. conn = "none" /\ conn' = "wait" /\ endpoint' = <<>>
      BY <1>2 DEF Connect
    <2>3. toHost' # <<>>
      BY <1>0, <2>1, AppendProperties DEF Typed
    <2> QED BY <1>0, <2>1, <2>2, <2>3, ToHostWritten
  <1>3. CASE Connected
    <2>1. toHost = <<>> /\ endpoint[1].from = channel /\ endpoint # <<>> /\ conn = "wait"
      <3>1. toHost # <<>> => Len(toHost) \in 1..Len(toHost)
        BY <1>0, TailFacts DEF Typed
      <3> QED BY <1>3, <3>1 DEF Connected
    <2>2. remote' = channel /\ conn' # "wait" /\ UNCHANGED <<toHost, channel>>
      BY <1>0, <1>3, <2>1, TailFacts DEF Connected, Typed
    <2> QED BY <2>1, <2>2
  <1>4. CASE ConnectTimesOut
    BY <1>4, NoneExpires DEF ConnectTimesOut
  <1>5. CASE Disconnect
    <2>1. PICK a \in Message : a.type = "remove" /\ toHost' = Append(toHost, a)
      BY <1>5, AnnounceTyped DEF Disconnect, Announce
    <2>2. conn # "wait" /\ conn' = "none"
      BY <1>5 DEF Disconnect
    <2> QED BY <1>0, <2>1, <2>2, ToHostWritten
  <1>6. ASSUME NEW t \in Tasks,
               \/ request(t) \/ requestData(t) \/ requestConstraints(t)
               \/ releaseConstraints(t) \/ release(t)
        PROVE  Connecting'
    BY <1>6 DEF request, requestData, requestConstraints, releaseConstraints, release,
       setConstraints, Begin
  <1>7. ASSUME NEW t \in Tasks, Send(t) PROVE Connecting'
    <2>1. Request(t) \in Message /\ Request(t).type \in Types /\ toHost' = Append(toHost, Request(t))
      BY <1>7, RequestTyped DEF Send
    <2>2. conn = "open" /\ UNCHANGED <<conn, remote, channel>>
      BY <1>0, <1>7 DEF Send, CallsOK
    <2>3. Request(t).type # "announce" /\ Request(t).channel = remote
      BY <2>1 DEF Request, Types, Answered, Unanswered
    <2> QED BY <1>0, <2>1, <2>2, <2>3, ToHostWritten
  <1>8. ASSUME NEW t \in Tasks, Recv(t) PROVE Connecting'
    <2>1. conn = "open"
      BY <1>0, <1>8 DEF Recv, CallsOK
    <2> QED BY <1>8, <2>1 DEF Recv
  <1>9. ASSUME NEW t \in Tasks, Pend(t) \/ SendFails(t) \/ TimesOut(t) \/ Check(t)
        PROVE  Connecting'
    BY <1>9 DEF Pend, SendFails, TimesOut, Check
  <1>10. CASE UNCHANGED vars
    BY <1>10 DEF vars
  <1> QED BY <1>1, <1>2, <1>3, <1>4, <1>5, <1>6, <1>7, <1>8, <1>9, <1>10 DEF Next, Running, TaskStep

\* Nobody waits, and no answer is due, unless the connection is open.
LEMMA NothingDue ==
  ASSUME Always, AnswerDue, conn # "open" \/ \A t \in Tasks : pc[t] # "recv"
  PROVE  /\ \A i \in 1..Len(toHost) : toHost[i].type \notin Answered
         /\ \A t \in Tasks : pc[t] # "recv"
         /\ conn # "wait" => endpoint = <<>>
  BY DEF Always, CallsOK, AnswerDue

\* Whoever has the semaphore is the only one that waits.
LEMMA OneWaits ==
  ASSUME Always, NEW t \in Tasks, (pc[t] = "send" /\ call[t].type # "FREE") \/ pc[t] = "recv"
  PROVE  \A u \in Tasks : pc[u] = "recv" => u = t
  BY DEF Always, SemHeld, HasSem, CallsOK, Answered

\* A task that does not wait takes a step that is not a send or a receive.
LEMMA OthersWait ==
  ASSUME Always, AnswerDue, NEW t \in Tasks, pc[t] # "recv",
         UNCHANGED <<toHost, endpoint, conn, remote>>,
         \A u \in Tasks : u # t => pc'[u] = pc[u] /\ call'[u] = call[u],
         pc'[t] # "recv"
  PROVE  AnswerDue'
  <1>1. \A u \in Tasks : pc'[u] = "recv" <=> pc[u] = "recv"
    OBVIOUS
  <1>2. \A u \in Tasks : pc[u] = "recv" => call'[u] = call[u] /\ Request(u)' = Request(u)
    BY DEF Request
  <1> QED BY <1>1, <1>2 DEF AnswerDue

\* One answer is due, to the task that waits for it.
LEMMA AnswerStep == Always /\ Connecting /\ AnswerDue /\ [Next]_vars /\ timeouts = 0 /\ timeouts' = 0 => AnswerDue'
  <1> SUFFICES ASSUME Always /\ Connecting /\ AnswerDue /\ [Next]_vars /\ timeouts = 0 /\ timeouts' = 0
               PROVE  AnswerDue'
    OBVIOUS
  <1> USE NoneAssumption DEF host, handle, task, Goto, Return
  <1>0. Typed /\ CallsOK
    BY DEF Always
  <1>1. CASE Host
    <2> DEFINE m == toHost[1]
    <2>0. /\ Len(toHost) \in Nat \ {0} /\ Len(toHost') = Len(toHost) - 1
          /\ \A i \in 1..Len(toHost') : toHost'[i] = toHost[i + 1]
          /\ UNCHANGED <<conn, remote, pc, call>>
      BY <1>0, <1>1, HostReads
    <2>1. ASSUME m.type \notin Answered, UNCHANGED endpoint PROVE AnswerDue'
      <3>1. \A u \in Tasks : Request(u)' = Request(u)
        BY <2>0 DEF Request
      <3>2. \A i \in 1..Len(toHost') : i + 1 \in 1..Len(toHost) /\ toHost'[i] = toHost[i + 1]
        BY <2>0
      <3>3. \A i \in 1..Len(toHost) : toHost[i].type \in Answered =>
              i - 1 \in 1..Len(toHost') /\ toHost'[i - 1] = toHost[i]
        BY <2>0, <2>1
      <3>4. \A i \in 1..Len(toHost') : toHost'[i].type \in Answered =>
              /\ endpoint' = <<>>
              /\ \E t \in Tasks : pc'[t] = "recv" /\ toHost'[i] = Request(t)'
              /\ \A j \in 1..Len(toHost') : toHost'[j].type \in Answered => i = j
        <4> SUFFICES ASSUME NEW i \in 1..Len(toHost'), toHost'[i].type \in Answered
                     PROVE  /\ endpoint' = <<>>
                            /\ \E t \in Tasks : pc'[t] = "recv" /\ toHost'[i] = Request(t)'
                            /\ \A j \in 1..Len(toHost') : toHost'[j].type \in Answered => i = j
          OBVIOUS
        <4>1. i + 1 \in 1..Len(toHost) /\ toHost[i + 1].type \in Answered /\ toHost'[i] = toHost[i + 1]
          BY <3>2
        <4>2. endpoint = <<>> /\ \E t \in Tasks : pc[t] = "recv" /\ toHost[i + 1] = Request(t)
          BY <4>1 DEF AnswerDue
        <4>3. \A j \in 1..Len(toHost) : toHost[j].type \in Answered => i + 1 = j
          BY <4>1 DEF AnswerDue
        <4>4. \A j \in 1..Len(toHost') : toHost'[j].type \in Answered => i = j
          BY <3>2, <4>3
        <4> QED BY <2>0, <2>1, <3>1, <4>1, <4>2, <4>4
      <3>5. \A t \in Tasks : pc'[t] = "recv" =>
              endpoint' # <<>> \/ \E i \in 1..Len(toHost') : toHost'[i].type \in Answered
        BY <2>0, <2>1, <3>3 DEF AnswerDue
      <3> QED BY <2>0, <2>1, <3>4, <3>5 DEF AnswerDue
    <2>2. ASSUME NEW ok \in BOOLEAN, m.type = "announce", HostConnects(ok) PROVE AnswerDue'
      <3>1. conn = "wait" /\ Len(toHost') = 0
        BY <2>0, <2>2 DEF Connecting
      <3>2. \A t \in Tasks : pc[t] # "recv"
        BY <3>1, NothingDue
      <3> QED BY <2>0, <3>1, <3>2 DEF AnswerDue
    <2>3. ASSUME NEW ok \in BOOLEAN, NEW r \in ResHandles, m.type \in Types, HostServes(m, ok, r)
          PROVE  AnswerDue'
      <3>1. CASE m.type \notin Answered
        BY <2>1, <2>3, <3>1 DEF HostServes
      <3>2. CASE m.type \in Answered
        <4> DEFINE a == [type |-> m.type, to |-> m.task, from |-> channel, ok |-> ok,
                         res |-> IF m.type = "ALLOC" /\ ok THEN r ELSE None]
        <4>1. PICK t \in Tasks : pc[t] = "recv" /\ m = Request(t)
          BY <2>0, <3>2 DEF AnswerDue
        <4>2. endpoint = <<>> /\ \A i \in 1..Len(toHost') : toHost'[i].type \notin Answered
          BY <2>0, <3>2 DEF AnswerDue
        <4>3. conn = "open" /\ remote = channel
          BY <1>0, <4>1 DEF CallsOK, Connecting
        <4>4. endpoint' = <<a>>
          BY <2>3, <3>2, <4>2, <4>3 DEF HostServes, Arrives
        <4>5. a.to = t /\ a.type = call[t].type /\ a.from = remote
          BY <4>1, <4>3 DEF Request
        <4> HIDE DEF a
        <4> QED BY <2>0, <4>1, <4>2, <4>4, <4>5 DEF AnswerDue
      <3> QED BY <3>1, <3>2
    <2>4. CASE m.type = "remove" /\ HostRemoves
      BY <2>1, <2>4 DEF HostRemoves, Answered
    <2>5. ASSUME m.type \in Types, m.channel # channel, UNCHANGED <<host, endpoint>>
          PROVE  AnswerDue'
      <3>1. conn # "open"
        BY <2>0, <2>5 DEF Connecting
      <3>2. m.type \notin Answered
        BY <2>0, <3>1, NothingDue
      <3> QED BY <2>1, <2>5, <3>2
    <2> QED BY <1>0, <1>1, <2>2, <2>3, <2>4, <2>5, HostCases
  <1>2. CASE Connect
    <2>1. PICK a \in Message : a.type = "announce" /\ toHost' = Append(toHost, a)
      BY <1>2, AnnounceTyped DEF Connect, Announce
    <2>2. conn = "none" /\ endpoint' = <<>> /\ UNCHANGED pc
      BY <1>2 DEF Connect
    <2>3. \A i \in 1..Len(toHost') : toHost'[i].type \notin Answered
      BY <1>0, <2>1, <2>2, NothingDue, ToHostWritten DEF Answered
    <2> QED BY <2>2, <2>3, NothingDue DEF AnswerDue
  <1>3. CASE Connected
    <2>1. toHost = <<>> /\ Len(endpoint) = 1 /\ endpoint # <<>>
      <3>1. toHost # <<>> => Len(toHost) \in 1..Len(toHost)
        BY <1>0, TailFacts DEF Typed
      <3> QED BY <1>3, <3>1 DEF Connected, Connecting
    <2>2. Tail(endpoint) = <<>>
      <3>1. Tail(endpoint) \in Seq(Ack) /\ Len(Tail(endpoint)) = 0
        BY <1>0, <2>1, TailFacts DEF Typed
      <3> QED BY <3>1, EmptySeq
    <2>3. \A t \in Tasks : pc[t] # "recv"
      BY <1>3, NothingDue DEF Connected
    <2> QED BY <1>3, <2>1, <2>2, <2>3 DEF Connected, AnswerDue
  <1>4. CASE ConnectTimesOut
    BY <1>4, NoneExpires DEF ConnectTimesOut
  <1>5. CASE Disconnect
    <2>1. PICK a \in Message : a.type = "remove" /\ toHost' = Append(toHost, a)
      BY <1>5, AnnounceTyped DEF Disconnect, Announce
    <2>2. endpoint' = <<>> /\ UNCHANGED pc /\ \A t \in Tasks : pc[t] # "recv"
      BY <1>0, <1>5 DEF Disconnect, Idle, CallsOK
    <2>3. \A i \in 1..Len(toHost') : toHost'[i].type \notin Answered
      BY <1>0, <2>1, <2>2, NothingDue, ToHostWritten DEF Answered
    <2> QED BY <2>2, <2>3 DEF AnswerDue
  <1>6. ASSUME NEW t \in Tasks,
               \/ request(t) \/ requestData(t) \/ requestConstraints(t)
               \/ releaseConstraints(t) \/ release(t)
        PROVE  AnswerDue'
    <2>1. pc[t] = "out" /\ UNCHANGED <<toHost, endpoint, conn, remote>>
      BY <1>6 DEF request, requestData, requestConstraints, releaseConstraints, release,
         setConstraints, Begin
    <2>2. pc'[t] # "recv" /\ \A u \in Tasks : u # t => pc'[u] = pc[u] /\ call'[u] = call[u]
      BY <1>0, <1>6 DEF request, requestData, requestConstraints, releaseConstraints, release,
         setConstraints, Begin, Typed
    <2> QED BY <2>1, <2>2, OthersWait
  <1>7. ASSUME NEW t \in Tasks, Send(t) PROVE AnswerDue'
    <2>1. /\ pc[t] = "send" /\ UNCHANGED <<endpoint, conn, remote>> /\ conn = "open"
          /\ Request(t) \in Message /\ toHost' = Append(toHost, Request(t))
      BY <1>0, <1>7, RequestTyped DEF Send, CallsOK
    <2>2. /\ Len(toHost) \in Nat /\ Len(toHost') = Len(toHost) + 1
          /\ \A i \in 1..Len(toHost) : toHost'[i] = toHost[i]
          /\ toHost'[Len(toHost) + 1] = Request(t)
      BY <1>0, <2>1, ToHostWritten
    <2>3. CASE call[t].type \in Answered
      <3>1. call[t].type # "FREE"
        BY <2>3 DEF Answered
      <3>2. \A u \in Tasks : pc[u] # "recv"
        BY <2>1, <3>1, OneWaits
      <3>3. endpoint = <<>> /\ \A i \in 1..Len(toHost) : toHost[i].type \notin Answered
        BY <2>1, <3>2, NothingDue
      <3>4. pc' = [pc EXCEPT ![t] = "recv"] /\ UNCHANGED call
        BY <1>7, <2>3 DEF Send
      <3>5. pc'[t] = "recv" /\ \A u \in Tasks : pc'[u] = "recv" => u = t
        BY <1>0, <3>2, <3>4 DEF Typed
      <3>6. Request(t)' = Request(t) /\ Request(t).type \in Answered
        BY <2>1, <2>3, <3>4 DEF Request
      <3>7. \A i \in 1..Len(toHost') : toHost'[i].type \in Answered =>
              i = Len(toHost) + 1 /\ toHost'[i] = Request(t)'
        BY <2>2, <3>3, <3>6
      <3>8. toHost'[Len(toHost) + 1].type \in Answered /\ Len(toHost) + 1 \in 1..Len(toHost')
        BY <2>2, <3>6
      <3> QED BY <2>1, <3>3, <3>5, <3>7, <3>8 DEF AnswerDue
    <2>4. CASE call[t].type \notin Answered
      <3>1. Request(t).type \notin Answered
        BY <2>4 DEF Request
      <3>2. pc'[t] = "out" /\ \A u \in Tasks : u # t => pc'[u] = pc[u] /\ call'[u] = call[u]
        BY <1>0, <1>7, <2>4 DEF Send, Typed
      <3>3. \A u \in Tasks : u # t => Request(u)' = Request(u)
        BY <2>1, <3>2 DEF Request
      <3>4. /\ \A i \in 1..Len(toHost') : toHost'[i].type \in Answered =>
                 i \in 1..Len(toHost) /\ toHost'[i] = toHost[i]
            /\ \A i \in 1..Len(toHost) : i \in 1..Len(toHost')
        BY <2>2, <3>1
      <3> QED BY <2>1, <2>2, <3>2, <3>3, <3>4 DEF AnswerDue
    <2> QED BY <2>3, <2>4
  <1>8. ASSUME NEW t \in Tasks, Recv(t) PROVE AnswerDue'
    <2>1. /\ pc[t] = "recv" /\ endpoint # <<>> /\ endpoint' = Tail(endpoint) /\ conn = "open"
          /\ UNCHANGED <<toHost, conn>>
      BY <1>0, <1>8 DEF Recv, CallsOK
    <2>2. endpoint' = <<>>
      BY <1>0, <2>1, TailFacts, EmptySeq DEF Typed, AnswerDue
    <2>3. \A i \in 1..Len(toHost) : toHost[i].type \notin Answered
      BY <2>1 DEF AnswerDue
    <2>4. \A u \in Tasks : pc'[u] # "recv"
      BY <1>0, <1>8, <2>1, OneWaits DEF Recv, Typed
    <2> QED BY <2>1, <2>2, <2>3, <2>4 DEF AnswerDue
  <1>9. ASSUME NEW t \in Tasks, TimesOut(t) PROVE AnswerDue'
    BY <1>9, NoneExpires DEF TimesOut
  <1>10. ASSUME NEW t \in Tasks, Pend(t) \/ SendFails(t) \/ Check(t) PROVE AnswerDue'
    <2>1. pc[t] # "recv" /\ UNCHANGED <<toHost, endpoint, conn, remote>>
      BY <1>10 DEF Pend, SendFails, Check
    <2>2. pc'[t] # "recv" /\ \A u \in Tasks : u # t => pc'[u] = pc[u] /\ call'[u] = call[u]
      BY <1>0, <1>10 DEF Pend, SendFails, Check, Typed
    <2> QED BY <2>1, <2>2, OthersWait
  <1>11. CASE UNCHANGED vars
    BY <1>11 DEF vars, AnswerDue, Request
  <1> QED
    BY <1>1, <1>2, <1>3, <1>4, <1>5, <1>6, <1>7, <1>8, <1>9, <1>10, <1>11
    DEF Next, Running, TaskStep

\* A task with an answer in its hand keeps it until it looks at it.
LEMMA OwnStep == Always /\ Connecting /\ AnswerDue /\ OwnAnswer /\ [Next]_vars /\ timeouts = 0 /\ timeouts' = 0 => OwnAnswer'
  <1> SUFFICES ASSUME Always /\ Connecting /\ AnswerDue /\ OwnAnswer /\ [Next]_vars /\ timeouts = 0 /\ timeouts' = 0
               PROVE  OwnAnswer'
    OBVIOUS
  <1> USE DEF host, handle, task, Goto, Return
  <1>0. Typed /\ CallsOK
    BY DEF Always
  <1> DEFINE Kept(u) == pc'[u] = pc[u] /\ ack'[u] = ack[u] /\ call'[u] = call[u]
  <1>1. ASSUME UNCHANGED remote, \A u \in Tasks : pc'[u] # "check" \/ Kept(u)
        PROVE  OwnAnswer'
    BY <1>1 DEF OwnAnswer
  <1>2. CASE Host
    <2>1. UNCHANGED <<remote, pc, ack, call>>
      BY <1>0, <1>2, HostReads
    <2> QED BY <2>1, <1>1
  <1>3. CASE Connect \/ ConnectTimesOut \/ UNCHANGED vars
    <2>1. UNCHANGED <<remote, pc, ack, call>>
      BY <1>3 DEF Connect, ConnectTimesOut, vars
    <2> QED BY <2>1, <1>1
  <1>4. CASE Connected \/ Disconnect
    <2>1. UNCHANGED pc /\ \A t \in Tasks : pc[t] = "out"
      BY <1>0, <1>4 DEF Connected, Disconnect, Idle, CallsOK
    <2> QED BY <2>1 DEF OwnAnswer
  <1>5. ASSUME NEW t \in Tasks,
               \/ request(t) \/ requestData(t) \/ requestConstraints(t)
               \/ releaseConstraints(t) \/ release(t)
        PROVE  OwnAnswer'
    <2>1. /\ UNCHANGED remote
          /\ \A u \in Tasks : pc'[u] # "check" \/ Kept(u)
      BY <1>0, <1>5 DEF Typed, request, requestData, requestConstraints, releaseConstraints, release,
       setConstraints, Begin
    <2> HIDE DEF Kept
    <2> QED BY <2>1, <1>1
  <1>6. ASSUME NEW t \in Tasks, Pend(t) \/ Send(t) \/ SendFails(t) \/ TimesOut(t) \/ Check(t)
        PROVE  OwnAnswer'
    <2>1. /\ UNCHANGED remote
          /\ \A u \in Tasks : pc'[u] # "check" \/ Kept(u)
      BY <1>0, <1>6 DEF Typed, Pend, Send, SendFails, TimesOut, Check
    <2> HIDE DEF Kept
    <2> QED BY <2>1, <1>1
  <1>7. ASSUME NEW t \in Tasks, Recv(t) PROVE OwnAnswer'
    <2>1. /\ pc[t] = "recv" /\ endpoint # <<>> /\ conn = "open" /\ UNCHANGED <<remote, call>>
          /\ ack' = [ack EXCEPT ![t] = endpoint[1]] /\ pc' = [pc EXCEPT ![t] = "check"]
      BY <1>0, <1>7, TailFacts DEF Recv, CallsOK, Typed
    <2>2. PICK u \in Tasks : /\ pc[u] = "recv" /\ endpoint[1].to = u
                             /\ endpoint[1].type = call[u].type /\ endpoint[1].from = remote
      BY <2>1 DEF AnswerDue
    <2>3. u = t
      BY <2>1, <2>2, OneWaits
    <2> QED BY <1>0, <2>1, <2>2, <2>3 DEF OwnAnswer, Typed
  <1> QED BY <1>2, <1>3, <1>4, <1>5, <1>6, <1>7 DEF Next, Running, TaskStep

\* Where nothing moves.
LEMMA NothingMoves ==
  ASSUME InOnePlace, UNCHANGED <<conn, allocated, endpoint, toHost>>,
         \A t \in Tasks : held'[t] = held[t],
         \A t \in Tasks : pc'[t] = "check" <=> pc[t] = "check",
         \A t \in Tasks : pc[t] = "check" => ack'[t] = ack[t]
  PROVE  InOnePlace'
  <1>1. ASSUME NEW r \in ResHandles
        PROVE  /\ Arrived(r)' = Arrived(r) /\ Freed(r)' = Freed(r)
               /\ \A t \in Tasks : Holds(t, r)' = Holds(t, r) /\ InHand(t, r)' = InHand(t, r)
               /\ \A i \in 1..Len(toHost) : Leaving(i, r)' = Leaving(i, r)
    BY DEF Arrived, Freed, Holds, InHand, Leaving
  <1> QED BY <1>1 DEF InOnePlace, Somewhere, NotTwice

\* What becomes of the FREE messages as the FIFO is read or written.
LEMMA FreedRead ==
  ASSUME Typed, Host, NEW r \in ResHandles, NotTwice(r)
  PROVE  /\ Freed(r)' <=> Freed(r) /\ ~(toHost[1].type = "FREE" /\ toHost[1].res = r)
         /\ \A i, j \in 1..Len(toHost') : Leaving(i, r)' /\ Leaving(j, r)' => i = j
  <1>1. /\ Len(toHost) \in Nat \ {0} /\ Len(toHost') = Len(toHost) - 1
        /\ \A i \in 1..Len(toHost') : toHost'[i] = toHost[i + 1]
    BY HostReads
  <1>2. \A i \in 1..Len(toHost') : i + 1 \in 1..Len(toHost) /\ (Leaving(i, r)' <=> Leaving(i + 1, r))
    BY <1>1 DEF Leaving
  <1>3. \A i, j \in 1..Len(toHost) : Leaving(i, r) /\ Leaving(j, r) => i = j
    BY DEF NotTwice
  <1>4. \A i \in 1..Len(toHost) : i # 1 => i - 1 \in 1..Len(toHost') /\ (Leaving(i - 1, r)' <=> Leaving(i, r))
    BY <1>1 DEF Leaving
  <1>5. 1 \in 1..Len(toHost) /\ (Leaving(1, r) <=> toHost[1].type = "FREE" /\ toHost[1].res = r)
    BY <1>1 DEF Leaving
  <1>6. Freed(r)' <=> \E i \in 1..Len(toHost') : Leaving(i, r)'
    BY DEF Freed
  <1>7. ASSUME NEW i \in 1..Len(toHost'), Leaving(i, r)' PROVE Freed(r) /\ ~Leaving(1, r)
    <2>1. i + 1 # 1
      BY <1>1
    <2> QED BY <1>2, <1>3, <1>5, <1>7, <2>1 DEF Freed
  <1>8. ASSUME Freed(r), ~Leaving(1, r) PROVE Freed(r)'
    BY <1>4, <1>6, <1>8 DEF Freed
  <1>9. ASSUME NEW i \in 1..Len(toHost'), NEW j \in 1..Len(toHost'), Leaving(i, r)', Leaving(j, r)'
        PROVE  i = j
    <2>1. i + 1 = j + 1
      BY <1>2, <1>3, <1>9
    <2> QED BY <2>1
  <1> QED BY <1>5, <1>6, <1>7, <1>8, <1>9

\* A resource that is given back is given back once.
LEMMA FreedWritten ==
  ASSUME Typed, NEW m \in Message, toHost' = Append(toHost, m), NEW r \in ResHandles, NotTwice(r),
         m.type = "FREE" /\ m.res = r => ~Freed(r)
  PROVE  /\ Freed(r)' <=> Freed(r) \/ (m.type = "FREE" /\ m.res = r)
         /\ \A i, j \in 1..Len(toHost') : Leaving(i, r)' /\ Leaving(j, r)' => i = j
  <1>1. /\ Len(toHost) \in Nat /\ Len(toHost') = Len(toHost) + 1
        /\ \A i \in 1..Len(toHost) : toHost'[i] = toHost[i]
        /\ toHost'[Len(toHost) + 1] = m
    BY ToHostWritten
  <1>2. \A i \in 1..Len(toHost) : Leaving(i, r)' <=> Leaving(i, r)
    BY <1>1 DEF Leaving
  <1>3. PICK n : n = Len(toHost) + 1
    OBVIOUS
  <1>4. Leaving(n, r)' <=> m.type = "FREE" /\ m.res = r
    BY <1>1, <1>3 DEF Leaving
  <1>5. \A i : i \in 1..Len(toHost') <=> i \in 1..Len(toHost) \/ i = n
    BY <1>1, <1>3
  <1> QED BY <1>2, <1>4, <1>5 DEF Freed, NotTwice

\* A resource moves from one place to the next, and is in one at a time.
LEMMA PlaceStep == Always /\ Connecting /\ AnswerDue /\ OwnAnswer /\ InOnePlace /\ [Next]_vars
           /\ timeouts = 0 /\ timeouts' = 0
                   => InOnePlace'
  <1> SUFFICES ASSUME Always /\ Connecting /\ AnswerDue /\ OwnAnswer /\ InOnePlace /\ [Next]_vars
           /\ timeouts = 0 /\ timeouts' = 0
               PROVE  InOnePlace'
    OBVIOUS
  <1> USE NoneAssumption DEF host, handle, task, Goto, Return
  <1>0. Typed /\ CallsOK
    BY DEF Always
  <1>1. CASE conn' # "open"
    BY <1>1 DEF InOnePlace
  <1>2. CASE Host
    <2> DEFINE m == toHost[1]
    <2>1. /\ UNCHANGED <<conn, remote, pc, call, ack, held>> /\ m \in Message
          /\ Len(toHost) \in Nat \ {0}
      BY <1>0, <1>2, HostReads
    <2>2. SUFFICES ASSUME conn = "open", NEW r \in ResHandles
                   PROVE  (r \in allocated <=> Somewhere(r))' /\ NotTwice(r)'
      BY <2>1 DEF InOnePlace
    <2>3. m.type \in Types /\ m.channel = channel
      BY <2>1, <2>2 DEF Connecting
    <2>4. PICK ok \in BOOLEAN, q \in ResHandles : HostServes(m, ok, q)
      BY <1>0, <1>2, <2>3, HostCases DEF Types, Answered, Unanswered
    <2>5. (r \in allocated <=> Somewhere(r)) /\ NotTwice(r)
      BY <2>2 DEF InOnePlace
    <2>6. /\ Freed(r)' <=> Freed(r) /\ ~(m.type = "FREE" /\ m.res = r)
          /\ \A i, j \in 1..Len(toHost') : Leaving(i, r)' /\ Leaving(j, r)' => i = j
      BY <1>0, <1>2, <2>5, FreedRead
    <2>7. \A t \in Tasks : (Holds(t, r)' <=> Holds(t, r)) /\ (InHand(t, r)' <=> InHand(t, r))
      BY <2>1 DEF Holds, InHand
    <2>8. CASE m.type = "FREE"
      <3>1. allocated' = allocated \ {m.res} /\ Arrived(r)' = Arrived(r)
        BY <2>4, <2>8 DEF HostServes, Answered, Arrived
      <3>2. m.res = r => Freed(r)
        BY <2>1, <2>8 DEF Freed, Leaving
      <3> QED BY <2>5, <2>6, <2>7, <2>8, <3>1, <3>2 DEF Somewhere, NotTwice
    <2>9. CASE m.type \in Answered
      <3> DEFINE given == IF m.type = "ALLOC" /\ ok THEN q ELSE None
      <3>1. endpoint = <<>>
        BY <2>1, <2>9 DEF AnswerDue
      <3>2. endpoint' = <<[type |-> m.type, to |-> m.task, from |-> channel, ok |-> ok, res |-> given]>>
        BY <2>2, <2>4, <2>9, <3>1 DEF HostServes, Arrives
      <3>3. Arrived(r)' <=> given = r
        BY <3>2 DEF Arrived
      <3>4. ~Arrived(r)
        BY <3>1 DEF Arrived
      <3>5. /\ given = q /\ q # None => q \notin allocated /\ allocated' = allocated \cup {q}
            /\ given = None => allocated' = allocated
            /\ given \in {q, None} /\ q # None
        BY <2>4, <2>9 DEF HostServes, Answered
      <3>6. r # None
        OBVIOUS
      <3> HIDE DEF given
      <3> QED BY <2>5, <2>6, <2>7, <2>9, <3>3, <3>4, <3>5, <3>6 DEF Somewhere, NotTwice, Answered
    <2>10. CASE m.type = "REL_CONSTRAINTS"
      <3>1. UNCHANGED allocated /\ Arrived(r)' = Arrived(r)
        BY <2>4, <2>10 DEF HostServes, Answered, Arrived
      <3> QED BY <2>5, <2>6, <2>7, <2>10, <3>1 DEF Somewhere, NotTwice
    <2> QED BY <2>3, <2>8, <2>9, <2>10 DEF Types, Unanswered
  <1>3. CASE Connected
    <2>1. CASE conn' = "open"
      <3>1. toHost = <<>> /\ Len(endpoint) = 1 /\ allocated = {} /\ endpoint # <<>> /\ conn = "wait"
        <4>1. toHost # <<>> => Len(toHost) \in 1..Len(toHost)
          BY <1>0, TailFacts DEF Typed
        <4> QED BY <1>3, <4>1 DEF Connected, Connecting
      <3>2. endpoint' \in Seq(Ack) /\ Len(endpoint') = 0
        BY <1>0, <1>3, <3>1, TailFacts DEF Typed, Connected
      <3>3. /\ UNCHANGED <<toHost, allocated>>
            /\ \A t \in Tasks : held'[t] = {} /\ pc'[t] = "out"
        BY <1>0, <1>3, <3>1 DEF Connected, CallsOK
      <3>4. Len(toHost') = 0
        BY <3>1, <3>3
      <3> QED BY <3>1, <3>2, <3>3, <3>4 DEF InOnePlace, Somewhere, NotTwice, Arrived, Freed, Holds, InHand
    <2> QED BY <1>1, <2>1
  <1>4. CASE Connect \/ ConnectTimesOut \/ Disconnect
    BY <1>1, <1>4 DEF Connect, ConnectTimesOut, Disconnect
  <1>5. ASSUME NEW t \in Tasks,
               \/ request(t) \/ requestData(t) \/ requestConstraints(t)
               \/ releaseConstraints(t) \/ release(t)
        PROVE  InOnePlace'
    <2>1. /\ UNCHANGED <<conn, allocated, endpoint, toHost, held, ack>>
          /\ \A u \in Tasks : pc'[u] = "check" <=> pc[u] = "check"
      BY <1>0, <1>5 DEF Typed, request, requestData, requestConstraints, releaseConstraints, release,
       setConstraints, Begin
    <2> QED BY <2>1, NothingMoves
  <1>6. ASSUME NEW t \in Tasks, Pend(t) \/ SendFails(t) PROVE InOnePlace'
    <2>1. /\ UNCHANGED <<conn, allocated, endpoint, toHost, held, ack>>
          /\ \A u \in Tasks : pc'[u] = "check" <=> pc[u] = "check"
      BY <1>0, <1>6 DEF Typed, Pend, SendFails
    <2> QED BY <2>1, NothingMoves
  <1>7. ASSUME NEW t \in Tasks, TimesOut(t) PROVE InOnePlace'
    BY <1>7, NoneExpires DEF TimesOut
  <1>8. ASSUME NEW t \in Tasks, Send(t), NEW r \in ResHandles, conn = "open"
        PROVE  (r \in allocated <=> Somewhere(r))' /\ NotTwice(r)'
    <2> DEFINE back == call[t].type = "FREE" /\ call[t].res = r
    <2>1. (r \in allocated <=> Somewhere(r)) /\ NotTwice(r)
      BY <1>8 DEF InOnePlace
    <2>2. /\ pc[t] = "send" /\ UNCHANGED <<conn, allocated, endpoint, ack>>
          /\ Request(t) \in Message /\ toHost' = Append(toHost, Request(t))
      BY <1>8, RequestTyped DEF Send
    <2>3. back => Holds(t, r) /\ ~Freed(r)
      BY <1>0, <2>1, <2>2 DEF CallsOK, Holds, NotTwice
    <2>4. Request(t).type = call[t].type /\ Request(t).res = call[t].res
      BY DEF Request
    <2>5. /\ Freed(r)' <=> Freed(r) \/ back
          /\ \A i, j \in 1..Len(toHost') : Leaving(i, r)' /\ Leaving(j, r)' => i = j
      BY <1>0, <2>1, <2>2, <2>3, <2>4, FreedWritten
    <2>6. Arrived(r)' = Arrived(r)
      BY <2>2 DEF Arrived
    <2>7. \A u \in Tasks : InHand(u, r)' <=> InHand(u, r)
      BY <1>0, <1>8, <2>2 DEF Send, Typed, InHand
    <2>8. \A u \in Tasks : Holds(u, r)' <=> Holds(u, r) /\ ~(u = t /\ back)
      BY <1>0, <1>8 DEF Send, Typed, Holds
    <2> HIDE DEF back
    <2> QED BY <2>1, <2>2, <2>3, <2>5, <2>6, <2>7, <2>8 DEF Somewhere, NotTwice
  <1>9. ASSUME NEW t \in Tasks, Recv(t), NEW r \in ResHandles, conn = "open"
        PROVE  (r \in allocated <=> Somewhere(r))' /\ NotTwice(r)'
    <2>1. (r \in allocated <=> Somewhere(r)) /\ NotTwice(r)
      BY <1>9 DEF InOnePlace
    <2>2. /\ pc[t] = "recv" /\ UNCHANGED <<allocated, toHost, held>> /\ Len(endpoint) = 1
          /\ Tail(endpoint) \in Seq(Ack) /\ Len(Tail(endpoint)) = 0 /\ endpoint' = Tail(endpoint)
          /\ ack' = [ack EXCEPT ![t] = endpoint[1]] /\ pc' = [pc EXCEPT ![t] = "check"]
      BY <1>0, <1>9, TailFacts DEF Recv, Typed, AnswerDue
    <2>3. ~Arrived(r)' /\ (Arrived(r) <=> endpoint[1].res = r)
      BY <2>2 DEF Arrived
    <2>4. \A u \in Tasks : InHand(u, r)' <=> InHand(u, r) \/ (u = t /\ endpoint[1].res = r)
      BY <1>0, <2>2 DEF InHand, Typed
    <2>5. ~InHand(t, r)
      BY <2>2 DEF InHand
    <2>6. /\ Freed(r)' = Freed(r) /\ \A u \in Tasks : Holds(u, r)' = Holds(u, r)
          /\ \A i, j \in 1..Len(toHost') : Leaving(i, r)' /\ Leaving(j, r)' => i = j
      BY <2>1, <2>2 DEF Freed, Leaving, Holds, NotTwice
    <2> QED BY <2>1, <2>2, <2>3, <2>4, <2>5, <2>6 DEF Somewhere, NotTwice
  <1>10. ASSUME NEW t \in Tasks, Check(t), NEW r \in ResHandles, conn = "open"
        PROVE  (r \in allocated <=> Somewhere(r))' /\ NotTwice(r)'
    <2>1. (r \in allocated <=> Somewhere(r)) /\ NotTwice(r)
      BY <1>10 DEF InOnePlace
    <2>2. /\ pc[t] = "check" /\ UNCHANGED <<allocated, toHost, endpoint>>
          /\ ack' = [ack EXCEPT ![t] = NoAck] /\ pc' = [pc EXCEPT ![t] = "out"]
          /\ held' = IF call[t].type = "ALLOC" /\ ~Refused(t)
                     THEN [held EXCEPT ![t] = @ \cup {ack[t].res}] ELSE held
      BY <1>10 DEF Check
    <2>3. ack[t].type = call[t].type /\ ack[t].from = remote
      BY <2>2 DEF OwnAnswer
    <2>4. ack[t].res = r => call[t].type = "ALLOC" /\ ~Refused(t)
      <3>1. AckOK(ack[t], channels) /\ r # None
        BY DEF Always, AcksOK
      <3> QED BY <2>3, <3>1 DEF AckOK, Refused
    <2>5. \A u \in Tasks : InHand(u, r)' <=> InHand(u, r) /\ u # t
      BY <1>0, <2>2 DEF InHand, Typed
    <2>6. \A u \in Tasks : Holds(u, r)' <=> Holds(u, r) \/ (u = t /\ InHand(t, r))
      BY <1>0, <2>2, <2>4 DEF Holds, InHand, Typed
    <2>7. /\ Freed(r)' = Freed(r) /\ Arrived(r)' = Arrived(r)
          /\ \A i, j \in 1..Len(toHost') : Leaving(i, r)' /\ Leaving(j, r)' => i = j
      BY <2>1, <2>2 DEF Freed, Arrived, Leaving, NotTwice
    <2> QED BY <2>1, <2>2, <2>5, <2>6, <2>7 DEF Somewhere, NotTwice
  <1>11. ASSUME NEW t \in Tasks, Send(t) \/ Recv(t) \/ Check(t) PROVE InOnePlace'
    <2>1. UNCHANGED conn
      BY <1>11 DEF Send, Recv, Check
    <2> QED BY <1>8, <1>9, <1>10, <1>11, <2>1 DEF InOnePlace
  <1>12. CASE UNCHANGED vars
    BY <1>12, NothingMoves DEF vars
  <1> QED
    BY <1>2, <1>3, <1>4, <1>5, <1>6, <1>7, <1>11, <1>12 DEF Next, Running, TaskStep

-----------------------------------------------------------------------------
\* Both parts hold at first.
LEMMA InvInit == Init => IInv
  <1> SUFFICES ASSUME Init PROVE IInv
    OBVIOUS
  <1>1. Connecting /\ AnswerDue /\ OwnAnswer /\ InOnePlace
    BY DEF Init, Connecting, AnswerDue, OwnAnswer, InOnePlace
  <1> QED BY <1>1, AlwaysInit DEF IInv, InTime

\* Both parts are kept, the second as long as no answer is late.
LEMMA InvStep == IInv /\ [Next]_vars => IInv'
  <1> SUFFICES ASSUME IInv, [Next]_vars PROVE IInv'
    OBVIOUS
  <1>1. Always /\ Always'
    BY AlwaysStep DEF IInv
  <1>2. ASSUME timeouts' = 0 PROVE (Connecting /\ AnswerDue /\ OwnAnswer /\ InOnePlace)'
    <2>1. timeouts = 0
      BY <1>1, <1>2, Timely
    <2>2. Connecting /\ AnswerDue /\ OwnAnswer /\ InOnePlace
      BY <2>1 DEF IInv, InTime
    <2> QED BY <1>1, <1>2, <2>1, <2>2, ConnectingStep, AnswerStep, OwnStep, PlaceStep
  <1> QED BY <1>1, <1>2 DEF IInv, InTime

\* Whatever the host answers and whenever waits end, the semaphore of the handle
\* counts to one, the ring of the host is not overrun, and a channel is made
\* for each connection at most.
THEOREM ResourceTypeOK == Spec => []TypeOK
  <1>1. IInv => TypeOK
    <2> SUFFICES ASSUME IInv PROVE TypeOK
      OBVIOUS
    <2>1. Typed /\ AcksOK /\ ChannelsAnnounced
      BY DEF IInv, Always
    <2>2. Cardinality(Announced(toHost)) \in Nat
      BY <2>1, AnnouncedFinite DEF Typed
    <2>3. channels <= connects /\ remote \in 0..channels
      BY <2>1, <2>2, BoundsAssumption DEF Typed, AcksOK, ChannelsAnnounced
    <2> QED BY <2>1, <2>3 DEF Typed, AcksOK, TypeOK
  <1> QED BY InvInit, InvStep, <1>1, PTL DEF Spec

\* As long as no wait ends while its answer is due, the task that takes an ack
\* from the shared endpoint is the one that asked, and the lengths that
\* IpcResource_request asserts are equal.
THEOREM AnswersReachTheirCallers == Spec => []OwnAnswer
  <1>1. IInv => OwnAnswer
    BY DEF IInv, InTime, OwnAnswer
  <1> QED BY InvInit, InvStep, <1>1, PTL DEF Spec

\* As long as no wait ends while its answer is due, every resource the host gave
\* out on the open channel is held by one task or is on its way to the one that
\* asked or back to the host.
THEOREM HostAndTasksAgree == Spec => []HostAgrees
  <1>1. IInv => HostAgrees
    <2> SUFFICES ASSUME IInv, timeouts = 0, conn = "open" PROVE HostAgrees
      BY DEF HostAgrees
    <2>1. Connecting /\ InOnePlace /\ Typed
      BY DEF IInv, InTime, Always
    <2>2. ASSUME NEW r \in ResHandles
          PROVE  /\ OnItsWay(r) <=> Arrived(r) \/ Freed(r) \/ \E t \in Tasks : InHand(t, r)
                 /\ (r \in allocated <=> Somewhere(r)) /\ NotTwice(r)
      BY <2>1 DEF OnItsWay, Arrived, Freed, Leaving, InHand, InOnePlace
    <2>3. ASSUME NEW r \in ResHandles
          PROVE  LET holders == {t \in Tasks : r \in held[t]} IN
                   IF r \in allocated THEN OnItsWay(r) <=> holders = {} ELSE holders = {}
      BY <2>2 DEF Somewhere, NotTwice, Holds
    <2>4. ASSUME NEW t \in Tasks, NEW u \in Tasks, t # u PROVE held[t] \cap held[u] = {}
      BY <2>1, <2>2, <2>4 DEF NotTwice, Holds, Typed
    <2>5. remote = channel
      BY <2>1 DEF Connecting
    <2> QED BY <2>3, <2>4, <2>5 DEF HostAgrees
  <1> QED BY InvInit, InvStep, <1>1, PTL DEF Spec
===============================================================================
