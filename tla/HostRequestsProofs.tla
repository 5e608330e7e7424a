-------------------------- MODULE HostRequestsProofs --------------------------
(***************************************************************************)
(* Proofs about what the cores do when the host asks for it.               *)
(*                                                                         *)
(* IpcPower, for any number of locks and of requests: a lock that is held  *)
(* throughout refuses the request, and a core is suspended once for each   *)
(* request that is granted.                                                *)
(*                                                                         *)
(* Services, for any clients and endpoints, and any order of what clients, *)
(* managers and servers do: a service belongs to one client until that     *)
(* client gives it up, and nothing of an earlier owner of its address is   *)
(* left when the address is given out again.                               *)
(***************************************************************************)
EXTENDS IpcPower, Services, WellFoundedInduction, TLAPS

-----------------------------------------------------------------------------
(* IpcPower: the inductive invariant.                                      *)

Typed ==
  /\ request \in {"none", "HIBERNATION", "HIBERNATION_FORCE"}
  /\ reply \in {"none", "ACK", "CANCEL"}
  /\ isr \in {"idle", "check", "cancel", "notify", "ack", "suspend"}
  /\ notified \in {0, 1}
  /\ hibLocks \in [Cores -> 0..MaxLocks]
  /\ heldSince \in [Cores -> BOOLEAN]
  /\ curInit \in [Cores -> BOOLEAN]
  /\ semSuspend \in [Cores -> 0..2]
  /\ tskSuspend \in [Cores -> {"pend", "suspend", "off", "resume", "gone"}]
  /\ power \in [Cores -> {"on", "off"}]
  /\ suspendCount \in [Cores -> Nat] /\ resumeCount \in [Cores -> Nat]
  /\ acked \in Nat /\ requests \in Nat

\* One request at a time: its message, then the handler, then its answer.
OneRequest ==
  /\ request # "none" => isr = "idle" /\ reply = "none"
  /\ isr \in {"check", "cancel", "notify", "ack"} => reply = "none"
  /\ isr = "suspend" => reply = "ACK"
  /\ isr # "idle" => power[0] = "on"

\* A granted request is open from the message to core 1 until the host wakes
\* both cores.
Open == reply = "ACK" \/ isr \in {"ack", "suspend"}

\* Suspends of a core that are promised and not yet in its semaphore.
InTransit(c) == IF c = 0 THEN (IF isr = "suspend" THEN 1 ELSE 0) ELSE notified

\* A core that is being suspended has taken all that it was promised, and none is
\* promised or under way when no request is open.
SuspendsOfOneRequest ==
  \A c \in Cores :
    /\ power[c] = "off" <=> tskSuspend[c] = "off"
    /\ tskSuspend[c] \in {"suspend", "off"} => Open /\ InTransit(c) = 0
    /\ c = 0 /\ isr \in {"ack", "suspend"} => tskSuspend[c] \notin {"suspend", "off"}
    /\ ~Open => InTransit(c) = 0
    /\ curInit[c] =>
         /\ tskSuspend[c] # "gone"
         /\ semSuspend[c] + InTransit(c) <= 1
         /\ tskSuspend[c] \in {"suspend", "off"} => semSuspend[c] = 0
         /\ c = 0 /\ isr \in {"ack", "suspend"} => semSuspend[c] = 0
         /\ ~Open => semSuspend[c] = 0

\* What is in the semaphore and in transit is what a core still owes.
CountsAgree ==
  \A c \in Cores :
    /\ curInit[c] => suspendCount[c] + semSuspend[c] + InTransit(c) = Granted(c)
    /\ suspendCount[c] <= Granted(c)
    /\ suspendCount[c] - resumeCount[c]
         = IF tskSuspend[c] \in {"suspend", "off", "resume"} THEN 1 ELSE 0

\* The lock that was there before the request is there now, and the request is
\* refused or still to be looked at.
LockStops ==
  \A c \in Cores : heldSince[c] =>
    /\ hibLocks[c] > 0
    /\ ~Open /\ isr # "notify"
    /\ request # "HIBERNATION_FORCE"

IInv == Typed /\ OneRequest /\ SuspendsOfOneRequest /\ CountsAgree /\ LockStops

\* No request was made at first, and both cores are on.
LEMMA InvInit == PowerInit => IInv
  BY BoundsAssumption DEF PowerInit, IInv, Typed, OneRequest, SuspendsOfOneRequest, CountsAgree,
     LockStops, Open, InTransit, Granted, Cores

\* Each access of the handlers and of the suspend tasks keeps the counts.
LEMMA InvStep == IInv /\ [PowerNext]_powerVars => IInv'
  <1> SUFFICES ASSUME IInv, [PowerNext]_powerVars PROVE IInv'
    OBVIOUS
  <1> USE BoundsAssumption DEF IInv, Typed, OneRequest, SuspendsOfOneRequest, CountsAgree,
          LockStops, Open, InTransit, Granted, Cores, OutOfIsr, OthersRun, suspend, canHibernate,
          hostside, counts, locks
  <1>1. ASSUME NEW m \in {"HIBERNATION", "HIBERNATION_FORCE"}, HostRequest(m) PROVE IInv'
    <2>1. Typed'
      BY <1>1 DEF HostRequest
    <2>2. OneRequest'
      BY <1>1 DEF HostRequest
    <2>3. SuspendsOfOneRequest'
      BY <1>1 DEF HostRequest
    <2>4. CountsAgree'
      BY <1>1 DEF HostRequest
    <2>5. LockStops'
      BY <1>1 DEF HostRequest
    <2> QED BY <2>1, <2>2, <2>3, <2>4, <2>5
  <1>2. CASE HostCancelled
    BY <1>2 DEF HostCancelled
  <1>3. CASE HostWakes
    BY <1>3 DEF HostWakes
  <1>4. CASE IsrTake
    BY <1>4 DEF IsrTake
  <1>5. CASE IsrCheck
    BY <1>5 DEF IsrCheck
  <1>6. CASE IsrCancel
    BY <1>6 DEF IsrCancel
  <1>7. CASE IsrNotify
    BY <1>7 DEF IsrNotify
  <1>8. CASE IsrAck
    BY <1>8 DEF IsrAck
  <1>9. CASE IsrSuspend
    BY <1>9 DEF IsrSuspend
  <1>10. CASE Core1Isr
    BY <1>10 DEF Core1Isr
  <1>11. ASSUME NEW c \in Cores, TaskPend(c) PROVE IInv'
    <2>1. Typed'
      <3>1. semSuspend[c] - 1 \in 0..2 /\ suspendCount[c] + 1 \in Nat
        BY <1>11 DEF TaskPend
      <3> QED BY <1>11, <3>1 DEF TaskPend
    <2>2. OneRequest'
      BY <1>11 DEF TaskPend
    <2>3. SuspendsOfOneRequest'
      BY <1>11 DEF TaskPend
    <2>4. CountsAgree'
      <3>1. InTransit(c)' = InTransit(c) /\ Granted(c)' = Granted(c) /\ c \in {0, 1}
        BY <1>11 DEF TaskPend
      <3>2. CASE curInit[c]
        BY <1>11, <3>1, <3>2 DEF TaskPend
      <3>3. CASE ~curInit[c]
        BY <1>11, <3>1, <3>3 DEF TaskPend
      <3> QED BY <3>2, <3>3
    <2>5. LockStops'
      BY <1>11 DEF TaskPend
    <2> QED BY <2>1, <2>2, <2>3, <2>4, <2>5
  <1>12. ASSUME NEW c \in Cores, SuspendSwi(c) PROVE IInv'
    BY <1>12 DEF SuspendSwi
  <1>13. ASSUME NEW c \in Cores, PostResume(c) PROVE IInv'
    <2>1. Typed'
      BY <1>13 DEF PostResume
    <2>2. OneRequest'
      BY <1>13 DEF PostResume
    <2>3. SuspendsOfOneRequest'
      BY <1>13 DEF PostResume
    <2>4. CountsAgree'
      BY <1>13 DEF PostResume
    <2>5. LockStops'
      BY <1>13 DEF PostResume
    <2> QED BY <2>1, <2>2, <2>3, <2>4, <2>5
  <1>14. ASSUME NEW c \in Cores, hibernateLock(c) PROVE IInv'
    BY <1>14 DEF hibernateLock
  <1>15. ASSUME NEW c \in Cores, hibernateUnlock(c) PROVE IInv'
    <2>1. Typed'
      BY <1>15 DEF hibernateUnlock
    <2>2. OneRequest'
      BY <1>15 DEF hibernateUnlock
    <2>3. SuspendsOfOneRequest'
      BY <1>15 DEF hibernateUnlock
    <2>4. CountsAgree'
      BY <1>15 DEF hibernateUnlock
    <2>5. LockStops'
      BY <1>15 DEF hibernateUnlock
    <2> QED BY <2>1, <2>2, <2>3, <2>4, <2>5
  <1>16. ASSUME NEW c \in Cores, exit(c) PROVE IInv'
    <2>1. Typed'
      <3>1. semSuspend[c] + 1 \in 0..2
        BY <1>16 DEF exit
      <3> QED BY <1>16, <3>1 DEF exit
    <2>2. OneRequest'
      BY <1>16 DEF exit
    <2>3. SuspendsOfOneRequest'
      BY <1>16 DEF exit
    <2>4. CountsAgree'
      <3>1. /\ curInit' = [curInit EXCEPT ![c] = FALSE]
            /\ semSuspend' = [semSuspend EXCEPT ![c] = @ + 1]
            /\ UNCHANGED <<isr, notified, suspendCount, resumeCount, acked, tskSuspend>>
        BY <1>16 DEF exit
      <3>2. \A d \in Cores : Granted(d)' = Granted(d) /\ InTransit(d)' = InTransit(d)
        BY <3>1
      <3>3. \A d \in Cores : curInit'[d] => curInit[d] /\ semSuspend'[d] = semSuspend[d]
        BY <3>1
      <3> QED BY <3>1, <3>2, <3>3
    <2>5. LockStops'
      BY <1>16 DEF exit
    <2> QED BY <2>1, <2>2, <2>3, <2>4, <2>5
  <1>17. CASE UNCHANGED powerVars
    BY <1>17 DEF powerVars
  <1> QED
    BY <1>1, <1>2, <1>3, <1>4, <1>5, <1>6, <1>7, <1>8, <1>9, <1>10, <1>11, <1>12, <1>13, <1>14, <1>15, <1>16, <1>17
    DEF PowerNext, Host, Isr0, TaskStep

\* At any moment the request, the answer, the handler, the semaphores and the
\* power of both cores are as IpcPower_init, the handler and the suspend task
\* leave them: a semaphore never holds more than one suspend and one exit.
THEOREM PowerTypeCorrect == PowerSpec => []PowerTypeOK
  <1>1. IInv => PowerTypeOK
    BY DEF IInv, Typed, SuspendsOfOneRequest, PowerTypeOK
  <1> QED BY InvInit, InvStep, <1>1, PTL DEF PowerSpec

\* As long as a core keeps a lock from before the host asks, the handler of core 0
\* does not grant the request and no core is suspended for it.
THEOREM LockRefusesHibernation == PowerSpec => []LockedThroughout
  <1>1. IInv => LockedThroughout
    <2> SUFFICES ASSUME IInv, NEW c \in Cores, heldSince[c]
                 PROVE  /\ isr \notin {"notify", "ack", "suspend"} /\ notified = 0
                        /\ reply # "ACK"
                        /\ \A d \in Cores : power[d] = "on"
      BY DEF LockedThroughout
    <2>1. ~Open /\ isr # "notify"
      BY DEF IInv, LockStops
    <2>2. notified = 0
      BY <2>1 DEF IInv, SuspendsOfOneRequest, InTransit, Cores
    <2>3. ASSUME NEW d \in Cores PROVE power[d] = "on"
      BY <2>1 DEF IInv, SuspendsOfOneRequest, Typed
    <2> QED BY <2>1, <2>2, <2>3 DEF Open
  <1> QED BY InvInit, InvStep, <1>1, PTL DEF PowerSpec

\* Each core suspends once for each request that the handler granted, for no
\* cancelled one and for no IpcPower_exit, and resumes once for each suspend.
THEOREM OneSuspendPerRequest == PowerSpec => []SuspendedPerRequest
  <1>1. IInv => SuspendedPerRequest
    <2> SUFFICES ASSUME IInv, NEW c \in Cores,
                        suspendCount[c] < Granted(c), curInit[c]
                 PROVE  OnItsWay(c)
      BY DEF IInv, CountsAgree, SuspendedPerRequest
    <2>1. suspendCount[c] + semSuspend[c] + InTransit(c) = Granted(c)
      BY DEF IInv, CountsAgree
    <2>2. semSuspend[c] \in Nat /\ suspendCount[c] \in Nat /\ notified \in Nat
      BY DEF IInv, Typed
    <2>3. semSuspend[c] > 0 \/ InTransit(c) > 0
      BY <2>1, <2>2 DEF InTransit
    <2> QED BY <2>2, <2>3 DEF OnItsWay, InTransit, Cores
  <1> QED BY InvInit, InvStep, <1>1, PTL DEF PowerSpec

-----------------------------------------------------------------------------
(* Services: the inductive invariant.                                      *)

\* A manager at work on a service has it for itself: it is not in the table, and is
\* either new and unused, or told to end.
Busy(m) == task[m] \in {"store", "join"}
JobsOK ==
  \A m \in Managers :
    /\ ~Busy(m) => job[m] = NoJob
    /\ Busy(m) => job[m].addr \in exists \ tuples
    /\ \A n \in Managers : Busy(m) /\ Busy(n) /\ job[m].addr = job[n].addr => m = n
    /\ task[m] = "store" =>
         /\ job[m].client \in Clients
         /\ ManagerOf[job[m].client] = m /\ pc[job[m].client] = "asked"
         /\ thread[job[m].addr] = "run" /\ que[job[m].addr] = <<>>
         /\ job[m].addr \notin shutdown
    /\ task[m] = "join" => job[m].addr \in shutdown /\ thread[job[m].addr] # "run"

\* A service in the table was started and is not told to end; where there is none,
\* neither a thread nor a message is left.
ServersOK ==
  \A a \in Addrs :
    /\ a \notin exists => thread[a] = "exited" /\ que[a] = <<>>
    /\ a \in tuples => thread[a] # "run" /\ a \notin shutdown

\* What a client has is in the table, runs, is no other client's, and gets no message
\* but from it.
ClientsOK ==
  \A c \in Clients :
    /\ addr[c] # None <=> pc[c] \in {"connected", "called"}
    /\ addr[c] # None =>
         /\ addr[c] \in tuples /\ thread[addr[c]] # "exited"
         /\ \A d \in Clients : addr[d] = addr[c] => d = c
         /\ \A i \in DOMAIN que[addr[c]] :
              que[addr[c]][i].client = c /\ que[addr[c]][i].type = "RAW_MSG"

\* A request to connect is the only one of its client, which waits for the answer.
Connects(m, i) == i \in DOMAIN que[m] /\ que[m][i].type = "CONN_REQ"
ConnectsOK ==
  \A m \in Managers : \A i \in DOMAIN que[m] : Connects(m, i) =>
    /\ ManagerOf[que[m][i].client] = m /\ pc[que[m][i].client] = "asked"
    /\ task[m] = "store" => job[m].client # que[m][i].client
    /\ \A j \in DOMAIN que[m] :
         Connects(m, j) /\ que[m][j].client = que[m][i].client => i = j

\* A request to disconnect is the only one for its service, which is in the table and
\* nobody's any more.
Disconnects(m, i) == i \in DOMAIN que[m] /\ que[m][i].type = "DISC_REQ"
DisconnectsOK ==
  \A m \in Managers : \A i \in DOMAIN que[m] : Disconnects(m, i) =>
    /\ que[m][i].addr \in tuples
    /\ \A c \in Clients : addr[c] # que[m][i].addr
    /\ \A n \in Managers : \A j \in DOMAIN que[n] :
         Disconnects(n, j) /\ que[n][j].addr = que[m][i].addr => n = m /\ j = i

SInv == TypeOK /\ JobsOK /\ ServersOK /\ ClientsOK /\ ConnectsOK /\ DisconnectsOK

-----------------------------------------------------------------------------
(* Services: the lemmas.                                                   *)

\* Some number of any set of them is the least.
LEMMA LeastOf ==
  ASSUME NEW S \in SUBSET Nat, S # {}
  PROVE  \E k \in S : \A j \in S : k <= j
  <1>1. PICK k \in S : \A j \in S : ~(<<j, k>> \in OpToRel(<, Nat))
    BY NatLessThanWellFounded, WFMin
  <1>2. \A j \in S : ~(j < k)
    BY <1>1 DEF OpToRel
  <1> QED BY <1>2

\* The first free endpoint is one that is free.
LEMMA FirstFreeOK ==
  ASSUME NEW taken, taken \subseteq Addrs, taken # Addrs
  PROVE  FirstFree(taken) \in Addrs \ taken
  <1> DEFINE S == {i \in DOMAIN Endpoints : Endpoints[i] \notin taken}
             First(i) == i \in S /\ \A j \in 1..(i - 1) : Endpoints[j] \in taken
  <1>1. /\ DOMAIN Endpoints = 1..Len(Endpoints) /\ Len(Endpoints) \in Nat
        /\ Addrs = {Endpoints[i] : i \in DOMAIN Endpoints}
    BY TuplesAssumption DEF Addrs, ToSet
  <1>2. PICK k \in S : \A j \in S : k <= j
    <2>1. S \in SUBSET Nat /\ S # {}
      BY <1>1
    <2> HIDE DEF S
    <2> QED BY <2>1, LeastOf
  <1>3. First(k)
    BY <1>1, <1>2
  <1>4. First(CHOOSE i \in DOMAIN Endpoints : First(i))
    BY <1>3
  <1>5. FirstFree(taken) = Endpoints[CHOOSE i \in DOMAIN Endpoints : First(i)]
    BY DEF FirstFree
  <1> QED BY <1>1, <1>4, <1>5

\* What a step adds to the queues: x at place n of the queue of e.
Comes(e, n, x) ==
  \A f \in Managers \cup Addrs : \A i \in DOMAIN que'[f] :
    \/ i \in DOMAIN que[f] /\ que'[f][i] = que[f][i]
    \/ f = e /\ i = n /\ n \notin DOMAIN que[f] /\ que'[f][i] = x

\* Sending to an endpoint.
LEMMA Added ==
  ASSUME TypeOK, NEW e \in Managers \cup Addrs, NEW x \in Messages, Put(e, x)
  PROVE  /\ que' \in [Managers \cup Addrs -> Seq(Messages)]
         /\ \A f \in Managers \cup Addrs : f # e => que'[f] = que[f]
         /\ Comes(e, Len(que[e]) + 1, x)
  <1>1. /\ que' \in [Managers \cup Addrs -> Seq(Messages)]
        /\ \A f \in Managers \cup Addrs : f # e => que'[f] = que[f]
        /\ que'[e] = Append(que[e], x) /\ que[e] \in Seq(Messages)
    BY DEF TypeOK, Put
  <1>2. PICK q \in Seq(Messages) : q = que[e]
    BY <1>1
  <1>3. /\ Len(q) + 1 \notin DOMAIN q
        /\ \A i \in DOMAIN Append(q, x) :
             \/ i \in DOMAIN q /\ Append(q, x)[i] = q[i]
             \/ i = Len(q) + 1 /\ Append(q, x)[i] = x
    OBVIOUS
  <1> QED BY <1>1, <1>2, <1>3 DEF Comes

\* Receiving at one.
LEMMA Taken ==
  ASSUME TypeOK, NEW e \in Managers \cup Addrs, que[e] # <<>>,
         que' = [que EXCEPT ![e] = Tail(@)]
  PROVE  /\ que' \in [Managers \cup Addrs -> Seq(Messages)]
         /\ \A f \in Managers \cup Addrs : f # e => que'[f] = que[f]
         /\ 1 \in DOMAIN que[e] /\ que[e][1] = Head(que[e]) /\ Head(que[e]) \in Messages
         /\ \A i \in DOMAIN que'[e] :
              i \in Nat /\ i + 1 \in DOMAIN que[e] /\ i + 1 # 1 /\ que'[e][i] = que[e][i + 1]
  BY DEF TypeOK

\* At first nobody is connected.
LEMMA SInit == Init => SInv
  BY TuplesAssumption DEF Init, SInv, TypeOK, JobsOK, ServersOK, ClientsOK, ConnectsOK, DisconnectsOK,
     Busy, NoJob, Managers

\* A request to connect is sent.
LEMMA ConnectStep ==
  ASSUME SInv, NEW c \in Clients, Connect(c)
  PROVE  SInv'
  <1> USE DEF SInv
  <1>1. PICK e \in Managers, x \in Messages :
          /\ e = ManagerOf[c] /\ x = Msg("CONN_REQ", c, None)
          /\ x.type = "CONN_REQ" /\ x.client = c /\ e \notin Addrs
    <2>1. ManagerOf[c] \in Managers /\ ManagerOf[c] \notin Addrs
      BY TuplesAssumption
    <2>2. Msg("CONN_REQ", c, None) \in Messages
      BY DEF Msg, Messages
    <2> QED BY <2>1, <2>2 DEF Msg
  <1>2. /\ pc[c] = "idle" /\ Put(e, x) /\ pc' = [pc EXCEPT ![c] = "asked"]
        /\ UNCHANGED <<serverVars, tuples, shutdown, task, job, addr>>
    BY <1>1 DEF Connect
  <1>3. PICK n : n = Len(que[e]) + 1
    OBVIOUS
  <1>4. /\ que' \in [Managers \cup Addrs -> Seq(Messages)]
        /\ \A a \in Addrs : que'[a] = que[a]
        /\ Comes(e, n, x)
    BY <1>1, <1>2, <1>3, Added
  <1>5. TypeOK'
    BY <1>2, <1>4 DEF TypeOK, serverVars
  <1>7. JobsOK'
    BY <1>2, <1>4 DEF TypeOK, JobsOK, Busy, serverVars
  <1>8. ServersOK'
    BY <1>2, <1>4 DEF ServersOK, serverVars
  <1>9. ClientsOK'
    BY <1>2, <1>4 DEF TypeOK, ClientsOK, serverVars
  <1>10. /\ \A m \in Managers : \A i \in DOMAIN que[m] : Connects(m, i) => que[m][i].client # c
         /\ \A m \in Managers : task[m] = "store" => job[m].client # c
    BY <1>2 DEF ConnectsOK, JobsOK
  <1>11. ConnectsOK'
    <2>1. ASSUME NEW m \in Managers, NEW i \in DOMAIN que'[m], Connects(m, i)'
          PROVE  \/ i \in DOMAIN que[m] /\ que'[m][i] = que[m][i] /\ Connects(m, i)
                 \/ m = e /\ i = n /\ que'[m][i] = x
      BY <1>4, <2>1 DEF Comes, Connects
    <2>2. ASSUME NEW m \in Managers, NEW i \in DOMAIN que'[m], Connects(m, i)'
          PROVE  /\ ManagerOf[que'[m][i].client] = m /\ pc'[que'[m][i].client] = "asked"
                 /\ task'[m] = "store" => job'[m].client # que'[m][i].client
      <3>1. CASE i \in DOMAIN que[m] /\ que'[m][i] = que[m][i] /\ Connects(m, i)
        <4>1. /\ que[m][i].client # c /\ ManagerOf[que[m][i].client] = m
              /\ pc[que[m][i].client] = "asked"
              /\ task[m] = "store" => job[m].client # que[m][i].client
          BY <1>10, <3>1 DEF ConnectsOK
        <4> QED BY <1>2, <3>1, <4>1 DEF TypeOK
      <3>2. CASE m = e /\ i = n /\ que'[m][i] = x
        BY <1>1, <1>2, <1>10, <3>2 DEF TypeOK
      <3> QED BY <2>1, <2>2, <3>1, <3>2
    <2>3. ASSUME NEW m \in Managers, NEW i \in DOMAIN que'[m], Connects(m, i)',
                 NEW j \in DOMAIN que'[m], Connects(m, j)', que'[m][j].client = que'[m][i].client
          PROVE  i = j
      BY <1>1, <1>10, <2>1, <2>3 DEF ConnectsOK
    <2> QED BY <2>2, <2>3 DEF ConnectsOK
  <1>12. DisconnectsOK'
    <2>1. ASSUME NEW m \in Managers, NEW i \in DOMAIN que'[m], Disconnects(m, i)'
          PROVE  i \in DOMAIN que[m] /\ que'[m][i] = que[m][i] /\ Disconnects(m, i)
      BY <1>1, <1>4, <2>1 DEF Comes, Disconnects
    <2> QED BY <1>2, <2>1 DEF DisconnectsOK
  <1> QED BY <1>5, <1>7, <1>8, <1>9, <1>11, <1>12

\* A client calls its service.
LEMMA CallStep ==
  ASSUME SInv, NEW c \in Clients, Call(c)
  PROVE  SInv'
  <1> USE DEF SInv
  <1>1. PICK e \in Addrs, x \in Messages :
          /\ e = addr[c] /\ x = Msg("RAW_MSG", c, addr[c])
          /\ x.type = "RAW_MSG" /\ x.client = c /\ e \notin Managers /\ e \in tuples /\ e \in exists
    <2>1. addr[c] # None /\ addr[c] \in Addrs /\ addr[c] \in tuples
      BY DEF Call, ClientsOK, TypeOK
    <2>2. Msg("RAW_MSG", c, addr[c]) \in Messages
      BY <2>1 DEF Msg, Messages
    <2> QED BY <2>1, <2>2, TuplesAssumption DEF Msg, TypeOK
  <1>2. /\ pc[c] = "connected" /\ Put(e, x) /\ pc' = [pc EXCEPT ![c] = "called"]
        /\ UNCHANGED <<serverVars, tuples, shutdown, task, job, addr>>
    BY <1>1 DEF Call
  <1>3. PICK n : n = Len(que[e]) + 1
    OBVIOUS
  <1>4. /\ que' \in [Managers \cup Addrs -> Seq(Messages)]
        /\ \A f \in Managers \cup Addrs : f # e => que'[f] = que[f]
        /\ Comes(e, n, x)
    <2>1. e \in Managers \cup Addrs /\ Put(e, x)
      BY <1>1, <1>2
    <2> QED BY <1>3, <2>1, Added
  <1>5. TypeOK'
    BY <1>2, <1>4 DEF TypeOK, serverVars
  <1>6. \A m \in Managers : que'[m] = que[m]
    BY <1>1, <1>4
  <1>7. JobsOK'
    BY <1>1, <1>2, <1>4 DEF TypeOK, JobsOK, Busy, serverVars
  <1>8. ServersOK'
    BY <1>1, <1>2, <1>4 DEF ServersOK, serverVars
  <1>9. ClientsOK'
    <2>1. \A d \in Clients : addr[d] = e => d = c
      BY <1>1, TuplesAssumption DEF ClientsOK
    <2>2. ASSUME NEW d \in Clients, addr[d] # None, NEW i \in DOMAIN que'[addr[d]]
          PROVE  que'[addr[d]][i].client = d /\ que'[addr[d]][i].type = "RAW_MSG"
      <3>1. PICK b \in Addrs : b = addr[d]
        BY <2>2 DEF TypeOK
      <3>2. \A k \in DOMAIN que[b] : que[b][k].client = d /\ que[b][k].type = "RAW_MSG"
        BY <2>2, <3>1 DEF ClientsOK
      <3>3. \/ i \in DOMAIN que[b] /\ que'[b][i] = que[b][i]
            \/ b = e /\ que'[b][i] = x
        BY <1>4, <2>2, <3>1 DEF Comes
      <3> QED BY <1>1, <2>1, <3>1, <3>2, <3>3
    <2> QED BY <1>2, <2>2 DEF TypeOK, ClientsOK, serverVars
  <1>11. ConnectsOK'
    BY <1>2, <1>6 DEF TypeOK, ConnectsOK, Connects
  <1>12. DisconnectsOK'
    BY <1>2, <1>6 DEF DisconnectsOK, Disconnects
  <1> QED BY <1>5, <1>7, <1>8, <1>9, <1>11, <1>12

\* A client gives its service up, to its manager and perhaps to the service.
LEMMA DisconnectStep ==
  ASSUME SInv, NEW c \in Clients, Disconnect(c)
  PROVE  SInv'
  <1> USE DEF SInv
  <1>1. PICK a \in Addrs, e \in Managers, x \in Messages :
          /\ a = addr[c] /\ e = ManagerOf[c] /\ x = Msg("DISC_REQ", c, addr[c])
          /\ x.type = "DISC_REQ" /\ x.addr = a
          /\ a \in tuples /\ a \in exists /\ a # None /\ a \notin Managers /\ e \notin Addrs
          /\ pc[c] \in {"connected", "called"}
    <2>1. /\ addr[c] # None /\ addr[c] \in Addrs /\ addr[c] \in tuples
          /\ pc[c] \in {"connected", "called"}
      BY DEF Disconnect, ClientsOK, TypeOK
    <2>2. ManagerOf[c] \in Managers /\ ManagerOf[c] \notin Addrs /\ addr[c] \notin Managers
      BY <2>1, TuplesAssumption
    <2>3. /\ Msg("DISC_REQ", c, addr[c]) \in Messages
          /\ Msg("DISC_REQ", c, addr[c]).type = "DISC_REQ"
          /\ Msg("DISC_REQ", c, addr[c]).addr = addr[c]
      BY <2>1 DEF Msg, Messages
    <2>4. addr[c] \in exists
      BY <2>1 DEF TypeOK
    <2> QED BY <2>1, <2>2, <2>3, <2>4
  <1>2. /\ pc' = [pc EXCEPT ![c] = "idle"] /\ addr' = [addr EXCEPT ![c] = None]
        /\ UNCHANGED <<serverVars, tuples, shutdown, task, job>>
    BY DEF Disconnect
  <1>3. PICK n : n = Len(que[e]) + 1
    OBVIOUS
  <1>4. /\ que' \in [Managers \cup Addrs -> Seq(Messages)]
        /\ \A b \in Addrs : b # a => que'[b] = que[b]
        /\ \A m \in Managers : \A i \in DOMAIN que'[m] :
             \/ i \in DOMAIN que[m] /\ que'[m][i] = que[m][i]
             \/ m = e /\ i = n /\ que'[m][i] = x
    <2>1. PICK told : /\ told = [que EXCEPT ![e] = Append(@, x)]
                      /\ que' \in {told, [told EXCEPT ![a] = Append(@, x)]}
      BY <1>1 DEF Disconnect
    <2>2. PICK q \in Seq(Messages) : q = que[e]
      BY DEF TypeOK
    <2>3. \A i \in DOMAIN Append(q, x) :
            \/ i \in DOMAIN q /\ Append(q, x)[i] = q[i]
            \/ i = Len(q) + 1 /\ Append(q, x)[i] = x
      OBVIOUS
    <2>4. /\ told \in [Managers \cup Addrs -> Seq(Messages)]
          /\ told[e] = Append(q, x)
          /\ \A f \in Managers \cup Addrs : f # e => told[f] = que[f]
      BY <2>1, <2>2 DEF TypeOK
    <2>5. /\ que' \in [Managers \cup Addrs -> Seq(Messages)]
          /\ \A f \in Managers \cup Addrs : f # a => que'[f] = told[f]
      <3>1. CASE que' = told
        BY <2>4, <3>1
      <3>2. CASE que' = [told EXCEPT ![a] = Append(@, x)]
        <4>1. told[a] \in Seq(Messages)
          BY <2>4
        <4>2. Append(told[a], x) \in Seq(Messages)
          BY <4>1
        <4> QED BY <2>4, <3>2, <4>2
      <3> QED BY <2>1, <3>1, <3>2
    <2>6. \A b \in Addrs : b # a => que'[b] = que[b]
      BY <1>1, <2>4, <2>5
    <2>7. ASSUME NEW m \in Managers, NEW i \in DOMAIN que'[m]
          PROVE  \/ i \in DOMAIN que[m] /\ que'[m][i] = que[m][i]
                 \/ m = e /\ i = n /\ que'[m][i] = x
      <3>1. que'[m] = told[m]
        BY <1>1, <2>5
      <3> QED BY <1>3, <2>2, <2>3, <2>4, <2>7, <3>1
    <2> QED BY <2>5, <2>6, <2>7
  <1>6. TypeOK'
    BY <1>2, <1>4 DEF TypeOK, serverVars
  <1>8. JobsOK'
    BY <1>1, <1>2, <1>4 DEF TypeOK, JobsOK, Busy, serverVars
  <1>9. ServersOK'
    BY <1>1, <1>2, <1>4 DEF ServersOK, serverVars
  <1>5. /\ \A d \in Clients : d # c => addr[d] # a
        /\ \A d \in Clients : addr'[d] = IF d = c THEN None ELSE addr[d]
    BY <1>1, <1>2 DEF ClientsOK, TypeOK
  <1>10. ClientsOK'
    BY <1>2, <1>4, <1>5 DEF TypeOK, ClientsOK, serverVars
  <1>11. ConnectsOK'
    <2>1. \A m \in Managers : \A i \in DOMAIN que[m] : Connects(m, i) => que[m][i].client # c
      BY <1>1 DEF ConnectsOK
    <2>2. \A m \in Managers : task[m] = "store" => job[m].client # c
      BY <1>1 DEF JobsOK
    <2>3. ASSUME NEW m \in Managers, NEW i \in DOMAIN que'[m], Connects(m, i)'
          PROVE  Connects(m, i) /\ i \in DOMAIN que[m] /\ que'[m][i] = que[m][i]
      BY <1>1, <1>4, <2>3 DEF Connects
    <2> QED BY <1>2, <2>1, <2>3 DEF TypeOK, ConnectsOK
  <1>12. DisconnectsOK'
    <2>1. \A m \in Managers : \A i \in DOMAIN que[m] : Disconnects(m, i) => que[m][i].addr # a
      BY <1>1 DEF DisconnectsOK
    <2>2. ASSUME NEW m \in Managers, NEW i \in DOMAIN que'[m], Disconnects(m, i)'
          PROVE  \/ Disconnects(m, i) /\ i \in DOMAIN que[m] /\ que'[m][i] = que[m][i]
                 \/ m = e /\ i = n /\ que'[m][i].addr = a
      BY <1>1, <1>4, <2>2 DEF Disconnects
    <2>3. None \notin tuples
      BY TuplesAssumption DEF TypeOK
    <2>4. ASSUME NEW m \in Managers, NEW i \in DOMAIN que'[m], Disconnects(m, i)'
          PROVE  que'[m][i].addr \in tuples /\ \A d \in Clients : addr'[d] # que'[m][i].addr
      BY <1>1, <1>5, <2>2, <2>3, <2>4 DEF DisconnectsOK
    <2>5. ASSUME NEW m \in Managers, NEW i \in DOMAIN que'[m], Disconnects(m, i)',
                 NEW k \in Managers, NEW j \in DOMAIN que'[k], Disconnects(k, j)',
                 que'[k][j].addr = que'[m][i].addr
          PROVE  k = m /\ j = i
      BY <2>1, <2>2, <2>5 DEF DisconnectsOK
    <2> QED BY <1>2, <2>4, <2>5 DEF DisconnectsOK
  <1> QED BY <1>6, <1>8, <1>9, <1>10, <1>11, <1>12

\* Where what is at place i of the queue of k was before the head of that of m was taken.
Before(m, k, i) == IF k = m THEN i + 1 ELSE i

\* A manager takes a message.
LEMMA TakeOK ==
  ASSUME TypeOK, NEW m \in Managers, NEW t, Take(m, t)
  PROVE  /\ task[m] = "recv" /\ Head(que[m]) \in Messages /\ Head(que[m]).type = t
         /\ 1 \in DOMAIN que[m] /\ que[m][1] = Head(que[m])
         /\ que' \in [Managers \cup Addrs -> Seq(Messages)]
         /\ \A a \in Addrs : que'[a] = que[a]
         /\ \A k \in Managers : \A i \in DOMAIN que'[k] :
              /\ Before(m, k, i) \in DOMAIN que[k] /\ que'[k][i] = que[k][Before(m, k, i)]
              /\ k = m => Before(m, k, i) # 1
              /\ \A j \in DOMAIN que'[k] : Before(m, k, i) = Before(m, k, j) => i = j
  <1>1. /\ que[m] # <<>> /\ que' = [que EXCEPT ![m] = Tail(@)] /\ m \in Managers \cup Addrs
        /\ task[m] = "recv" /\ Head(que[m]).type = t
    BY DEF Take
  <1>2. /\ que' \in [Managers \cup Addrs -> Seq(Messages)]
        /\ \A f \in Managers \cup Addrs : f # m => que'[f] = que[f]
        /\ 1 \in DOMAIN que[m] /\ que[m][1] = Head(que[m]) /\ Head(que[m]) \in Messages
        /\ \A i \in DOMAIN que'[m] :
             i \in Nat /\ i + 1 \in DOMAIN que[m] /\ i + 1 # 1 /\ que'[m][i] = que[m][i + 1]
    BY <1>1, Taken
  <1>3. \A a \in Addrs : que'[a] = que[a]
    BY <1>2, TuplesAssumption
  <1>4. ASSUME NEW k \in Managers, NEW i \in DOMAIN que'[k]
        PROVE  /\ Before(m, k, i) \in DOMAIN que[k] /\ que'[k][i] = que[k][Before(m, k, i)]
               /\ k = m => Before(m, k, i) # 1
               /\ \A j \in DOMAIN que'[k] : Before(m, k, i) = Before(m, k, j) => i = j
    <2>1. CASE k = m
      BY <1>2, <1>4, <2>1 DEF Before
    <2>2. CASE k # m
      BY <1>2, <1>4, <2>2 DEF Before
    <2> QED BY <2>1, <2>2
  <1> QED BY <1>1, <1>2, <1>3, <1>4

\* The requests to connect that are left when one message is taken.
LEMMA ConnectsLeft ==
  ASSUME SInv, NEW m \in Managers, NEW t, Take(m, t)
  PROVE  \A k \in Managers : \A i \in DOMAIN que'[k] : Connects(k, i)' =>
           /\ ManagerOf[que'[k][i].client] = k /\ pc[que'[k][i].client] = "asked"
           /\ task[k] = "store" => job[k].client # que'[k][i].client
           /\ t = "CONN_REQ" => que'[k][i].client # Head(que[m]).client
           /\ \A j \in DOMAIN que'[k] :
                Connects(k, j)' /\ que'[k][j].client = que'[k][i].client => i = j
  <1> USE DEF SInv
  <1>1. /\ \A k \in Managers : \A i \in DOMAIN que'[k] :
              /\ Before(m, k, i) \in DOMAIN que[k] /\ que'[k][i] = que[k][Before(m, k, i)]
              /\ k = m => Before(m, k, i) # 1
              /\ \A j \in DOMAIN que'[k] : Before(m, k, i) = Before(m, k, j) => i = j
        /\ 1 \in DOMAIN que[m] /\ que[m][1] = Head(que[m]) /\ Head(que[m]).type = t
    BY TakeOK
  <1>2. ASSUME NEW k \in Managers, NEW i \in DOMAIN que'[k], Connects(k, i)'
        PROVE  Connects(k, Before(m, k, i))
    BY <1>1, <1>2 DEF Connects
  <1>3. ASSUME NEW k \in Managers, NEW i \in DOMAIN que'[k], Connects(k, i)'
        PROVE  /\ ManagerOf[que'[k][i].client] = k /\ pc[que'[k][i].client] = "asked"
               /\ task[k] = "store" => job[k].client # que'[k][i].client
    BY <1>1, <1>2, <1>3 DEF ConnectsOK
  <1>4. ASSUME NEW k \in Managers, NEW i \in DOMAIN que'[k], Connects(k, i)', t = "CONN_REQ"
        PROVE  que'[k][i].client # Head(que[m]).client
    <2>1. Connects(m, 1) /\ ManagerOf[Head(que[m]).client] = m
      BY <1>1, <1>4 DEF Connects, ConnectsOK
    <2>2. CASE k = m
      BY <1>1, <1>2, <1>4, <2>1, <2>2 DEF ConnectsOK
    <2>3. CASE k # m
      BY <1>3, <1>4, <2>1, <2>3
    <2> QED BY <2>2, <2>3
  <1>5. ASSUME NEW k \in Managers, NEW i \in DOMAIN que'[k], Connects(k, i)',
               NEW j \in DOMAIN que'[k], Connects(k, j)', que'[k][j].client = que'[k][i].client
        PROVE  i = j
    <2>1. PICK x \in DOMAIN que[k], y \in DOMAIN que[k] :
            /\ x = Before(m, k, i) /\ y = Before(m, k, j)
            /\ Connects(k, x) /\ Connects(k, y) /\ que[k][y].client = que[k][x].client
      BY <1>1, <1>2, <1>5
    <2>2. x = y
      BY <2>1 DEF ConnectsOK
    <2> QED BY <1>1, <2>1, <2>2
  <1> QED BY <1>3, <1>4, <1>5

\* The requests to disconnect that are left.
LEMMA DisconnectsLeft ==
  ASSUME SInv, NEW m \in Managers, NEW t, Take(m, t)
  PROVE  \A k \in Managers : \A i \in DOMAIN que'[k] : Disconnects(k, i)' =>
           /\ que'[k][i].addr \in tuples
           /\ \A c \in Clients : addr[c] # que'[k][i].addr
           /\ t = "DISC_REQ" => que'[k][i].addr # Head(que[m]).addr
           /\ \A n \in Managers : \A j \in DOMAIN que'[n] :
                Disconnects(n, j)' /\ que'[n][j].addr = que'[k][i].addr => n = k /\ j = i
  <1> USE DEF SInv
  <1>1. /\ \A k \in Managers : \A i \in DOMAIN que'[k] :
              /\ Before(m, k, i) \in DOMAIN que[k] /\ que'[k][i] = que[k][Before(m, k, i)]
              /\ k = m => Before(m, k, i) # 1
              /\ \A j \in DOMAIN que'[k] : Before(m, k, i) = Before(m, k, j) => i = j
        /\ 1 \in DOMAIN que[m] /\ que[m][1] = Head(que[m]) /\ Head(que[m]).type = t
    BY TakeOK
  <1>2. ASSUME NEW k \in Managers, NEW i \in DOMAIN que'[k], Disconnects(k, i)'
        PROVE  Disconnects(k, Before(m, k, i))
    BY <1>1, <1>2 DEF Disconnects
  <1>3. ASSUME NEW k \in Managers, NEW i \in DOMAIN que'[k], Disconnects(k, i)'
        PROVE  /\ que'[k][i].addr \in tuples
               /\ \A c \in Clients : addr[c] # que'[k][i].addr
    BY <1>1, <1>2, <1>3 DEF DisconnectsOK
  <1>4. ASSUME NEW k \in Managers, NEW i \in DOMAIN que'[k], Disconnects(k, i)', t = "DISC_REQ"
        PROVE  que'[k][i].addr # Head(que[m]).addr
    <2>1. Disconnects(m, 1)
      BY <1>1, <1>4 DEF Disconnects
    <2>2. PICK x \in DOMAIN que[k] :
            /\ x = Before(m, k, i) /\ Disconnects(k, x) /\ que'[k][i] = que[k][x]
      BY <1>1, <1>2, <1>4
    <2>3. ~(k = m /\ x = 1)
      BY <1>1, <2>2
    <2> QED BY <1>1, <2>1, <2>2, <2>3 DEF DisconnectsOK
  <1>5. ASSUME NEW k \in Managers, NEW i \in DOMAIN que'[k], Disconnects(k, i)',
               NEW n \in Managers, NEW j \in DOMAIN que'[n], Disconnects(n, j)',
               que'[n][j].addr = que'[k][i].addr
        PROVE  n = k /\ j = i
    <2>1. PICK x \in DOMAIN que[k], y \in DOMAIN que[n] :
            /\ x = Before(m, k, i) /\ y = Before(m, n, j)
            /\ Disconnects(k, x) /\ Disconnects(n, y) /\ que[n][y].addr = que[k][x].addr
      BY <1>1, <1>2, <1>5
    <2>2. n = k /\ y = x
      BY <2>1 DEF DisconnectsOK
    <2> QED BY <1>1, <2>1, <2>2
  <1> QED BY <1>3, <1>4, <1>5

\* It goes back to the receive, or leaves its loop.
LEMMA LoopOK ==
  ASSUME TypeOK, NEW m \in Managers, Loop(m)
  PROVE  /\ task' \in [Managers -> {"recv", "store", "join", "exited"}]
         /\ task'[m] \in {"recv", "exited"} /\ ~Busy(m)'
         /\ \A n \in Managers : n # m => task'[n] = task[n]
  BY DEF TypeOK, Loop, Busy

\* A request to connect is refused.
LEMMA CreateFailsStep ==
  ASSUME SInv, NEW m \in Managers, CreateFails(m)
  PROVE  SInv'
  <1> USE DEF SInv
  <1>1. Take(m, "CONN_REQ")
    BY DEF CreateFails
  <1>2. PICK c \in Clients :
          /\ c = Head(que[m]).client /\ ManagerOf[c] = m /\ pc[c] = "asked" /\ addr[c] = None
    <2>1. Head(que[m]).client \in Clients /\ Connects(m, 1) /\ que[m][1] = Head(que[m])
      BY <1>1, TakeOK DEF Connects, Messages
    <2>2. ManagerOf[Head(que[m]).client] = m /\ pc[Head(que[m]).client] = "asked"
      BY <2>1 DEF ConnectsOK, Connects
    <2> QED BY <2>1, <2>2 DEF ClientsOK
  <1>3. /\ pc' = [pc EXCEPT ![c] = "idle"] /\ addr' = [addr EXCEPT ![c] = None]
        /\ UNCHANGED <<serverVars, tuples, shutdown, job>>
        /\ Loop(m)
    BY <1>2 DEF CreateFails, Answer
  <1>4. /\ que' \in [Managers \cup Addrs -> Seq(Messages)]
        /\ \A a \in Addrs : que'[a] = que[a]
        /\ task[m] = "recv"
    BY <1>1, TakeOK
  <1>5. /\ addr' = addr
        /\ \A n \in Managers : (task'[n] = "store" <=> task[n] = "store")
                              /\ (task'[n] = "join" <=> task[n] = "join")
    BY <1>2, <1>3, <1>4, LoopOK DEF TypeOK
  <1>6. TypeOK'
    BY <1>3, <1>4, <1>5, LoopOK DEF TypeOK, serverVars
  <1>7. JobsOK'
    <2>1. \A n \in Managers : task[n] = "store" => job[n].client # c
      BY <1>2, <1>4 DEF JobsOK
    <2>2. \A n \in Managers : Busy(n)' <=> Busy(n)
      BY <1>5 DEF Busy
    <2>3. \A d \in Clients : d # c => pc'[d] = pc[d]
      BY <1>3 DEF TypeOK
    <2>4. \A n \in Managers : Busy(n) => job[n].addr \in Addrs
      BY DEF JobsOK, TypeOK
    <2>5. \A n \in Managers : task[n] = "store" => Busy(n)
      BY DEF Busy
    <2> QED BY <1>3, <1>4, <1>5, <2>1, <2>2, <2>3, <2>4, <2>5 DEF JobsOK, serverVars
  <1>8. ServersOK'
    BY <1>3, <1>4 DEF ServersOK, serverVars
  <1>9. ClientsOK'
    BY <1>2, <1>3, <1>4, <1>5 DEF TypeOK, ClientsOK, serverVars
  <1>10. ConnectsOK'
    BY <1>1, <1>2, <1>3, <1>5, ConnectsLeft DEF TypeOK, ConnectsOK, Connects
  <1>11. DisconnectsOK'
    BY <1>1, <1>3, <1>5, DisconnectsLeft DEF DisconnectsOK
  <1> QED BY <1>6, <1>7, <1>8, <1>9, <1>10, <1>11

\* A service is created for a request to connect.
LEMMA CreateServiceStep ==
  ASSUME SInv, NEW m \in Managers, CreateService(m)
  PROVE  SInv'
  <1> USE DEF SInv
  <1>1. Take(m, "CONN_REQ")
    BY DEF CreateService
  <1>2. PICK c \in Clients :
          /\ c = Head(que[m]).client /\ ManagerOf[c] = m /\ pc[c] = "asked"
    <2>1. Head(que[m]).client \in Clients /\ Connects(m, 1) /\ que[m][1] = Head(que[m])
      BY <1>1, TakeOK DEF Connects, Messages
    <2>2. ManagerOf[Head(que[m]).client] = m /\ pc[Head(que[m]).client] = "asked"
      BY <2>1 DEF ConnectsOK, Connects
    <2> QED BY <2>1, <2>2
  <1>3. PICK a \in Addrs : a = FirstFree(exists) /\ a \notin exists
    <2>1. exists \subseteq Addrs /\ exists # Addrs
      BY DEF CreateService, TypeOK
    <2> QED BY <2>1, FirstFreeOK
  <1>4. /\ exists' = exists \cup {a} /\ thread' = [thread EXCEPT ![a] = "run"]
        /\ job' = [job EXCEPT ![m] = [client |-> c, addr |-> a]]
        /\ task' = [task EXCEPT ![m] = "store"]
        /\ UNCHANGED <<tuples, shutdown, replyAddr, clientVars>>
    BY <1>2, <1>3 DEF CreateService
  <1>5. /\ que' \in [Managers \cup Addrs -> Seq(Messages)]
        /\ \A b \in Addrs : que'[b] = que[b]
        /\ task[m] = "recv"
    BY <1>1, TakeOK
  <1>6. a \notin tuples /\ a \notin shutdown /\ a # None
    BY <1>3, TuplesAssumption DEF TypeOK, Managers
  <1>7. TypeOK'
    <2>1. /\ thread' \in [Addrs -> {"run", "recv", "process", "exited"}]
          /\ task' \in [Managers -> {"recv", "store", "join", "exited"}]
      BY <1>4 DEF TypeOK
    <2>2. job' \in [Managers -> [client : Clients \cup {None}, addr : Addrs \cup {None}]]
      BY <1>4 DEF TypeOK
    <2> QED BY <1>3, <1>4, <1>5, <2>1, <2>2 DEF TypeOK, clientVars
  <1>8. JobsOK'
    <2>1. /\ \A n \in Managers : n # m => job'[n] = job[n] /\ task'[n] = task[n]
          /\ job'[m] = [client |-> c, addr |-> a] /\ task'[m] = "store"
          /\ job'[m].client = c /\ job'[m].addr = a
      BY <1>4 DEF TypeOK
    <2>2. \A n \in Managers : Busy(n) => job[n].addr \in exists /\ job[n].addr # a
      BY <1>3 DEF JobsOK
    <2>3. thread'[a] = "run" /\ que'[a] = <<>>
      BY <1>3, <1>4, <1>5 DEF TypeOK, ServersOK
    <2>4. \A b \in Addrs : b # a => thread'[b] = thread[b] /\ que'[b] = que[b]
      BY <1>4, <1>5 DEF TypeOK
    <2>5. ASSUME NEW n \in Managers, n # m
          PROVE  /\ ~Busy(n)' => job'[n] = NoJob
                 /\ Busy(n)' => Busy(n) /\ job'[n].addr = job[n].addr /\ job'[n].addr \in exists' \ tuples'
                 /\ task'[n] = "store" =>
                      /\ job'[n].client \in Clients
                      /\ ManagerOf[job'[n].client] = n /\ pc'[job'[n].client] = "asked"
                      /\ thread'[job'[n].addr] = "run" /\ que'[job'[n].addr] = <<>>
                      /\ job'[n].addr \notin shutdown'
                 /\ task'[n] = "join" => job'[n].addr \in shutdown' /\ thread'[job'[n].addr] # "run"
      <3>1. Busy(n) => job[n].addr \in Addrs
        BY <2>2 DEF TypeOK
      <3> QED BY <1>4, <2>1, <2>2, <2>4, <2>5, <3>1 DEF JobsOK, Busy, clientVars
    <2>6. \A n, k \in Managers : Busy(n)' /\ Busy(k)' /\ job'[n].addr = job'[k].addr => n = k
      BY <2>1, <2>2, <2>5 DEF JobsOK
    <2> QED BY <1>2, <1>4, <1>6, <2>1, <2>3, <2>5, <2>6 DEF JobsOK, Busy, clientVars
  <1>9. ServersOK'
    BY <1>3, <1>4, <1>5, <1>6 DEF ServersOK, TypeOK
  <1>10. ClientsOK'
    BY <1>4, <1>5, <1>6 DEF TypeOK, ClientsOK, clientVars
  <1>11. ConnectsOK'
    BY <1>1, <1>2, <1>4, ConnectsLeft DEF TypeOK, ConnectsOK, Connects, clientVars
  <1>12. DisconnectsOK'
    BY <1>1, <1>4, DisconnectsLeft DEF DisconnectsOK, clientVars
  <1> QED BY <1>7, <1>8, <1>9, <1>10, <1>11, <1>12

\* The service is started and the request answered.
LEMMA StartServiceStep ==
  ASSUME SInv, NEW m \in Managers, StartService(m)
  PROVE  SInv'
  <1> USE DEF SInv
  <1>1. PICK a \in Addrs, c \in Clients :
          /\ a = job[m].addr /\ c = job[m].client /\ task[m] = "store" /\ Busy(m)
          /\ a \in exists /\ a \notin tuples /\ a \notin shutdown /\ a # None
          /\ ManagerOf[c] = m /\ pc[c] = "asked" /\ addr[c] = None
          /\ thread[a] = "run" /\ que[a] = <<>>
    <2>1. task[m] = "store" /\ Busy(m)
      BY DEF StartService, Busy
    <2>2. job[m].addr \in Addrs /\ job[m].client \in Clients
      BY <2>1 DEF JobsOK, TypeOK
    <2>3. job[m].addr # None
      BY <2>2, TuplesAssumption
    <2> QED BY <2>1, <2>2, <2>3 DEF JobsOK, ClientsOK
  <1>2. /\ tuples' = tuples \cup {a} /\ thread' = [thread EXCEPT ![a] = "recv"]
        /\ pc' = [pc EXCEPT ![c] = "connected"] /\ addr' = [addr EXCEPT ![c] = a]
        /\ Loop(m) /\ job' = [job EXCEPT ![m] = NoJob]
        /\ UNCHANGED <<exists, replyAddr, que, shutdown>>
    BY <1>1 DEF StartService, Answer
  <1>3. /\ \A d \in Clients : addr[d] # a
        /\ \A n \in Managers : n # m /\ Busy(n) => job[n].addr # a
        /\ \A n \in Managers : n # m /\ task[n] = "store" => job[n].client # c
    <2>1. \A d \in Clients : addr[d] # a
      BY <1>1 DEF ClientsOK
    <2> QED BY <1>1, <2>1 DEF JobsOK
  <1>4. TypeOK'
    BY <1>1, <1>2, LoopOK DEF TypeOK, NoJob
  <1>5. JobsOK'
    <2>1. /\ job'[m] = NoJob /\ ~Busy(m)' /\ task'[m] \in {"recv", "exited"}
          /\ \A n \in Managers : n # m => job'[n] = job[n] /\ task'[n] = task[n]
      BY <1>2, LoopOK DEF TypeOK
    <2>2. ASSUME NEW n \in Managers, n # m, Busy(n)
          PROVE  job[n].addr \in Addrs /\ job[n].addr # a /\ thread'[job[n].addr] = thread[job[n].addr]
      <3>1. job[n].addr \in Addrs /\ job[n].addr # a
        BY <1>3, <2>2 DEF JobsOK, TypeOK
      <3> QED BY <1>2, <3>1 DEF TypeOK
    <2>3. \A d \in Clients : d # c => pc'[d] = pc[d]
      BY <1>2 DEF TypeOK
    <2>4. \A n \in Managers : n # m => (Busy(n)' <=> Busy(n))
      BY <2>1 DEF Busy
    <2>5. ASSUME NEW n \in Managers, n # m, Busy(n)
          PROVE  /\ job'[n].addr \in exists' \ tuples'
                 /\ task'[n] = "store" =>
                      /\ job'[n].client \in Clients
                      /\ ManagerOf[job'[n].client] = n /\ pc'[job'[n].client] = "asked"
                      /\ thread'[job'[n].addr] = "run" /\ que'[job'[n].addr] = <<>>
                      /\ job'[n].addr \notin shutdown'
                 /\ task'[n] = "join" => job'[n].addr \in shutdown' /\ thread'[job'[n].addr] # "run"
      BY <1>2, <1>3, <2>1, <2>2, <2>3, <2>5 DEF JobsOK
    <2>6. \A n, k \in Managers : Busy(n)' /\ Busy(k)' /\ job'[n].addr = job'[k].addr => n = k
      BY <2>1, <2>4 DEF JobsOK
    <2> QED BY <2>1, <2>4, <2>5, <2>6 DEF JobsOK, Busy
  <1>6. ServersOK'
    BY <1>1, <1>2 DEF TypeOK, ServersOK
  <1>7. ClientsOK'
    <2>1. /\ addr'[c] = a /\ pc'[c] = "connected"
          /\ \A d \in Clients : d # c => addr'[d] = addr[d] /\ pc'[d] = pc[d]
      BY <1>2 DEF TypeOK
    <2>2. /\ thread'[a] = "recv"
          /\ \A b \in Addrs : b # a => thread'[b] = thread[b]
      BY <1>2 DEF TypeOK
    <2> QED BY <1>1, <1>2, <1>3, <2>1, <2>2 DEF TypeOK, ClientsOK
  <1>8. ConnectsOK'
    <2>1. \A k \in Managers : \A i \in DOMAIN que[k] : Connects(k, i) => que[k][i].client # c
      BY <1>1 DEF ConnectsOK
    <2>2. \A k \in Managers : task'[k] = "store" => task[k] = "store" /\ job'[k] = job[k]
      BY <1>2, LoopOK DEF TypeOK
    <2> QED BY <1>2, <2>1, <2>2 DEF TypeOK, ConnectsOK, Connects
  <1>9. DisconnectsOK'
    <2>1. \A d \in Clients : addr'[d] = IF d = c THEN a ELSE addr[d]
      BY <1>2 DEF TypeOK
    <2> QED BY <1>1, <1>2, <2>1 DEF DisconnectsOK, Disconnects
  <1> QED BY <1>4, <1>5, <1>6, <1>7, <1>8, <1>9

\* A service is taken out of the table and told to end.
LEMMA DeleteServiceStep ==
  ASSUME SInv, NEW m \in Managers, DeleteService(m)
  PROVE  SInv'
  <1> USE DEF SInv
  <1>1. Take(m, "DISC_REQ")
    BY DEF DeleteService
  <1>2. PICK a \in Addrs :
          /\ a = Head(que[m]).addr /\ a \in tuples /\ a \in exists
          /\ \A c \in Clients : addr[c] # a
    <2>1. Disconnects(m, 1) /\ que[m][1] = Head(que[m]) /\ 1 \in DOMAIN que[m]
      BY <1>1, TakeOK DEF Disconnects
    <2>2. que[m][1].addr \in tuples /\ \A c \in Clients : addr[c] # que[m][1].addr
      BY <2>1 DEF DisconnectsOK
    <2> QED BY <2>1, <2>2 DEF TypeOK
  <1>3. /\ tuples' = tuples \ {a} /\ shutdown' = shutdown \cup {a}
        /\ job' = [job EXCEPT ![m] = [client |-> None, addr |-> a]]
        /\ task' = [task EXCEPT ![m] = "join"]
        /\ UNCHANGED <<serverVars, clientVars>>
    BY <1>2 DEF DeleteService
  <1>4. /\ que' \in [Managers \cup Addrs -> Seq(Messages)]
        /\ \A b \in Addrs : que'[b] = que[b]
        /\ task[m] = "recv"
    BY <1>1, TakeOK
  <1>5. \A n \in Managers : Busy(n) => job[n].addr \in Addrs /\ job[n].addr # a
    BY <1>2 DEF JobsOK, TypeOK
  <1>6. TypeOK'
    <2>1. /\ task' \in [Managers -> {"recv", "store", "join", "exited"}]
          /\ job' \in [Managers -> [client : Clients \cup {None}, addr : Addrs \cup {None}]]
      BY <1>3 DEF TypeOK
    <2> QED BY <1>2, <1>3, <1>4, <2>1 DEF TypeOK, serverVars, clientVars
  <1>7. JobsOK'
    <2>1. /\ job'[m] = [client |-> None, addr |-> a] /\ task'[m] = "join"
          /\ job'[m].addr = a
          /\ \A n \in Managers : n # m => job'[n] = job[n] /\ task'[n] = task[n]
      BY <1>3 DEF TypeOK
    <2>2. \A n \in Managers : n # m => (Busy(n)' <=> Busy(n))
      BY <2>1 DEF Busy
    <2>3. thread[a] # "run"
      BY <1>2 DEF ServersOK
    <2>4. ASSUME NEW n \in Managers, n # m
          PROVE  /\ ~Busy(n)' => job'[n] = NoJob
                 /\ Busy(n)' => job'[n].addr \in exists' \ tuples' /\ job'[n].addr # a
                 /\ task'[n] = "store" =>
                      /\ job'[n].client \in Clients
                      /\ ManagerOf[job'[n].client] = n /\ pc'[job'[n].client] = "asked"
                      /\ thread'[job'[n].addr] = "run" /\ que'[job'[n].addr] = <<>>
                      /\ job'[n].addr \notin shutdown'
                 /\ task'[n] = "join" => job'[n].addr \in shutdown' /\ thread'[job'[n].addr] # "run"
      <3>1. Busy(n) <=> Busy(n)'
        BY <2>2, <2>4
      <3>2. job'[n] = job[n] /\ task'[n] = task[n]
        BY <2>1, <2>4
      <3>3. task[n] \in {"store", "join"} => Busy(n)
        BY DEF Busy
      <3> QED BY <1>3, <1>4, <1>5, <3>1, <3>2, <3>3 DEF JobsOK, serverVars, clientVars
    <2>5. \A n, k \in Managers : Busy(n)' /\ Busy(k)' /\ job'[n].addr = job'[k].addr => n = k
      <3>1. ASSUME NEW n \in Managers, NEW k \in Managers, n # m, k # m,
                   Busy(n)', Busy(k)', job'[n].addr = job'[k].addr
            PROVE  n = k
        BY <2>1, <2>2, <3>1 DEF JobsOK
      <3> QED BY <2>1, <2>4, <3>1
    <2>6. Busy(m)' /\ job'[m].addr \in exists' \ tuples' /\ job'[m].addr \in shutdown'
      BY <1>2, <1>3, <2>1 DEF Busy, serverVars
    <2>7. thread'[job'[m].addr] # "run"
      BY <1>3, <2>1, <2>3 DEF serverVars
    <2> QED BY <2>1, <2>4, <2>5, <2>6, <2>7 DEF JobsOK
  <1>8. ServersOK'
    BY <1>2, <1>3, <1>4 DEF ServersOK, serverVars
  <1>9. ClientsOK'
    BY <1>2, <1>3, <1>4 DEF TypeOK, ClientsOK, serverVars, clientVars
  <1>10. ConnectsOK'
    BY <1>1, <1>3, ConnectsLeft DEF TypeOK, ConnectsOK, clientVars
  <1>11. DisconnectsOK'
    BY <1>1, <1>2, <1>3, DisconnectsLeft DEF DisconnectsOK, clientVars
  <1> QED BY <1>6, <1>7, <1>8, <1>9, <1>10, <1>11

\* Its thread has ended, and it goes away.
LEMMA JoinedStep ==
  ASSUME SInv, NEW m \in Managers, Joined(m)
  PROVE  SInv'
  <1> USE DEF SInv
  <1>1. PICK a \in Addrs :
          /\ a = job[m].addr /\ task[m] = "join" /\ Busy(m)
          /\ a \in exists /\ a \notin tuples /\ a \notin Managers /\ thread[a] = "exited"
    <2>1. task[m] = "join" /\ Busy(m) /\ thread[job[m].addr] = "exited"
      BY DEF Joined, Busy
    <2>2. job[m].addr \in exists /\ job[m].addr \notin tuples
      BY <2>1 DEF JobsOK
    <2>3. job[m].addr \in Addrs /\ job[m].addr \notin Managers
      BY <2>2, TuplesAssumption DEF TypeOK
    <2> QED BY <2>1, <2>2, <2>3
  <1>2. /\ exists' = exists \ {a} /\ shutdown' = shutdown \ {a}
        /\ que' = [que EXCEPT ![a] = <<>>] /\ replyAddr' = [replyAddr EXCEPT ![a] = None]
        /\ Loop(m) /\ job' = [job EXCEPT ![m] = NoJob]
        /\ UNCHANGED <<tuples, thread, clientVars>>
    BY <1>1 DEF Joined
  <1>3. /\ que' \in [Managers \cup Addrs -> Seq(Messages)]
        /\ que'[a] = <<>>
        /\ \A f \in Managers \cup Addrs : f # a => que'[f] = que[f]
    <2>1. <<>> \in Seq(Messages)
      OBVIOUS
    <2> QED BY <1>2, <2>1 DEF TypeOK
  <1>4. \A k \in Managers : que'[k] = que[k]
    BY <1>1, <1>3
  <1>5. TypeOK'
    <2>1. /\ task' \in [Managers -> {"recv", "store", "join", "exited"}]
          /\ job' \in [Managers -> [client : Clients \cup {None}, addr : Addrs \cup {None}]]
          /\ replyAddr' \in [Addrs -> Clients \cup {None}]
      BY <1>2, LoopOK DEF TypeOK, NoJob
    <2> QED BY <1>1, <1>2, <1>3, <2>1 DEF TypeOK, clientVars
  <1>6. JobsOK'
    <2>1. /\ job'[m] = NoJob /\ ~Busy(m)' /\ task'[m] \in {"recv", "exited"}
          /\ \A n \in Managers : n # m => job'[n] = job[n] /\ task'[n] = task[n]
      BY <1>2, LoopOK DEF TypeOK
    <2>2. ASSUME NEW n \in Managers, n # m, Busy(n)
          PROVE  job[n].addr \in Addrs /\ job[n].addr # a /\ que'[job[n].addr] = que[job[n].addr]
      <3>1. job[n].addr \in Addrs /\ job[n].addr # a
        BY <1>1, <2>2 DEF JobsOK, TypeOK
      <3> QED BY <1>3, <3>1
    <2>3. \A n \in Managers : n # m => (Busy(n)' <=> Busy(n))
      BY <2>1 DEF Busy
    <2>4. ASSUME NEW n \in Managers, n # m
          PROVE  /\ ~Busy(n)' => job'[n] = NoJob
                 /\ Busy(n)' => job'[n].addr \in exists' \ tuples'
                 /\ task'[n] = "store" =>
                      /\ job'[n].client \in Clients
                      /\ ManagerOf[job'[n].client] = n /\ pc'[job'[n].client] = "asked"
                      /\ thread'[job'[n].addr] = "run" /\ que'[job'[n].addr] = <<>>
                      /\ job'[n].addr \notin shutdown'
                 /\ task'[n] = "join" => job'[n].addr \in shutdown' /\ thread'[job'[n].addr] # "run"
      <3>1. (Busy(n) <=> Busy(n)') /\ job'[n] = job[n] /\ task'[n] = task[n]
        BY <2>1, <2>3, <2>4
      <3>2. task[n] \in {"store", "join"} => Busy(n)
        BY DEF Busy
      <3> QED BY <1>2, <2>2, <2>4, <3>1, <3>2 DEF JobsOK, clientVars
    <2>5. \A n, k \in Managers : Busy(n)' /\ Busy(k)' /\ job'[n].addr = job'[k].addr => n = k
      BY <2>1, <2>3 DEF JobsOK
    <2> QED BY <2>1, <2>4, <2>5 DEF JobsOK
  <1>7. ServersOK'
    <2>1. \A b \in Addrs : b # a => que'[b] = que[b]
      BY <1>3
    <2> QED BY <1>1, <1>2, <1>3, <2>1 DEF ServersOK
  <1>8. ClientsOK'
    <2>1. \A c \in Clients : addr[c] # None => addr[c] \in Addrs /\ addr[c] # a
      BY <1>1 DEF TypeOK, ClientsOK
    <2>2. \A c \in Clients : addr[c] # None => que'[addr[c]] = que[addr[c]]
      BY <1>3, <2>1
    <2>3. ASSUME NEW c \in Clients, addr[c] # None
          PROVE  \A i \in DOMAIN que'[addr[c]] :
                   que'[addr[c]][i].client = c /\ que'[addr[c]][i].type = "RAW_MSG"
      BY <2>2, <2>3 DEF ClientsOK
    <2>4. tuples' = tuples /\ thread' = thread /\ pc' = pc /\ addr' = addr
      BY <1>2 DEF clientVars
    <2> QED BY <2>3, <2>4 DEF ClientsOK
  <1>9. ConnectsOK'
    <2>1. \A k \in Managers : task'[k] = "store" => task[k] = "store" /\ job'[k] = job[k]
      BY <1>2, LoopOK DEF TypeOK
    <2> QED BY <1>2, <1>4, <2>1 DEF ConnectsOK, Connects, clientVars
  <1>10. DisconnectsOK'
    BY <1>2, <1>4 DEF DisconnectsOK, Disconnects, clientVars
  <1> QED BY <1>5, <1>6, <1>7, <1>8, <1>9, <1>10

\* The channel is deleted: its task is told to end, and does.
LEMMA ChannelStep ==
  ASSUME SInv, DeleteChannel \/ ChannelExits
  PROVE  SInv'
  <1> USE DEF SInv
  <1>1. CASE DeleteChannel
    <2>1. "rpc" \notin Addrs
      BY TuplesAssumption DEF Managers
    <2> QED BY <1>1, <2>1 DEF DeleteChannel, TypeOK, JobsOK, ServersOK, ClientsOK, ConnectsOK,
          DisconnectsOK, Connects, Disconnects, Busy, serverVars, clientVars
  <1>2. CASE ChannelExits
    <2>1. /\ task["rpc"] = "recv" /\ task' = [task EXCEPT !["rpc"] = "exited"]
          /\ UNCHANGED <<que, serverVars, tuples, shutdown, job, clientVars>>
      BY <1>2 DEF ChannelExits
    <2>2. \A m \in Managers :
            /\ Busy(m)' <=> Busy(m)
            /\ task'[m] = "store" <=> task[m] = "store"
            /\ task'[m] = "join" <=> task[m] = "join"
      BY <2>1 DEF TypeOK, Busy
    <2>3. TypeOK'
      BY <2>1 DEF TypeOK, serverVars, clientVars
    <2>4. JobsOK'
      BY <2>1, <2>2 DEF JobsOK, serverVars, clientVars
    <2> QED BY <2>1, <2>2, <2>3, <2>4 DEF ServersOK, ClientsOK, ConnectsOK,
          DisconnectsOK, Connects, Disconnects, serverVars, clientVars
  <1> QED BY <1>1, <1>2

\* A server receives a message.
LEMMA RecvStep ==
  ASSUME SInv, NEW a \in Addrs, Recv(a)
  PROVE  SInv'
  <1> USE DEF SInv
  <1>1. /\ thread[a] = "recv" /\ a \notin shutdown /\ que[a] # <<>>
        /\ que' = [que EXCEPT ![a] = Tail(@)]
        /\ replyAddr' = [replyAddr EXCEPT ![a] = Head(que[a]).client]
        /\ thread' = [thread EXCEPT ![a] =
             IF Head(que[a]).type = "DISC_REQ" THEN "exited" ELSE "process"]
        /\ UNCHANGED <<exists, tuples, shutdown, task, job, clientVars>>
    BY DEF Recv
  <1>2. /\ que' \in [Managers \cup Addrs -> Seq(Messages)]
        /\ \A f \in Managers \cup Addrs : f # a => que'[f] = que[f]
        /\ 1 \in DOMAIN que[a] /\ que[a][1] = Head(que[a]) /\ Head(que[a]) \in Messages
        /\ \A i \in DOMAIN que'[a] :
             i \in Nat /\ i + 1 \in DOMAIN que[a] /\ i + 1 # 1 /\ que'[a][i] = que[a][i + 1]
    BY <1>1, Taken
  <1>3. /\ thread'[a] \in {"exited", "process"}
        /\ \A b \in Addrs : b # a => thread'[b] = thread[b] /\ que'[b] = que[b]
        /\ \A m \in Managers : que'[m] = que[m]
        /\ a \in exists
    <2>1. a \notin Managers
      BY TuplesAssumption
    <2>2. a \in exists
      BY <1>1 DEF ServersOK
    <2> QED BY <1>1, <1>2, <2>1, <2>2 DEF TypeOK
  <1>4. TypeOK'
    <2>1. Head(que[a]).client \in Clients
      BY <1>2 DEF Messages
    <2>2. /\ thread' \in [Addrs -> {"run", "recv", "process", "exited"}]
          /\ replyAddr' \in [Addrs -> Clients \cup {None}]
      BY <1>1, <2>1 DEF TypeOK
    <2> QED BY <1>1, <1>2, <2>2 DEF TypeOK, clientVars
  <1>5. JobsOK'
    <2>1. ASSUME NEW m \in Managers, Busy(m)
          PROVE  job[m].addr \in Addrs /\ job[m].addr # a
      BY <1>1, <2>1 DEF JobsOK, TypeOK, Busy
    <2> QED BY <1>1, <1>3, <2>1 DEF JobsOK, Busy, clientVars
  <1>6. ServersOK'
    BY <1>1, <1>3 DEF ServersOK
  <1>7. ClientsOK'
    <2>1. ASSUME NEW c \in Clients, addr[c] = a
          PROVE  /\ thread'[a] = "process"
                 /\ \A i \in DOMAIN que'[a] : que'[a][i].client = c /\ que'[a][i].type = "RAW_MSG"
      <3>1. addr[c] # None
        BY <2>1, TuplesAssumption
      <3>2. \A i \in DOMAIN que[a] : que[a][i].client = c /\ que[a][i].type = "RAW_MSG"
        BY <2>1, <3>1 DEF ClientsOK
      <3>3. Head(que[a]).type # "DISC_REQ"
        BY <1>2, <3>2
      <3> QED BY <1>1, <1>2, <3>2, <3>3 DEF TypeOK
    <2>2. ASSUME NEW c \in Clients, addr[c] # None, addr[c] # a
          PROVE  thread'[addr[c]] = thread[addr[c]] /\ que'[addr[c]] = que[addr[c]]
      <3>1. addr[c] \in Addrs
        BY <2>2 DEF TypeOK
      <3> QED BY <1>3, <2>2, <3>1
    <2>3. ASSUME NEW c \in Clients, addr[c] # None
          PROVE  /\ thread'[addr[c]] # "exited"
                 /\ \A i \in DOMAIN que'[addr[c]] :
                      que'[addr[c]][i].client = c /\ que'[addr[c]][i].type = "RAW_MSG"
      <3>1. CASE addr[c] = a
        BY <2>1, <3>1
      <3>2. CASE addr[c] # a
        BY <2>2, <2>3, <3>2 DEF ClientsOK
      <3> QED BY <3>1, <3>2
    <2>4. tuples' = tuples /\ pc' = pc /\ addr' = addr
      BY <1>1 DEF clientVars
    <2> QED BY <2>3, <2>4 DEF ClientsOK
  <1>10. /\ \A m \in Managers : que'[m] = que[m]
         /\ tuples' = tuples /\ task' = task /\ job' = job /\ pc' = pc /\ addr' = addr
    BY <1>1, <1>3 DEF clientVars
  <1>8. ConnectsOK'
    BY <1>10 DEF ConnectsOK, Connects
  <1>9. DisconnectsOK'
    BY <1>10 DEF DisconnectsOK, Disconnects
  <1> QED BY <1>4, <1>5, <1>6, <1>7, <1>8, <1>9

\* A server is unblocked.
LEMMA RecvUnblockedStep ==
  ASSUME SInv, NEW a \in Addrs, RecvUnblocked(a)
  PROVE  SInv'
  <1> USE DEF SInv
  <1>1. /\ thread[a] = "recv" /\ a \in shutdown /\ a \notin tuples /\ a \in exists
        /\ thread' = [thread EXCEPT ![a] = "exited"]
        /\ UNCHANGED <<que, exists, tuples, shutdown, replyAddr, task, job, clientVars>>
    BY DEF RecvUnblocked, ServersOK
  <1>2. /\ thread'[a] = "exited"
        /\ \A b \in Addrs : b # a => thread'[b] = thread[b]
    BY <1>1 DEF TypeOK
  <1>3. TypeOK'
    BY <1>1 DEF TypeOK, clientVars
  <1>4. JobsOK'
    <2>1. ASSUME NEW m \in Managers, task[m] = "store"
          PROVE  job[m].addr \in Addrs /\ job[m].addr # a
      BY <1>1, <2>1 DEF JobsOK, TypeOK, Busy
    <2>2. ASSUME NEW m \in Managers, task[m] = "join"
          PROVE  thread'[job[m].addr] # "run"
      <3>1. job[m].addr \in Addrs /\ thread[job[m].addr] # "run"
        BY <2>2 DEF JobsOK, TypeOK, Busy
      <3> QED BY <1>2, <3>1
    <2> QED BY <1>1, <1>2, <2>1, <2>2 DEF JobsOK, Busy, clientVars
  <1>5. ServersOK'
    BY <1>1, <1>2 DEF ServersOK
  <1>6. ClientsOK'
    BY <1>1, <1>2 DEF TypeOK, ClientsOK, clientVars
  <1>7. ConnectsOK' /\ DisconnectsOK'
    BY <1>1 DEF ConnectsOK, Connects, DisconnectsOK, Disconnects, clientVars
  <1> QED BY <1>3, <1>4, <1>5, <1>6, <1>7

\* A server processes a message.
LEMMA ProcessStep ==
  ASSUME SInv, NEW a \in Addrs, Process(a)
  PROVE  SInv'
  <1> USE DEF SInv
  <1>1. /\ thread[a] = "process" /\ thread' = [thread EXCEPT ![a] = "recv"]
        /\ UNCHANGED <<que, exists, tuples, shutdown, replyAddr, task, job, addr>>
    BY DEF Process
  <1>2. /\ pc' \in [Clients -> {"idle", "asked", "connected", "called"}]
        /\ \A d \in Clients : pc'[d] = pc[d] \/ (pc[d] = "called" /\ pc'[d] = "connected")
    BY DEF Process, TypeOK
  <1>3. /\ thread' \in [Addrs -> {"run", "recv", "process", "exited"}] /\ thread'[a] = "recv"
        /\ \A b \in Addrs : b # a => thread'[b] = thread[b]
        /\ a \in exists
    BY <1>1 DEF TypeOK, ServersOK
  <1>4. TypeOK'
    BY <1>1, <1>2, <1>3 DEF TypeOK
  <1>5. JobsOK'
    <2>1. ASSUME NEW m \in Managers, task[m] = "store"
          PROVE  job[m].addr \in Addrs /\ job[m].addr # a
      BY <1>1, <2>1 DEF JobsOK, TypeOK, Busy
    <2>2. ASSUME NEW m \in Managers, task[m] = "join"
          PROVE  thread'[job[m].addr] # "run"
      <3>1. job[m].addr \in Addrs /\ thread[job[m].addr] # "run"
        BY <2>2 DEF JobsOK, TypeOK, Busy
      <3> QED BY <1>3, <3>1
    <2>3. ASSUME NEW m \in Managers, task[m] = "store"
          PROVE  thread'[job[m].addr] = "run" /\ pc'[job[m].client] = "asked"
      <3>1. thread[job[m].addr] = "run" /\ job[m].client \in Clients /\ pc[job[m].client] = "asked"
        BY <2>3 DEF JobsOK
      <3> QED BY <1>2, <1>3, <2>1, <2>3, <3>1
    <2> QED BY <1>1, <2>2, <2>3 DEF JobsOK, Busy
  <1>6. ServersOK'
    BY <1>1, <1>3 DEF ServersOK
  <1>7. ClientsOK'
    <2>1. \A d \in Clients : pc'[d] \in {"connected", "called"} <=> pc[d] \in {"connected", "called"}
      BY <1>2
    <2>2. \A d \in Clients : addr[d] # None => addr[d] \in Addrs /\ thread'[addr[d]] # "exited"
      BY <1>3 DEF TypeOK, ClientsOK
    <2> QED BY <1>1, <2>1, <2>2 DEF ClientsOK
  <1>8. ConnectsOK'
    <2>1. ASSUME NEW m \in Managers, NEW i \in DOMAIN que[m], Connects(m, i)
          PROVE  que[m][i].client \in Clients
      <3>1. PICK q \in Seq(Messages) : q = que[m]
        BY DEF TypeOK
      <3>2. q[i] \in Messages
        BY <3>1
      <3> QED BY <3>1, <3>2 DEF Messages
    <2>2. \A d \in Clients : pc[d] = "asked" => pc'[d] = "asked"
      BY <1>2
    <2> QED BY <1>1, <2>1, <2>2 DEF ConnectsOK, Connects
  <1>9. DisconnectsOK'
    BY <1>1 DEF DisconnectsOK, Disconnects
  <1> QED BY <1>4, <1>5, <1>6, <1>7, <1>8, <1>9

\* No step breaks the invariant.
LEMMA SInvStep == SInv /\ [Next]_vars => SInv'
  <1>1. ASSUME SInv, UNCHANGED vars PROVE SInv'
    BY <1>1 DEF vars, SInv, TypeOK, JobsOK, ServersOK, ClientsOK, ConnectsOK, DisconnectsOK,
       Connects, Disconnects, Busy
  <1>2. ASSUME SInv, NEW c \in Clients, Client(c) PROVE SInv'
    BY <1>2, ConnectStep, CallStep, DisconnectStep DEF Client
  <1>3. ASSUME SInv, NEW m \in Managers, Manager(m) PROVE SInv'
    BY <1>3, CreateFailsStep, CreateServiceStep, StartServiceStep, DeleteServiceStep, JoinedStep
       DEF Manager
  <1>4. ASSUME SInv, NEW a \in Addrs, Server(a) PROVE SInv'
    BY <1>4, RecvStep, RecvUnblockedStep, ProcessStep DEF Server
  <1>5. ASSUME SInv, Next PROVE SInv'
    BY <1>2, <1>3, <1>4, <1>5, ChannelStep DEF Next
  <1> QED BY <1>1, <1>5

\* The invariant holds in every state.
LEMMA SInvAlways == Spec => []SInv
  <1> QED BY SInit, SInvStep, PTL DEF Spec

-----------------------------------------------------------------------------
(* Services: the theorems.                                                 *)

\* Type correctness: the table names servers that exist, and what is told to end is
\* one of these or the channel.
THEOREM ServicesTypeCorrect == Spec => []TypeOK
  <1>1. SInv => TypeOK
    BY DEF SInv
  <1> QED BY <1>1, SInvAlways, PTL

\* A service belongs to one client, runs, and is not deleted under it, until that
\* client gives it up.
THEOREM ServicesOwned == Spec => []OwnService
  <1>1. ASSUME SInv PROVE OwnService
    <2> USE <1>1 DEF SInv
    <2>1. ASSUME NEW c \in Clients, addr[c] # None,
                 NEW m \in Managers, NEW i \in DOMAIN que[m], que[m][i].type = "DISC_REQ"
          PROVE  que[m][i].addr # addr[c]
      BY <2>1 DEF DisconnectsOK, Disconnects
    <2>2. ASSUME NEW c \in Clients, addr[c] # None
          PROVE  /\ addr[c] \in tuples \ shutdown
                 /\ thread[addr[c]] # "exited"
                 /\ \A d \in Clients : addr[d] = addr[c] => d = c
      BY <2>2 DEF ClientsOK, ServersOK, TypeOK
    <2> QED BY <2>1, <2>2 DEF OwnService
  <1> QED BY <1>1, SInvAlways, PTL

\* Nothing of an earlier owner of an address reaches the next one: neither a message
\* at its endpoint nor a thread of the deleted server.
THEOREM NothingLeftBehind == Spec => []NothingLeftOver
  <1>1. SInv => NothingLeftOver
    BY DEF SInv, ServersOK, ClientsOK, NothingLeftOver
  <1> QED BY <1>1, SInvAlways, PTL

===============================================================================
