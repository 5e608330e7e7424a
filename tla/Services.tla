------------------------------- MODULE Services -------------------------------
(***************************************************************************)
(* The services a core offers its host.  Two tasks, OmxSrvMgr and that of  *)
(* an OmapRpc channel, take requests to connect and to disconnect, each at *)
(* its own endpoint.  A connection is an RCM server with an endpoint and a *)
(* thread of its own; ServiceMgr keeps a table from its address to its     *)
(* handle, and deleting it waits for its thread.                           *)
(*                                                                         *)
(* This is the build where USE_MESSAGEQCOPY is 1 and the default pool has  *)
(* no workers: the server thread processes its messages itself, each in    *)
(* the buffer on its stack.  Messages to one endpoint arrive in the order  *)
(* sent, and unblock is sticky (MessageQCopy.tla).  What a host client     *)
(* does is external; it uses one manager, and disconnects once, perhaps    *)
(* without waiting for a reply.                                            *)
(*                                                                         *)
(* The image has one core: the managers have equal priority, so neither    *)
(* runs while the other is in the table or between two calls that do not   *)
(* block.  (In an SMP image they can run in parallel, and nothing locks    *)
(* the table; that is not modelled.)                                       *)
(***************************************************************************)
EXTENDS Naturals, Sequences, FiniteSets, SequencesExt

CONSTANTS
  Clients,      \* programs on the host
  ManagerOf,    \* the manager each of them asks
  Endpoints,    \* endpoints services can get, in the order they are looked at
  MaxTuples,    \* MAX_TUPLES
  None

Managers == {"omx", "rpc"}
Addrs == ToSet(Endpoints)

(* A server that was not started cannot be deleted: its thread waits for   *)
(* the start.  createService would do so if the table were full; there are *)
(* 256 entries, and 155 endpoints above the reserved ones.                 *)
ASSUME TuplesAssumption ==
  /\ Endpoints \in Seq(Addrs)
  /\ MaxTuples \in Nat /\ Len(Endpoints) <= MaxTuples
  /\ ManagerOf \in [Clients -> Managers]
  /\ None \notin Addrs \cup Clients \cup Managers
  /\ Addrs \cap Managers = {}  \* those of the managers are other endpoints

VARIABLES
  que,       \* messages at the endpoints of managers and services
  exists,    \* endpoints of RCM servers, until deleted
  tuples,    \* addresses in the table
  shutdown,  \* servers, and channels, told to end
  thread,    \* where each server's thread is
  replyAddr, \* client the server's last message came from
  task,      \* where each manager is
  job,       \* the service it creates or deletes, and for whom
  pc,        \* what each client does
  addr       \* the address it was given

vars == <<que, exists, tuples, shutdown, thread, replyAddr, task, job, pc, addr>>
serverVars == <<exists, thread, replyAddr>>
clientVars == <<pc, addr>>

NoJob == [client |-> None, addr |-> None]

Init ==
  /\ que = [e \in Managers \cup Addrs |-> <<>>]
  /\ exists = {} /\ tuples = {} /\ shutdown = {}
  /\ thread = [a \in Addrs |-> "exited"]
  /\ replyAddr = [a \in Addrs |-> None]
  /\ task = [m \in Managers |-> "recv"]
  /\ job = [m \in Managers |-> NoJob]
  /\ pc = [c \in Clients |-> "idle"]
  /\ addr = [c \in Clients |-> None]

-----------------------------------------------------------------------------
(* The clients. *)

Put(e, m) == que' = [que EXCEPT ![e] = Append(@, m)]

Msg(t, c, a) == [type |-> t, client |-> c, addr |-> a]

Connect(c) ==
  /\ pc[c] = "idle"
  /\ Put(ManagerOf[c], Msg("CONN_REQ", c, None))
  /\ pc' = [pc EXCEPT ![c] = "asked"]
  /\ UNCHANGED <<serverVars, tuples, shutdown, task, job, addr>>

Call(c) ==
  /\ pc[c] = "connected"
  /\ Put(addr[c], Msg("RAW_MSG", c, addr[c]))
  /\ pc' = [pc EXCEPT ![c] = "called"]
  /\ UNCHANGED <<serverVars, tuples, shutdown, task, job, addr>>

\* It may tell the service, whose thread then ends by itself, too.
Disconnect(c) ==
  /\ pc[c] \in {"connected", "called"}
  /\ LET req == Msg("DISC_REQ", c, addr[c])
         told == [que EXCEPT ![ManagerOf[c]] = Append(@, req)]
     IN que' \in {told, [told EXCEPT ![addr[c]] = Append(@, req)]}
  /\ pc' = [pc EXCEPT ![c] = "idle"]
  /\ addr' = [addr EXCEPT ![c] = None]
  /\ UNCHANGED <<serverVars, tuples, shutdown, task, job>>

-----------------------------------------------------------------------------
(* The managers. *)

Take(m, type) ==
  /\ task[m] = "recv"
  /\ que[m] # <<>> /\ Head(que[m]).type = type
  /\ que' = [que EXCEPT ![m] = Tail(@)]

\* The loop is left when its task was told to end.
Loop(m) == task' = [task EXCEPT ![m] = IF m \in shutdown THEN "exited" ELSE "recv"]

Answer(c, a) ==
  /\ pc' = [pc EXCEPT ![c] = IF a = None THEN "idle" ELSE "connected"]
  /\ addr' = [addr EXCEPT ![c] = a]

\* createService with no endpoint left: RcmServer_create fails.
CreateFails(m) ==
  /\ Take(m, "CONN_REQ")
  /\ exists = Addrs
  /\ Answer(Head(que[m]).client, None)
  /\ Loop(m)
  /\ UNCHANGED <<serverVars, tuples, shutdown, job>>

\* The first endpoint that is not taken.
FirstFree(taken) ==
  Endpoints[CHOOSE i \in DOMAIN Endpoints :
    /\ Endpoints[i] \notin taken
    /\ \A j \in 1..(i - 1) : Endpoints[j] \in taken]

\* Mutant: an address is free once it is out of the table.
CreateFromTable(m) ==
  /\ Take(m, "CONN_REQ")
  /\ tuples # Addrs
  /\ LET a == FirstFree(tuples)
     IN /\ exists' = exists \cup {a}
        /\ thread' = [thread EXCEPT ![a] = "run"]
        /\ job' = [job EXCEPT ![m] = [client |-> Head(que[m]).client, addr |-> a]]
  /\ task' = [task EXCEPT ![m] = "store"]
  /\ UNCHANGED <<tuples, shutdown, replyAddr, clientVars>>

\* It gets the first one free.  The server's thread waits to be started.
CreateService(m) ==
  /\ Take(m, "CONN_REQ")
  /\ exists # Addrs
  /\ LET a == FirstFree(exists)
     IN /\ exists' = exists \cup {a}
        /\ thread' = [thread EXCEPT ![a] = "run"]
        /\ job' = [job EXCEPT ![m] = [client |-> Head(que[m]).client, addr |-> a]]
  /\ task' = [task EXCEPT ![m] = "store"]
  /\ UNCHANGED <<tuples, shutdown, replyAddr, clientVars>>

\* Mutant: the address goes into the table and the server is not started.
StoreTupleOnly(m) ==
  /\ task[m] = "store"
  /\ Cardinality(tuples) < MaxTuples
  /\ tuples' = tuples \cup {job[m].addr}
  /\ Answer(job[m].client, job[m].addr)
  /\ Loop(m)
  /\ job' = [job EXCEPT ![m] = NoJob]
  /\ UNCHANGED <<serverVars, que, shutdown>>

\* storeTuple, RcmServer_start and the response.
StartService(m) ==
  /\ task[m] = "store"
  /\ Cardinality(tuples) < MaxTuples
  /\ tuples' = tuples \cup {job[m].addr}
  /\ thread' = [thread EXCEPT ![job[m].addr] = "recv"]
  /\ Answer(job[m].client, job[m].addr)
  /\ Loop(m)
  /\ job' = [job EXCEPT ![m] = NoJob]
  /\ UNCHANGED <<exists, replyAddr, que, shutdown>>

\* Mutant: the entry is found and left in the table.
DeleteKeepsTuple(m) ==
  /\ Take(m, "DISC_REQ")
  /\ LET a == Head(que[m]).addr
     IN IF a \in tuples
          THEN /\ shutdown' = shutdown \cup {a}
               /\ job' = [job EXCEPT ![m] = [client |-> None, addr |-> a]]
               /\ task' = [task EXCEPT ![m] = "join"]
          ELSE UNCHANGED <<shutdown, job>> /\ Loop(m)
  /\ UNCHANGED <<serverVars, tuples, clientVars>>

\* deleteService: out of the table first; then the server is told to end.
DeleteService(m) ==
  /\ Take(m, "DISC_REQ")
  /\ LET a == Head(que[m]).addr
     IN IF a \in tuples
          THEN /\ tuples' = tuples \ {a}
               /\ shutdown' = shutdown \cup {a}
               /\ job' = [job EXCEPT ![m] = [client |-> None, addr |-> a]]
               /\ task' = [task EXCEPT ![m] = "join"]
          ELSE UNCHANGED <<tuples, shutdown, job>> /\ Loop(m)
  /\ UNCHANGED <<serverVars, clientVars>>

\* Mutant: the endpoint is deleted without waiting for the thread.
NoJoin(m) ==
  /\ task[m] = "join"
  /\ LET a == job[m].addr
     IN /\ exists' = exists \ {a}
        /\ shutdown' = shutdown \ {a}
        /\ que' = [que EXCEPT ![a] = <<>>]
        /\ thread' = [thread EXCEPT ![a] = IF @ = "process" THEN @ ELSE "exited"]
  /\ Loop(m)
  /\ job' = [job EXCEPT ![m] = NoJob]
  /\ UNCHANGED <<tuples, replyAddr, clientVars>>

\* Its thread has ended: the server and its endpoint go away.
Joined(m) ==
  /\ task[m] = "join"
  /\ LET a == job[m].addr
     IN /\ thread[a] = "exited"
        /\ exists' = exists \ {a}
        /\ shutdown' = shutdown \ {a}
        /\ que' = [que EXCEPT ![a] = <<>>]
        /\ replyAddr' = [replyAddr EXCEPT ![a] = None]
  /\ Loop(m)
  /\ job' = [job EXCEPT ![m] = NoJob]
  /\ UNCHANGED <<tuples, thread, clientVars>>

(* OmapRpc_deleteChannel: it tells the task to end, then unblocks it; the  *)
(* task posts exitSem when it has left its loop; its services stay.  A     *)
(* receive that returns before the unblock still serves its message.       *)
DeleteChannel ==
  /\ "rpc" \notin shutdown
  /\ shutdown' = shutdown \cup {"rpc"}
  /\ UNCHANGED <<que, serverVars, tuples, task, job, clientVars>>

\* The unblock, and the receive that returns for it.
ChannelExits ==
  /\ "rpc" \in shutdown
  /\ task["rpc"] = "recv"
  /\ task' = [task EXCEPT !["rpc"] = "exited"]
  /\ UNCHANGED <<que, serverVars, tuples, shutdown, job, clientVars>>

-----------------------------------------------------------------------------
(* The thread of the RCM server at address a. *)

\* A message, for a server that is to end (or is told so by it): it exits.
Recv(a) ==
  /\ thread[a] = "recv"
  /\ a \notin shutdown
  /\ que[a] # <<>>
  /\ LET m == Head(que[a])
     IN /\ replyAddr' = [replyAddr EXCEPT ![a] = m.client]
        /\ thread' = [thread EXCEPT ![a] =
             IF m.type = "DISC_REQ" THEN "exited" ELSE "process"]
  /\ que' = [que EXCEPT ![a] = Tail(@)]
  /\ UNCHANGED <<exists, tuples, shutdown, task, job, clientVars>>

\* Mutant: only a receive that finds no message is unblocked.
RecvUnblockedEmpty(a) ==
  /\ thread[a] = "recv"
  /\ a \in shutdown /\ que[a] = <<>>
  /\ thread' = [thread EXCEPT ![a] = "exited"]
  /\ UNCHANGED <<que, exists, tuples, shutdown, replyAddr, task, job, clientVars>>

\* Unblocked, to exit, with messages left at the endpoint or not.
RecvUnblocked(a) ==
  /\ thread[a] = "recv"
  /\ a \in shutdown
  /\ thread' = [thread EXCEPT ![a] = "exited"]
  /\ UNCHANGED <<que, exists, tuples, shutdown, replyAddr, task, job, clientVars>>

\* The message is processed and its reply sent.
Process(a) ==
  /\ thread[a] = "process"
  /\ thread' = [thread EXCEPT ![a] = "recv"]
  /\ LET c == replyAddr[a]
     IN pc' = [pc EXCEPT ![c] = IF @ = "called" /\ addr[c] = a THEN "connected" ELSE @]
  /\ UNCHANGED <<que, exists, tuples, shutdown, replyAddr, task,
                 job, addr>>

-----------------------------------------------------------------------------
Client(c) == Connect(c) \/ Call(c) \/ Disconnect(c)

Manager(m) ==
  CreateFails(m) \/ CreateService(m) \/ StartService(m) \/ DeleteService(m) \/ Joined(m)

Server(a) == Recv(a) \/ RecvUnblocked(a) \/ Process(a)

Next ==
  \/ \E c \in Clients : Client(c)
  \/ \E m \in Managers : Manager(m)
  \/ DeleteChannel \/ ChannelExits
  \/ \E a \in Addrs : Server(a)

Spec == Init /\ [][Next]_vars

\* Tasks run and message functions return.
FairSpec ==
  /\ Spec
  /\ \A m \in Managers : WF_vars(Manager(m))
  /\ WF_vars(ChannelExits)
  /\ \A a \in Addrs : WF_vars(Server(a))

-----------------------------------------------------------------------------
Messages ==
  [type : {"CONN_REQ", "DISC_REQ", "RAW_MSG"}, client : Clients, addr : Addrs \cup {None}]

TypeOK ==
  /\ que \in [Managers \cup Addrs -> Seq(Messages)]
  /\ tuples \subseteq exists /\ exists \subseteq Addrs
  /\ shutdown \subseteq exists \cup {"rpc"}
  /\ thread \in [Addrs -> {"run", "recv", "process", "exited"}]
  /\ replyAddr \in [Addrs -> Clients \cup {None}]
  /\ task \in [Managers -> {"recv", "store", "join", "exited"}]
  /\ job \in [Managers -> [client : Clients \cup {None}, addr : Addrs \cup {None}]]
  /\ pc \in [Clients -> {"idle", "asked", "connected", "called"}]
  /\ addr \in [Clients -> Addrs \cup {None}]

(* A service belongs to the client that was given its address until that   *)
(* client gives it up: the address is in the table, no other client has    *)
(* it, the server does not end, and no request to delete it is under way   *)
(* from the time the address, or its entry in the table, was another's.    *)
OwnService ==
  \A c \in Clients : addr[c] # None =>
    /\ addr[c] \in tuples \ shutdown
    /\ thread[addr[c]] # "exited"
    /\ \A d \in Clients : addr[d] = addr[c] => d = c
    /\ \A m \in Managers : \A i \in DOMAIN que[m] :
         que[m][i].type = "DISC_REQ" => que[m][i].addr # addr[c]

(* Nothing a service of an earlier owner has left reaches the next one: no *)
(* message of another waits at its endpoint and no thread of the deleted   *)
(* server is still in the buffer when the address is given out again.      *)
NothingLeftOver ==
  /\ \A a \in Addrs \ exists : thread[a] = "exited" /\ que[a] = <<>>
  /\ \A c \in Clients : addr[c] # None =>
       \A i \in DOMAIN que[addr[c]] : que[addr[c]][i].client = c

(* Every request to connect is answered, but for those of a channel told   *)
(* to end, and a call is unless its client gives up; a deletion of a service comes to its end, and so does that of *)
(* the channel.  No manager waits for ever for a thread to end, whatever   *)
(* that thread does at the time, and no service is left unstarted.         *)
Progress ==
  /\ \A c \in Clients :
       /\ (pc[c] = "asked") ~> (pc[c] # "asked" \/ ManagerOf[c] \in shutdown)
       /\ (pc[c] = "called") ~> (pc[c] # "called")
  /\ \A m \in Managers : (task[m] = "join") ~> (task[m] # "join")
  /\ ("rpc" \in shutdown) ~> (task["rpc"] = "exited")
=============================================================================
