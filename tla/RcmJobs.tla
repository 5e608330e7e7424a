------------------------------- MODULE RcmJobs -------------------------------
(***************************************************************************)
(* The worker pools and job streams of an RCM server, in the build where   *)
(* USE_MESSAGEQCOPY is 0: a packet is a message of its own then.  (With 1, *)
(* which RcmTypes.h sets, every packet lies in the one buffer of the       *)
(* server thread, which rules pools and jobs out; README, section 2.)      *)
(*                                                                         *)
(* The server thread puts a message on the ready queue of its pool, or,    *)
(* when an earlier message of its job is not done, on the queue of the     *)
(* job; the worker that is done with a message of a job moves the next one *)
(* to its pool.  The job list is searched and changed inside the gate of   *)
(* the server, each time in one step.  A put on a ready queue and the post *)
(* that follows are one step, for a worker takes from the queue only what  *)
(* a post let it take.                                                     *)
(***************************************************************************)
EXTENDS Naturals, Sequences, FiniteSets, SequencesExt

CONSTANTS
  Workers,
  PoolMaps,     \* each way of the instance to put the workers in pools
  PoolOrder,    \* the pools, the default pool first
  MaxMessages,  \* bound: messages clients send
  MaxJobs,      \* bound: jobs clients ask for (of the ids up to 0xFFFF none is given again)
  QuietDelete   \* whether delete waits until no worker is about to look at
                \* the job list; the code does not

DISCRETE == 0
Pools == ToSet(PoolOrder)
DefaultPool == PoolOrder[1]
NoPool == "no such pool"

ASSUME PoolsAssumption ==
  /\ PoolOrder \in Seq(Pools) /\ NoPool \notin Pools
  /\ IsFiniteSet(Workers) /\ PoolMaps \subseteq [Workers -> Pools]
  /\ MaxMessages \in Nat /\ MaxJobs \in Nat /\ QuietDelete \in BOOLEAN

VARIABLES
  poolOf,    \* pool of each worker, for good
  sent,      \* the messages, by number
  answer,    \* status each was returned to its client with
  serverQue, \* messages the server thread has not taken
  jobId,     \* the job id given last
  jobList,   \* the job streams, in a function from their ids
  ready,     \* ready queue of each pool
  sem,       \* posts a worker of the pool can take
  spc, scur, \* the server thread, and the message it has
  running,   \* the thread goes back to the get after this message
  wpc, cur,  \* the same of each worker
  terminate, \* pools whose workers are to end
  del,       \* how far delete has come
  lost       \* messages that went away with the server's queue

vars == <<poolOf, sent, answer, serverQue, jobId, jobList, ready, sem, spc, scur,
          running, wpc, cur, terminate, del, lost>>

Numbers == 1..MaxMessages
NoMsg == 0
Jobs == Nat \ {DISCRETE}
Types == {"RCM_MSG", "JOB_ACQ", "JOB_REL"}
Message == [type : Types, job : Jobs \cup {DISCRETE}, pool : Pools \cup {NoPool}]
Statuses ==
  {"none", "SUCCESS", "Error", "JobNotFound", "PoolNotFound", "Unprocessed"}

\* When the default pool has no workers, its messages are for the server thread.
InBand(p) == p = DefaultPool /\ \A w \in Workers : poolOf[w] # DefaultPool

Init ==
  /\ poolOf \in PoolMaps
  /\ sent = <<>>
  /\ answer = [n \in Numbers |-> "none"]
  /\ serverQue = <<>>
  /\ jobId = 0
  /\ jobList = <<>>
  /\ ready = [p \in Pools |-> <<>>]
  /\ sem = [p \in Pools |-> 0]
  /\ spc = "get" /\ scur = NoMsg /\ running = TRUE
  /\ wpc = [w \in Workers |-> "pend"]
  /\ cur = [w \in Workers |-> NoMsg]
  /\ terminate = {}
  /\ del = "no"
  /\ lost = {}

given == <<poolOf, sent>>
jobVars == <<jobId, jobList>>
poolVars == <<ready, sem>>
workerVars == <<wpc, cur>>
serverVars == <<spc, scur, running>>
deleteVars == <<terminate, del, lost>>

\* The messages of a queue go back to their clients.
Returned(S, status) ==
  [n \in Numbers |-> IF n \in S THEN status ELSE answer[n]]

PutReady(n) ==
  /\ ready' = [ready EXCEPT ![sent[n].pool] = Append(@, n)]
  /\ sem' = [sem EXCEPT ![sent[n].pool] = @ + 1]

-----------------------------------------------------------------------------
(* Clients send messages, those of a job after they were given its id.  A  *)
(* request for an id and its release are messages of no job.               *)
Send ==
  /\ del = "no"
  /\ Len(sent) < MaxMessages
  /\ \E m \in [type : Types, job : DISCRETE..jobId, pool : Pools \cup {NoPool}] :
       /\ m.type = "JOB_ACQ" =>
            m.job = DISCRETE /\ Cardinality({n \in DOMAIN sent : sent[n].type = "JOB_ACQ"}) < MaxJobs
       /\ m.type = "JOB_REL" => m.job # DISCRETE
       /\ m.type # "RCM_MSG" => m.pool = DefaultPool
       /\ sent' = Append(sent, m)
  /\ serverQue' = Append(serverQue, Len(sent) + 1)
  /\ UNCHANGED <<poolOf, answer, jobVars, poolVars, serverVars, workerVars, deleteVars>>

-----------------------------------------------------------------------------
(* process: what the thread that has message n does when the function      *)
(* returns.  A release returns the messages that wait for their turn.      *)

JobOf(n) == IF n # NoMsg /\ sent[n].type = "RCM_MSG" THEN sent[n].job ELSE DISCRETE

\* Mutant: the messages that wait for their turn go with the job.
relJobIdOnly(n) ==
  LET j == sent[n].job
  IN /\ jobList' = [i \in DOMAIN jobList \ {j} |-> jobList[i]]
     /\ answer' = IF j \in DOMAIN jobList
                    THEN [answer EXCEPT ![n] = "SUCCESS"]
                    ELSE [answer EXCEPT ![n] = "JobNotFound"]

relJobId(n) ==
  LET j == sent[n].job
  IN /\ jobList' = [i \in DOMAIN jobList \ {j} |-> jobList[i]]
     /\ answer' = IF j \in DOMAIN jobList
                    THEN [Returned(ToSet(jobList[j].msgQue), "Unprocessed")
                            EXCEPT ![n] = "SUCCESS"]
                    ELSE [answer EXCEPT ![n] = "JobNotFound"]

\* Mutant: the counter is read before it is counted up.
acqJobIdFromZero(n) ==
  /\ jobId' = jobId + 1
  /\ jobList' = [i \in DOMAIN jobList \cup {jobId} |->
                   IF i = jobId THEN [empty |-> TRUE, msgQue |-> <<>>]
                                ELSE jobList[i]]
  /\ answer' = [answer EXCEPT ![n] = "SUCCESS"]

acqJobId(n) ==
  /\ jobId' = jobId + 1
  /\ jobList' = [i \in DOMAIN jobList \cup {jobId + 1} |->
                   IF i = jobId + 1 THEN [empty |-> TRUE, msgQue |-> <<>>]
                                    ELSE jobList[i]]
  /\ answer' = [answer EXCEPT ![n] = "SUCCESS"]

\* There is no memory for the job: its id is gone all the same.
acqJobFails(n) ==
  /\ jobId' = jobId + 1
  /\ answer' = [answer EXCEPT ![n] = "Error"]
  /\ UNCHANGED jobList

process(n) ==
  CASE sent[n].type = "JOB_REL" -> relJobId(n) /\ UNCHANGED jobId
    [] sent[n].type = "JOB_ACQ" -> acqJobId(n) \/ acqJobFails(n)
    [] sent[n].type = "RCM_MSG" ->
         answer' = [answer EXCEPT ![n] = "SUCCESS"] /\ UNCHANGED jobVars

-----------------------------------------------------------------------------
(* The server thread. *)

\* It takes a message and looks at shutdown: when that is set the message is the last one.
\* (A thread that is told while it has a message comes back for one more, or for the unblock.)
Get ==
  /\ spc = "get"
  /\ serverQue # <<>>
  /\ scur' = Head(serverQue)
  /\ serverQue' = Tail(serverQue)
  /\ spc' = IF InBand(sent[scur'].pool) THEN "process" ELSE "dispatch"
  /\ running' = (del = "no")
  /\ UNCHANGED <<given, answer, jobVars, poolVars, workerVars, deleteVars>>

Unblocked ==
  /\ spc = "get"
  /\ del = "join"
  /\ spc' = "stopped" /\ running' = FALSE
  /\ UNCHANGED <<given, answer, serverQue, jobVars, poolVars, scur, workerVars, deleteVars>>

Loop ==
  /\ scur' = NoMsg
  /\ spc' = IF running THEN "get" ELSE "stopped"
  /\ UNCHANGED running

ProcessInBand ==
  /\ spc = "process"
  /\ process(scur)
  /\ Loop
  /\ UNCHANGED <<given, serverQue, poolVars, workerVars, deleteVars>>

DispatchFails ==
  /\ spc = "dispatch"
  /\ \/ /\ sent[scur].pool = NoPool
        /\ answer' = [answer EXCEPT ![scur] = "PoolNotFound"]
     \/ /\ sent[scur].pool # NoPool
        /\ JobOf(scur) \notin DOMAIN jobList \cup {DISCRETE}
        /\ answer' = [answer EXCEPT ![scur] = "JobNotFound"]
  /\ Loop
  /\ UNCHANGED <<given, serverQue, jobVars, poolVars, workerVars, deleteVars>>

DispatchDiscrete ==
  /\ spc = "dispatch"
  /\ sent[scur].pool # NoPool
  /\ JobOf(scur) = DISCRETE
  /\ PutReady(scur)
  /\ Loop
  /\ UNCHANGED <<given, answer, serverQue, jobVars, workerVars, deleteVars>>

\* Mutant: a job counts as empty when no message waits for its turn.
DispatchJobByQueue ==
  /\ spc = "dispatch"
  /\ sent[scur].pool # NoPool
  /\ LET j == JobOf(scur)
     IN /\ j \in DOMAIN jobList
        /\ IF jobList[j].msgQue = <<>>
             THEN /\ jobList' = [jobList EXCEPT ![j].empty = FALSE]
                  /\ PutReady(scur)
             ELSE /\ jobList' = [jobList EXCEPT ![j].msgQue = Append(@, scur)]
                  /\ UNCHANGED poolVars
  /\ Loop
  /\ UNCHANGED <<given, answer, serverQue, jobId, workerVars, deleteVars>>

DispatchJob ==
  /\ spc = "dispatch"
  /\ sent[scur].pool # NoPool
  /\ LET j == JobOf(scur)
     IN /\ j \in DOMAIN jobList
        /\ IF jobList[j].empty
             THEN /\ jobList' = [jobList EXCEPT ![j].empty = FALSE]
                  /\ PutReady(scur)
             ELSE /\ jobList' = [jobList EXCEPT ![j].msgQue = Append(@, scur)]
                  /\ UNCHANGED poolVars
  /\ Loop
  /\ UNCHANGED <<given, answer, serverQue, jobId, workerVars, deleteVars>>

-----------------------------------------------------------------------------
(* A worker. *)

TakeReady(w) ==
  LET p == poolOf[w]
  IN /\ wpc[w] = "pend" /\ sem[p] > 0 /\ p \notin terminate
     /\ sem' = [sem EXCEPT ![p] = @ - 1]
     /\ cur' = [cur EXCEPT ![w] = Head(ready[p])]
     /\ ready' = [ready EXCEPT ![p] = Tail(@)]
     /\ wpc' = [wpc EXCEPT ![w] = "process"]
     /\ UNCHANGED <<given, answer, serverQue, jobVars, serverVars, deleteVars>>

Terminate(w) ==
  LET p == poolOf[w]
  IN /\ wpc[w] = "pend" /\ sem[p] > 0 /\ p \in terminate
     /\ sem' = [sem EXCEPT ![p] = @ - 1]
     /\ wpc' = [wpc EXCEPT ![w] = "stopped"]
     /\ UNCHANGED <<given, answer, serverQue, jobVars, ready, serverVars, cur, deleteVars>>

Process(w) ==
  /\ wpc[w] = "process"
  /\ process(cur[w])
  /\ wpc' = [wpc EXCEPT ![w] = IF JobOf(cur[w]) = DISCRETE THEN "pend" ELSE "next"]
  /\ cur' = [cur EXCEPT ![w] = IF JobOf(cur[w]) = DISCRETE THEN NoMsg ELSE @]
  /\ UNCHANGED <<given, serverQue, poolVars, serverVars, deleteVars>>

\* Mutant: no worker is woken, as if this one took the message itself.
NextOfJobNoPost(w) ==
  /\ wpc[w] = "next"
  /\ LET j == JobOf(cur[w])
     IN IF j \notin DOMAIN jobList
          THEN UNCHANGED <<jobList, poolVars>>
          ELSE IF jobList[j].msgQue = <<>>
            THEN /\ jobList' = [jobList EXCEPT ![j].empty = TRUE]
                 /\ UNCHANGED poolVars
            ELSE /\ LET n == Head(jobList[j].msgQue)
                    IN ready' = [ready EXCEPT ![sent[n].pool] = Append(@, n)]
                 /\ UNCHANGED sem
                 /\ jobList' = [jobList EXCEPT ![j].msgQue = Tail(@)]
  /\ wpc' = [wpc EXCEPT ![w] = "pend"]
  /\ cur' = [cur EXCEPT ![w] = NoMsg]
  /\ UNCHANGED <<given, answer, serverQue, jobId, serverVars, deleteVars>>

(* It was a message of a job: the next one of the job is ready.  Its pool  *)
(* was looked up when it was put on the queue and is still there.          *)
NextOfJob(w) ==
  /\ wpc[w] = "next"
  /\ LET j == JobOf(cur[w])
     IN IF j \notin DOMAIN jobList
          THEN UNCHANGED <<jobList, poolVars>>
          ELSE IF jobList[j].msgQue = <<>>
            THEN /\ jobList' = [jobList EXCEPT ![j].empty = TRUE]
                 /\ UNCHANGED poolVars
            ELSE /\ PutReady(Head(jobList[j].msgQue))
                 /\ jobList' = [jobList EXCEPT ![j].msgQue = Tail(@)]
  /\ wpc' = [wpc EXCEPT ![w] = "pend"]
  /\ cur' = [cur EXCEPT ![w] = NoMsg]
  /\ UNCHANGED <<given, answer, serverQue, jobId, serverVars, deleteVars>>

-----------------------------------------------------------------------------
(* RcmServer_delete.  It is for a server whose clients have released their *)
(* jobs: "there should not be any".                                        *)

Delete ==
  /\ del = "no"
  /\ jobList = <<>>
  /\ del' = "join"
  /\ UNCHANGED <<given, answer, serverQue, jobVars, poolVars, serverVars,
                 workerVars, terminate, lost>>

\* The server thread has ended: the job list is deleted.
Joined ==
  /\ del = "join"
  /\ spc = "stopped"
  /\ QuietDelete => \A w \in Workers : JobOf(cur[w]) = DISCRETE
  /\ answer' = Returned(UNION {ToSet(jobList[j].msgQue) : j \in DOMAIN jobList},
                        "Unprocessed")
  /\ jobList' = <<>>
  /\ del' = "pools"
  /\ UNCHANGED <<given, serverQue, jobId, poolVars, serverVars, workerVars, terminate, lost>>

WorkersOf(p) == {w \in Workers : poolOf[w] = p}

\* Mutant: the flag is set and nobody wakes the workers to see it.
TerminatePoolSilently(i) ==
  LET p == PoolOrder[i]
  IN /\ del = "pools"
     /\ terminate = {PoolOrder[k] : k \in 1..(i - 1)}
     /\ \A w \in Workers : poolOf[w] \in terminate => wpc[w] = "stopped"
     /\ terminate' = terminate \cup {p}
     /\ UNCHANGED <<given, answer, serverQue, jobVars, poolVars, serverVars,
                    workerVars, del, lost>>

\* One pool after the other: its workers are told to end,
TerminatePool(i) ==
  LET p == PoolOrder[i]
  IN /\ del = "pools"
     /\ terminate = {PoolOrder[k] : k \in 1..(i - 1)}
     /\ \A w \in Workers : poolOf[w] \in terminate => wpc[w] = "stopped"
     /\ terminate' = terminate \cup {p}
     /\ sem' = [sem EXCEPT ![p] = @ + Cardinality(WorkersOf(p))]
     /\ UNCHANGED <<given, answer, serverQue, jobVars, ready, serverVars,
                    workerVars, del, lost>>

\* and when they have, what is left of its ready queue goes back.
EmptyPool(i) ==
  LET p == PoolOrder[i]
  IN /\ del = "pools"
     /\ p \in terminate
     /\ \A w \in WorkersOf(p) : wpc[w] = "stopped"
     /\ ready[p] # <<>>
     /\ answer' = Returned(ToSet(ready[p]), "Unprocessed")
     /\ ready' = [ready EXCEPT ![p] = <<>>]
     /\ UNCHANGED <<given, serverQue, jobVars, sem, serverVars, workerVars, deleteVars>>

\* Last the server's queue, with the messages in it.
DeleteQueue ==
  /\ del = "pools"
  /\ terminate = Pools
  /\ \A w \in Workers : wpc[w] = "stopped"
  /\ \A p \in Pools : ready[p] = <<>>
  /\ lost' = ToSet(serverQue)
  /\ serverQue' = <<>>
  /\ del' = "done"
  /\ UNCHANGED <<given, answer, jobVars, poolVars, serverVars, workerVars, terminate>>

-----------------------------------------------------------------------------
ServerThread ==
  Get \/ Unblocked \/ ProcessInBand \/ DispatchFails \/ DispatchDiscrete \/ DispatchJob

Worker(w) == TakeReady(w) \/ Terminate(w) \/ Process(w) \/ NextOfJob(w)

Finalize ==
  Joined \/ DeleteQueue \/ \E i \in 1..Len(PoolOrder) : TerminatePool(i) \/ EmptyPool(i)

Next == Send \/ ServerThread \/ Delete \/ Finalize \/ \E w \in Workers : Worker(w)

Spec == Init /\ [][Next]_vars

\* The threads run; message functions return.
FairSpec ==
  Spec /\ WF_vars(ServerThread) /\ WF_vars(Finalize) /\ \A w \in Workers : WF_vars(Worker(w))

-----------------------------------------------------------------------------
TypeOK ==
  /\ poolOf \in PoolMaps
  /\ sent \in Seq(Message) /\ Len(sent) <= MaxMessages
  /\ answer \in [Numbers -> Statuses]
  /\ serverQue \in Seq(Numbers)
  /\ jobId \in Nat
  /\ DOMAIN jobList \subseteq Jobs
  /\ \A j \in DOMAIN jobList :
       jobList[j] \in [empty : BOOLEAN, msgQue : Seq(Numbers)]
  /\ ready \in [Pools -> Seq(Numbers)]
  /\ sem \in [Pools -> Nat]
  /\ spc \in {"get", "process", "dispatch", "stopped"}
  /\ scur \in Numbers \cup {NoMsg}
  /\ running \in BOOLEAN
  /\ wpc \in [Workers -> {"pend", "process", "next", "stopped"}]
  /\ cur \in [Workers -> Numbers \cup {NoMsg}]
  /\ terminate \subseteq Pools
  /\ del \in {"no", "join", "pools", "done"}
  /\ lost \subseteq Numbers

(* "The server will process all messages for a given job id in sequence":  *)
(* while a message of a job is being processed every earlier one of that   *)
(* job has been answered, whichever pools they were for, and whatever was  *)
(* released meanwhile.  (The messages of a default pool without workers    *)
(* are out of the sequence: the server thread does not look at their job.) *)
InProcess(n) ==
  \/ spc = "process" /\ scur = n
  \/ \E w \in Workers : wpc[w] = "process" /\ cur[w] = n

Sequenced(n) == JobOf(n) # DISCRETE /\ ~InBand(sent[n].pool)

JobsInSequence ==
  \A n \in 1..Len(sent) : InProcess(n) /\ Sequenced(n) =>
    \A k \in 1..(n - 1) :
      Sequenced(k) /\ JobOf(k) = JobOf(n) => answer[k] # "none"

(* Every message is answered, once the server has it, exactly when it has  *)
(* left the queues: none waits on the queue of a job that has no message   *)
(* at work to bring it forward, and a message with an answer is held by no *)
(* queue or thread that would answer it again.                             *)
Waiting == UNION {ToSet(jobList[j].msgQue) : j \in DOMAIN jobList}

AtWork ==
  (UNION {ToSet(ready[p]) : p \in Pools}) \cup
  {n \in Numbers : (spc \in {"process", "dispatch"} /\ scur = n)
                   \/ \E w \in Workers : wpc[w] = "process" /\ cur[w] = n}

NoneStranded ==
  /\ \A n \in 1..Len(sent) :
       answer[n] = "none" <=>
         n \in ToSet(serverQue) \cup Waiting \cup AtWork \cup lost
  /\ \A j \in DOMAIN jobList : ~jobList[j].empty =>
       \/ \E n \in AtWork : JobOf(n) = j
       \/ \E w \in Workers : wpc[w] = "next" /\ JobOf(cur[w]) = j

(* A message is answered however the pools, the order of its job, a        *)
(* release and a delete fall together; only delete loses the ones still in *)
(* the server's queue.  And delete comes to an end: every thread it joins  *)
(* does.                                                                   *)
Progress ==
  /\ \A n \in Numbers : (n <= Len(sent)) ~> (answer[n] # "none" \/ n \in lost)
  /\ (del = "join") ~> (del = "done")
=============================================================================
