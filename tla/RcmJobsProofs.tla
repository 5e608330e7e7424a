---------------------------- MODULE RcmJobsProofs ----------------------------
(***************************************************************************)
(* Proofs about RcmJobs, for any number of workers, pools, jobs and        *)
(* messages: the messages of a job are processed in sequence, and none is  *)
(* stranded or answered twice, whatever is released or deleted meanwhile.  *)
(***************************************************************************)
EXTENDS RcmJobs, SequenceTheorems, FiniteSetTheorems, TLAPS

-----------------------------------------------------------------------------
(* The inductive invariant.                                                *)

Injective(q) == \A i, k \in 1..Len(q) : q[i] = q[k] => i = k
Ascending(q) == \A i, k \in 1..Len(q) : i < k => q[i] < q[k]

\* Messages the server thread has taken, or that went away with its queue.
Taken == Len(sent) - Len(serverQue)

\* Messages are taken in the order of their numbers.  A ready queue has messages for its
\* pool and the queue of a job has messages of the job, older ones first, none of them
\* for a default pool without workers.
QueueOK ==
  /\ Len(serverQue) <= Len(sent)
  /\ \A i \in 1..Len(serverQue) : serverQue[i] = Taken + i
ReadyOK ==
  \A p \in Pools :
    /\ Injective(ready[p])
    /\ \A n \in ToSet(ready[p]) : n \in 1..Taken /\ sent[n].pool = p /\ ~InBand(p)
JobsOK ==
  \A j \in DOMAIN jobList :
    /\ Ascending(jobList[j].msgQue)
    /\ \A n \in ToSet(jobList[j].msgQue) :
         n \in 1..Taken /\ JobOf(n) = j /\ sent[n].pool \in Pools /\ ~InBand(sent[n].pool)
QueuesOK == QueueOK /\ ReadyOK /\ JobsOK

\* A thread has a message while it is at work on it; the server thread has the one it
\* took last, a worker one of its pool, and no two have the same.
ThreadsOK ==
  /\ spc \in {"process", "dispatch"} <=> scur # NoMsg
  /\ scur # NoMsg => scur = Taken
  /\ spc = "process" => InBand(sent[scur].pool)
  /\ spc = "dispatch" => ~InBand(sent[scur].pool)
  /\ \A w \in Workers :
       /\ wpc[w] \in {"process", "next"} <=> cur[w] # NoMsg
       /\ cur[w] # NoMsg => cur[w] \in 1..Taken /\ sent[cur[w]].pool = poolOf[w]
       /\ wpc[w] = "next" => JobOf(cur[w]) # DISCRETE
       /\ \A u \in Workers : cur[w] = cur[u] /\ cur[w] # NoMsg => w = u

InJob(n) == JobOf(n) \in DOMAIN jobList /\ n \in ToSet(jobList[JobOf(n)].msgQue)
InReady(n) == sent[n].pool \in Pools /\ n \in ToSet(ready[sent[n].pool])
AtWorker(n) == \E w \in Workers : cur[w] = n
Working(n) == \E w \in Workers : cur[w] = n /\ wpc[w] = "process"

\* A message is in one place.
InOnePlace ==
  \A n \in 1..Taken :
    /\ n = scur => ~InJob(n) /\ ~InReady(n) /\ ~AtWorker(n)
    /\ InJob(n) => ~InReady(n) /\ ~AtWorker(n)
    /\ InReady(n) => ~AtWorker(n)

\* It has no answer as long as it is in one, or as the server has not taken it.
Answered ==
  /\ \A n \in 1..Taken : answer[n] = "none" <=>
       n \in lost \/ n = scur \/ InJob(n) \/ InReady(n) \/ Working(n)
  /\ \A n \in Numbers : n > Taken => answer[n] = "none"

\* The message of a job that was brought forward, until its worker has looked at the
\* job again.
Forward(n) == InReady(n) \/ AtWorker(n)

\* There is one of each job that is not empty, older than those that wait for their turn.
OneForward ==
  /\ \A n, k \in 1..Taken : JobOf(n) # DISCRETE /\ JobOf(n) = JobOf(k) /\ Forward(n) =>
       /\ Forward(k) => n = k
       /\ InJob(k) => n < k
  /\ \A j \in DOMAIN jobList :
       IF jobList[j].empty
         THEN jobList[j].msgQue = <<>> /\ \A n \in 1..Taken : JobOf(n) = j => ~Forward(n)
         ELSE \E n \in 1..Taken : JobOf(n) = j /\ Forward(n)

\* An id is known before a message of its job can come.
IdsKnown ==
  /\ \A n \in 1..Len(sent) : JobOf(n) <= jobId
  /\ \A j \in DOMAIN jobList : j <= jobId

\* A worker that was let through finds a message.
Counted == \A p \in Pools \ terminate : sem[p] = Len(ready[p])

\* What delete has left behind.
Deleting ==
  /\ terminate # {} => del \in {"pools", "done"}
  /\ del \in {"pools", "done"} =>
       spc = "stopped" /\ \A j \in DOMAIN jobList : jobList[j].empty
  /\ del # "done" => lost = {}
  /\ del = "done" => \A p \in Pools : ready[p] = <<>>
  /\ del = "done" => \A w \in Workers : wpc[w] = "stopped"
  /\ lost \subseteq 1..Taken

IInv ==
  /\ TypeOK /\ QueuesOK /\ ThreadsOK /\ InOnePlace /\ Answered /\ OneForward /\ IdsKnown
  /\ Counted /\ Deleting

-----------------------------------------------------------------------------
(* Queues: what is in them after a step, and in which order.               *)

\* ToSet in terms of the places of a sequence.
LEMMA InQueue ==
  ASSUME NEW S, NEW q \in Seq(S)
  PROVE  /\ Len(q) \in Nat
         /\ \A x : x \in ToSet(q) <=> \E i \in 1..Len(q) : q[i] = x
         /\ ToSet(q) \subseteq S
         /\ q = <<>> <=> ToSet(q) = {}
  BY LenProperties, ElementOfSeq, EmptySeq DEF ToSet

\* There is nothing in an empty queue.
LEMMA EmptyQueue ==
  ToSet(<<>>) = {} /\ Len(<<>>) = 0 /\ Injective(<<>>) /\ Ascending(<<>>)
  BY DEF ToSet, Injective, Ascending

\* Append adds its element, and keeps the order if the element is younger than the rest.
LEMMA Appended ==
  ASSUME NEW S, NEW q \in Seq(S), NEW e \in S
  PROVE  /\ Append(q, e) \in Seq(S) /\ Len(Append(q, e)) = Len(q) + 1
         /\ ToSet(Append(q, e)) = ToSet(q) \cup {e}
         /\ Injective(q) /\ e \notin ToSet(q) => Injective(Append(q, e))
         /\ Ascending(q) /\ (\A x \in ToSet(q) : x < e) => Ascending(Append(q, e))
  <1>1. /\ Append(q, e) \in Seq(S) /\ Len(Append(q, e)) = Len(q) + 1
        /\ \A i \in 1..Len(q) : Append(q, e)[i] = q[i]
        /\ Append(q, e)[Len(q) + 1] = e /\ Len(q) \in Nat
    BY AppendProperties, LenProperties
  <1>2. 1..(Len(q) + 1) = (1..Len(q)) \cup {Len(q) + 1}
    BY <1>1
  <1>3. \A x : x \in ToSet(Append(q, e)) <=> x \in ToSet(q) \/ x = e
    <2>1. \A x : x \in ToSet(Append(q, e)) <=> \E i \in 1..Len(Append(q, e)) : Append(q, e)[i] = x
      BY <1>1, InQueue
    <2>2. \A x : x \in ToSet(q) <=> \E i \in 1..Len(q) : q[i] = x
      BY InQueue
    <2> QED BY <1>1, <1>2, <2>1, <2>2
  <1>4. \A i \in 1..Len(q) : q[i] \in ToSet(q)
    BY InQueue
  <1> QED BY <1>1, <1>2, <1>3, <1>4 DEF Injective, Ascending

\* Tail loses the head and nothing else, if the head is there once, and keeps the order.
LEMMA Tailed ==
  ASSUME NEW S, NEW q \in Seq(S), q # <<>>
  PROVE  /\ Head(q) \in S /\ Head(q) \in ToSet(q) /\ Head(q) = q[1]
         /\ Tail(q) \in Seq(S) /\ Len(q) > 0 /\ Len(Tail(q)) = Len(q) - 1
         /\ \A i \in 1..(Len(q) - 1) : Tail(q)[i] = q[i + 1]
         /\ \A x : x \in ToSet(Tail(q)) <=> \E i \in 1..(Len(q) - 1) : q[i + 1] = x
         /\ Injective(q) => Injective(Tail(q)) /\ ToSet(Tail(q)) = ToSet(q) \ {Head(q)}
  <1>1. /\ Head(q) \in S /\ Tail(q) \in Seq(S) /\ Len(q) \in Nat /\ Len(q) > 0
        /\ Head(q) = q[1]
        /\ Len(Tail(q)) = Len(q) - 1
        /\ \A i \in 1..(Len(q) - 1) : Tail(q)[i] = q[i + 1]
    BY HeadTailProperties, LenProperties, EmptySeq
  <1>2. Head(q) \in ToSet(q)
    BY <1>1, InQueue
  <1>3. \A x : x \in ToSet(Tail(q)) <=> \E i \in 1..(Len(q) - 1) : q[i + 1] = x
    <2>1. \A x : x \in ToSet(Tail(q)) <=> \E i \in 1..Len(Tail(q)) : Tail(q)[i] = x
      BY <1>1, InQueue
    <2> QED BY <1>1, <2>1
  <1>4. ASSUME Injective(q), NEW x PROVE x \in ToSet(Tail(q)) <=> x \in ToSet(q) /\ x # Head(q)
    <2>1. ASSUME x \in ToSet(Tail(q)) PROVE x \in ToSet(q) /\ x # Head(q)
      <3>1. PICK i \in 1..(Len(q) - 1) : q[i + 1] = x
        BY <1>3, <2>1
      <3> QED BY <1>1, <1>4, <3>1, InQueue DEF Injective
    <2>2. ASSUME x \in ToSet(q), x # Head(q) PROVE x \in ToSet(Tail(q))
      <3>1. PICK i \in 1..Len(q) : q[i] = x
        BY <2>2, InQueue
      <3>2. i - 1 \in 1..(Len(q) - 1) /\ q[(i - 1) + 1] = x
        BY <1>1, <2>2, <3>1
      <3> QED BY <1>3, <3>2
    <2> QED BY <2>1, <2>2
  <1>5. ASSUME Injective(q) PROVE Injective(Tail(q))
    BY <1>1, <1>5 DEF Injective
  <1> QED BY <1>1, <1>2, <1>3, <1>4, <1>5

\* In an ascending queue every number is there once, the head is the least, and the rest
\* is ascending.
LEMMA OldestFirst ==
  ASSUME NEW S \in SUBSET Nat, NEW q \in Seq(S), Ascending(q)
  PROVE  /\ Injective(q)
         /\ q # <<>> => /\ Ascending(Tail(q))
                        /\ \A x \in ToSet(Tail(q)) : Head(q) < x
  <1>1. \A i \in 1..Len(q) : q[i] \in Nat
    BY ElementOfSeq
  <1>2. Injective(q)
    BY <1>1, LenProperties DEF Injective, Ascending
  <1>3. ASSUME q # <<>> PROVE Ascending(Tail(q)) /\ \A x \in ToSet(Tail(q)) : Head(q) < x
    <2>1. /\ Len(q) \in Nat /\ Len(Tail(q)) = Len(q) - 1 /\ Head(q) = q[1] /\ Tail(q) \in Seq(S)
          /\ \A i \in 1..(Len(q) - 1) : Tail(q)[i] = q[i + 1]
      BY <1>3, Tailed, LenProperties
    <2>2. Ascending(Tail(q))
      BY <2>1 DEF Ascending
    <2>3. ASSUME NEW x \in ToSet(Tail(q)) PROVE Head(q) < x
      <3>1. PICK i \in 1..(Len(q) - 1) : q[i + 1] = x
        BY <1>3, Tailed
      <3> QED BY <2>1, <3>1 DEF Ascending
    <2> QED BY <2>2, <2>3
  <1> QED BY <1>2, <1>3

-----------------------------------------------------------------------------
(* The numbers of messages.                                                *)

\* The numbers taken are those of messages, and the queue of the server has the others.
LEMMA TakenOK ==
  ASSUME IInv
  PROVE  /\ Len(sent) \in Nat /\ Len(serverQue) \in Nat /\ Taken \in 0..Len(sent)
         /\ 1..Taken \subseteq Numbers /\ 1..Taken \subseteq 1..Len(sent)
         /\ \A n \in 1..Len(sent) :
              sent[n] \in Message /\ n \in Numbers /\ JobOf(n) \in Jobs \cup {DISCRETE}
         /\ ToSet(serverQue) = (Taken + 1)..Len(sent)
         /\ NoMsg \notin 1..Taken /\ (scur # NoMsg => scur \in 1..Taken)
  <1> USE DEF IInv
  <1>1. Len(sent) \in Nat /\ Len(serverQue) \in Nat /\ Taken \in 0..Len(sent)
    BY LenProperties DEF TypeOK, QueuesOK, QueueOK, Taken
  <1>2. 1..Len(sent) \subseteq Numbers
    BY <1>1, PoolsAssumption DEF Numbers, TypeOK
  <1>3. \A n \in 1..Len(sent) : sent[n] \in Message
    BY ElementOfSeq DEF TypeOK
  <1>4. \A n \in 1..Len(sent) : JobOf(n) \in Jobs \cup {DISCRETE}
    BY <1>3 DEF Message, JobOf
  <1>5. ASSUME NEW n PROVE n \in ToSet(serverQue) <=> n \in (Taken + 1)..Len(sent)
    <2>1. ASSUME n \in (Taken + 1)..Len(sent) PROVE n \in ToSet(serverQue)
      <3>1. n - Taken \in 1..Len(serverQue) /\ serverQue[n - Taken] = n
        BY <1>1, <2>1 DEF QueuesOK, QueueOK, Taken
      <3> QED BY <3>1, InQueue DEF TypeOK
    <2>2. ASSUME n \in ToSet(serverQue) PROVE n \in (Taken + 1)..Len(sent)
      <3>1. PICK i \in 1..Len(serverQue) : serverQue[i] = n
        BY <2>2, InQueue DEF TypeOK
      <3> QED BY <1>1, <3>1 DEF QueuesOK, QueueOK, Taken
    <2> QED BY <2>1, <2>2
  <1>6. ToSet(serverQue) = (Taken + 1)..Len(sent)
    BY <1>5
  <1>7. NoMsg \notin 1..Taken /\ (scur # NoMsg => scur \in 1..Taken)
    BY <1>1 DEF NoMsg, ThreadsOK, TypeOK, Numbers
  <1> QED BY <1>1, <1>2, <1>3, <1>4, <1>6, <1>7

-----------------------------------------------------------------------------
(* The invariant holds at first, and each action keeps it.                 *)

\* What a step does to the places of the messages that were taken before.
PlacesKept ==
  /\ \A p : InBand(p)' <=> InBand(p)
  /\ \A n \in 1..Taken :
       /\ sent'[n] = sent[n] /\ JobOf(n)' = JobOf(n)
       /\ InJob(n)' <=> InJob(n)
       /\ InReady(n)' <=> InReady(n)
       /\ AtWorker(n)' <=> AtWorker(n)
       /\ Working(n)' <=> Working(n)

\* If the messages stay where they are, each stays in one place and the jobs stay in order.
LEMMA KeptPlaces ==
  ASSUME IInv, PlacesKept, Taken' = Taken, UNCHANGED jobList
  PROVE  /\ OneForward' /\ (scur' \in {scur, NoMsg} => InOnePlace')
         /\ JobsOK'
         /\ ready' = ready => ReadyOK'
  <1>1. OneForward'
    BY DEF IInv, OneForward, Forward, PlacesKept
  <1>2. scur' \in {scur, NoMsg} => InOnePlace'
    BY TakenOK DEF IInv, InOnePlace, PlacesKept
  <1>3. JobsOK'
    BY DEF IInv, QueuesOK, JobsOK, PlacesKept
  <1>4. ready' = ready => ReadyOK'
    BY DEF IInv, QueuesOK, ReadyOK, PlacesKept
  <1> QED BY <1>1, <1>2, <1>3, <1>4

\* The message of the server thread is nowhere else.
LEMMA ScurAlone ==
  ASSUME IInv, scur # NoMsg
  PROVE  /\ ~InJob(scur) /\ ~InReady(scur) /\ ~AtWorker(scur) /\ ~Working(scur)
         /\ lost = {} /\ del \notin {"pools", "done"}
  <1>1. scur \in 1..Taken
    BY TakenOK
  <1>2. ~InJob(scur) /\ ~InReady(scur) /\ ~AtWorker(scur)
    BY <1>1 DEF IInv, InOnePlace
  <1>3. lost = {} /\ del \notin {"pools", "done"}
    BY DEF IInv, Deleting, ThreadsOK
  <1> QED BY <1>2, <1>3 DEF AtWorker, Working

\* That of a worker is nowhere else.
LEMMA CurAlone ==
  ASSUME IInv, NEW w \in Workers, wpc[w] \in {"process", "next"}
  PROVE  /\ cur[w] \in 1..Taken /\ cur[w] # scur /\ cur[w] # NoMsg
         /\ ~InJob(cur[w]) /\ ~InReady(cur[w]) /\ AtWorker(cur[w])
         /\ \A u \in Workers : cur[u] = cur[w] => u = w
         /\ lost = {} /\ del # "done"
  <1>1. cur[w] \in 1..Taken /\ cur[w] # NoMsg /\ \A u \in Workers : cur[u] = cur[w] => u = w
    BY DEF IInv, ThreadsOK
  <1>2. AtWorker(cur[w])
    BY DEF AtWorker
  <1>3. lost = {} /\ del # "done"
    BY DEF IInv, Deleting
  <1> QED BY <1>1, <1>2, <1>3 DEF IInv, InOnePlace

\* At first there are no messages and no jobs.
LEMMA InvInit == Init => IInv
  <1> SUFFICES ASSUME Init PROVE IInv
    OBVIOUS
  <1>1. DOMAIN jobList = {} /\ Taken = 0 /\ Len(sent) = 0 /\ Len(serverQue) = 0
    BY DEF Init, Taken
  <1>2. TypeOK
    BY <1>1, PoolsAssumption DEF Init, TypeOK, Statuses, NoMsg
  <1>3. QueuesOK /\ ThreadsOK
    BY <1>1, EmptyQueue DEF Init, QueuesOK, QueueOK, ReadyOK, JobsOK, ThreadsOK
  <1>4. InOnePlace /\ OneForward /\ IdsKnown /\ Counted /\ Deleting
    BY <1>1, EmptyQueue DEF Init, InOnePlace, OneForward, IdsKnown, Counted, Deleting
  <1>5. Answered
    BY <1>1 DEF Init, Answered, Numbers
  <1> QED BY <1>2, <1>3, <1>4, <1>5 DEF IInv

\* A message comes to the end of the server's queue.
LEMMA SendStep ==
  ASSUME IInv, Send
  PROVE  IInv'
  <1> USE DEF IInv, given, jobVars, poolVars, workerVars, serverVars, deleteVars
  <1>1. PICK m \in [type : Types, job : DISCRETE..jobId, pool : Pools \cup {NoPool}] :
          /\ m.job \in Nat /\ m.job <= jobId
          /\ sent' = Append(sent, m) /\ serverQue' = Append(serverQue, Len(sent) + 1)
          /\ Len(sent) < MaxMessages
          /\ UNCHANGED <<poolOf, answer, jobId, jobList, ready, sem, spc, scur, running, wpc, cur, deleteVars>>
    BY DEF Send, TypeOK, DISCRETE
  <1>18. m \in Message
    BY <1>1 DEF Message, Jobs, DISCRETE
  <1>2. /\ sent' \in Seq(Message) /\ Len(sent') = Len(sent) + 1 /\ sent'[Len(sent) + 1] = m
        /\ \A n \in 1..Len(sent) : sent'[n] = sent[n]
        /\ Len(sent) + 1 \in Numbers /\ Len(sent') <= MaxMessages
    BY <1>1, <1>18, AppendProperties, TakenOK, PoolsAssumption DEF TypeOK, Numbers
  <1>3. /\ serverQue' \in Seq(Numbers) /\ Len(serverQue') = Len(serverQue) + 1
        /\ \A i \in 1..Len(serverQue) : serverQue'[i] = serverQue[i]
        /\ serverQue'[Len(serverQue) + 1] = Len(sent) + 1
    BY <1>1, <1>2, AppendProperties DEF TypeOK
  <1>4. Taken' = Taken
    BY <1>2, <1>3, TakenOK DEF Taken
  <1>5. \A n \in 1..Len(sent) : JobOf(n)' = JobOf(n)
    BY <1>2 DEF JobOf
  <1>6. ASSUME NEW n \in 1..Len(sent') PROVE JobOf(n)' <= jobId
    <2>1. CASE n \in 1..Len(sent)
      BY <1>5, <2>1 DEF IdsKnown
    <2>2. CASE n = Len(sent) + 1
      BY <1>1, <1>2, <2>2, TakenOK DEF JobOf, NoMsg, DISCRETE, TypeOK
    <2> QED BY <1>2, <2>1, <2>2, TakenOK
  <1>7. PlacesKept
    BY <1>1, <1>2, <1>5, TakenOK DEF PlacesKept, InBand, InJob, InReady, AtWorker, Working
  <1>8. TypeOK'
    BY <1>1, <1>2, <1>3, <1>4, <1>5, <1>6, <1>7, TakenOK DEF TypeOK
  <1>9. QueuesOK'
    <2>1. ASSUME NEW i \in 1..Len(serverQue') PROVE serverQue'[i] = Taken + i
      <3>1. CASE i \in 1..Len(serverQue)
        BY <1>3, <3>1 DEF QueuesOK, QueueOK
      <3>2. CASE i = Len(serverQue) + 1
        BY <1>3, <3>2, TakenOK DEF Taken
      <3> QED BY <1>3, <3>1, <3>2, TakenOK
    <2>2. Len(serverQue') <= Len(sent')
      BY <1>2, <1>3, TakenOK DEF QueuesOK, QueueOK
    <2>3. QueueOK'
      BY <1>4, <2>1, <2>2 DEF QueueOK
    <2> QED BY <1>1, <1>4, <1>7, <2>3, KeptPlaces DEF QueuesOK
  <1>10. ThreadsOK'
    BY <1>1, <1>2, <1>3, <1>4, <1>5, <1>6, <1>7, TakenOK DEF TypeOK, ThreadsOK, PlacesKept
  <1>11. InOnePlace'
    BY <1>1, <1>2, <1>3, <1>4, <1>5, <1>6, <1>7, KeptPlaces
  <1>12. Answered'
    BY <1>1, <1>2, <1>3, <1>4, <1>5, <1>6, <1>7, TakenOK DEF TypeOK, Answered, PlacesKept
  <1>13. OneForward'
    BY <1>1, <1>2, <1>3, <1>4, <1>5, <1>6, <1>7, KeptPlaces
  <1>14. IdsKnown'
    BY <1>1, <1>6 DEF IdsKnown
  <1>15. Counted'
    BY <1>1, <1>2, <1>3, <1>4, <1>5, <1>6, <1>7, TakenOK DEF TypeOK, Counted
  <1>16. Deleting'
    BY <1>1, <1>2, <1>3, <1>4, <1>5, <1>6, <1>7, TakenOK DEF TypeOK, Deleting
  <1> QED BY <1>8, <1>9, <1>10, <1>11, <1>12, <1>13, <1>14, <1>15, <1>16

\* The server thread ends when it has no message.
LEMMA UnblockedStep ==
  ASSUME IInv, Unblocked
  PROVE  IInv'
  <1> USE DEF IInv, given, jobVars, poolVars, workerVars, serverVars, deleteVars
  <1>1. PlacesKept
    BY TakenOK DEF PlacesKept, InBand, InJob, InReady, AtWorker, Working, JobOf, Unblocked
  <1>2. Taken' = Taken
    BY DEF Taken, Unblocked
  <1>3. TypeOK'
    BY <1>1, <1>2, TakenOK DEF TypeOK, Unblocked
  <1>4. QueuesOK'
    BY <1>1, <1>2, TakenOK, KeptPlaces DEF QueuesOK, QueueOK, Unblocked
  <1>5. ThreadsOK'
    BY <1>1, <1>2, TakenOK DEF TypeOK, ThreadsOK, PlacesKept, Unblocked
  <1>6. InOnePlace'
    BY <1>1, <1>2, KeptPlaces DEF Unblocked
  <1>7. Answered'
    BY <1>1, <1>2, TakenOK DEF TypeOK, Answered, PlacesKept, Unblocked
  <1>8. OneForward'
    BY <1>1, <1>2, KeptPlaces DEF Unblocked
  <1>9. IdsKnown'
    BY <1>1, <1>2, TakenOK DEF TypeOK, IdsKnown, JobOf, Unblocked
  <1>10. Counted'
    BY <1>1, <1>2, TakenOK DEF TypeOK, Counted, Unblocked
  <1>11. Deleting'
    BY <1>1, <1>2, TakenOK DEF TypeOK, Deleting, Unblocked
  <1> QED BY <1>3, <1>4, <1>5, <1>6, <1>7, <1>8, <1>9, <1>10, <1>11

\* Delete begins.
LEMMA DeleteStep ==
  ASSUME IInv, Delete
  PROVE  IInv'
  <1> USE DEF IInv, given, jobVars, poolVars, workerVars, serverVars, deleteVars
  <1>1. PlacesKept
    BY TakenOK DEF PlacesKept, InBand, InJob, InReady, AtWorker, Working, JobOf, Delete
  <1>2. Taken' = Taken
    BY DEF Taken, Delete
  <1>3. TypeOK'
    BY <1>1, <1>2, TakenOK DEF TypeOK, Delete
  <1>4. QueuesOK'
    BY <1>1, <1>2, TakenOK, KeptPlaces DEF QueuesOK, QueueOK, Delete
  <1>5. ThreadsOK'
    BY <1>1, <1>2, TakenOK DEF TypeOK, ThreadsOK, PlacesKept, Delete
  <1>6. InOnePlace'
    BY <1>1, <1>2, KeptPlaces DEF Delete
  <1>7. Answered'
    BY <1>1, <1>2, TakenOK DEF TypeOK, Answered, PlacesKept, Delete
  <1>8. OneForward'
    BY <1>1, <1>2, KeptPlaces DEF Delete
  <1>9. IdsKnown'
    BY <1>1, <1>2, TakenOK DEF TypeOK, IdsKnown, JobOf, Delete
  <1>10. Counted'
    BY <1>1, <1>2, TakenOK DEF TypeOK, Counted, Delete
  <1>11. Deleting'
    BY <1>1, <1>2, TakenOK DEF TypeOK, Deleting, Delete
  <1> QED BY <1>3, <1>4, <1>5, <1>6, <1>7, <1>8, <1>9, <1>10, <1>11

\* A worker ends when it has no message.
LEMMA TerminateStep ==
  ASSUME IInv, NEW w \in Workers, Terminate(w)
  PROVE  IInv'
  <1> USE DEF IInv, given, jobVars, poolVars, workerVars, serverVars, deleteVars
  <1>1. PlacesKept
    BY TakenOK DEF PlacesKept, InBand, InJob, InReady, AtWorker, Working, JobOf, Terminate
  <1>2. Taken' = Taken
    BY DEF Taken, Terminate
  <1>3. TypeOK'
    BY <1>1, <1>2, TakenOK DEF TypeOK, Terminate
  <1>4. QueuesOK'
    BY <1>1, <1>2, TakenOK, KeptPlaces DEF QueuesOK, QueueOK, Terminate
  <1>5. ThreadsOK'
    BY <1>1, <1>2, TakenOK DEF TypeOK, ThreadsOK, PlacesKept, Terminate
  <1>6. InOnePlace'
    BY <1>1, <1>2, KeptPlaces DEF Terminate
  <1>7. Answered'
    BY <1>1, <1>2, TakenOK DEF TypeOK, Answered, PlacesKept, Terminate
  <1>8. OneForward'
    BY <1>1, <1>2, KeptPlaces DEF Terminate
  <1>9. IdsKnown'
    BY <1>1, <1>2, TakenOK DEF TypeOK, IdsKnown, JobOf, Terminate
  <1>10. Counted'
    BY <1>1, <1>2, TakenOK DEF TypeOK, Counted, Terminate
  <1>11. Deleting'
    BY <1>1, <1>2, TakenOK DEF TypeOK, Deleting, Terminate
  <1> QED BY <1>3, <1>4, <1>5, <1>6, <1>7, <1>8, <1>9, <1>10, <1>11

\* The workers of a pool are told to end.
LEMMA TerminatePoolStep ==
  ASSUME IInv, NEW i \in 1..Len(PoolOrder), TerminatePool(i)
  PROVE  IInv'
  <1> USE DEF IInv, given, jobVars, poolVars, workerVars, serverVars, deleteVars
  <1>1. PlacesKept
    BY TakenOK DEF PlacesKept, InBand, InJob, InReady, AtWorker, Working, JobOf, TerminatePool
  <1>2. Taken' = Taken
    BY DEF Taken, TerminatePool
  <1>3. PoolOrder[i] \in Pools
    BY PoolsAssumption, ElementOfSeq
  <1>4. Cardinality(WorkersOf(PoolOrder[i])) \in Nat
    <2>1. IsFiniteSet(WorkersOf(PoolOrder[i]))
      BY PoolsAssumption, FS_Subset DEF WorkersOf
    <2> QED BY <2>1, FS_CardinalityType
  <1>5. TypeOK'
    <2>1. sem' \in [Pools -> Nat] /\ terminate' \subseteq Pools
      BY <1>3, <1>4 DEF TypeOK, TerminatePool
    <2>2. UNCHANGED <<given, answer, serverQue, jobVars, ready, serverVars, workerVars, del, lost>>
      BY DEF TerminatePool
    <2> QED BY <2>1, <2>2 DEF TypeOK, TerminatePool
  <1>6. QueuesOK'
    BY <1>1, <1>2, <1>3, <1>4, TakenOK, KeptPlaces DEF QueuesOK, QueueOK, TerminatePool
  <1>7. ThreadsOK'
    BY <1>1, <1>2, <1>3, <1>4, TakenOK DEF TypeOK, ThreadsOK, PlacesKept, TerminatePool
  <1>8. InOnePlace'
    BY <1>1, <1>2, <1>3, <1>4, KeptPlaces DEF TerminatePool
  <1>9. Answered'
    BY <1>1, <1>2, <1>3, <1>4, TakenOK DEF TypeOK, Answered, PlacesKept, TerminatePool
  <1>10. OneForward'
    BY <1>1, <1>2, <1>3, <1>4, KeptPlaces DEF TerminatePool
  <1>11. IdsKnown'
    BY <1>1, <1>2, <1>3, <1>4, TakenOK DEF TypeOK, IdsKnown, JobOf, TerminatePool
  <1>12. Counted'
    BY <1>1, <1>2, <1>3, <1>4, TakenOK DEF TypeOK, Counted, TerminatePool
  <1>13. Deleting'
    BY <1>1, <1>2, <1>3, <1>4, TakenOK DEF TypeOK, Deleting, TerminatePool
  <1> QED BY <1>5, <1>6, <1>7, <1>8, <1>9, <1>10, <1>11, <1>12, <1>13

\* The server thread has the message after the last one taken.
LEMMA GetStep ==
  ASSUME IInv, Get
  PROVE  IInv'
  <1> USE DEF IInv, given, jobVars, poolVars, workerVars, serverVars, deleteVars
  <1>1. /\ serverQue # <<>> /\ scur' = Taken + 1 /\ serverQue' \in Seq(Numbers)
        /\ Len(serverQue) > 0 /\ Len(serverQue') = Len(serverQue) - 1
        /\ \A i \in 1..Len(serverQue') : serverQue'[i] = serverQue[i + 1]
    BY Tailed, TakenOK DEF Get, TypeOK, QueuesOK, QueueOK
  <1>2. Taken' = Taken + 1 /\ Taken + 1 \in Numbers /\ Taken + 1 <= Len(sent)
    BY <1>1, TakenOK DEF Get, given, Taken, Numbers
  <1>3. PlacesKept
    BY DEF PlacesKept, InBand, InJob, InReady, AtWorker, Working, JobOf, Get
  <1>4. PICK k \in Numbers : k = Taken + 1 /\ k \notin 1..Taken
    BY <1>2, TakenOK
  <1>5. ~InJob(k) /\ ~InReady(k) /\ ~AtWorker(k) /\ ~Working(k)
    <2>1. ~InJob(k)
      BY <1>4 DEF QueuesOK, JobsOK, InJob
    <2>2. ~InReady(k)
      BY <1>4 DEF QueuesOK, ReadyOK, InReady
    <2>3. ~AtWorker(k)
      BY <1>4 DEF ThreadsOK, AtWorker, NoMsg, Numbers
    <2> QED BY <2>1, <2>2, <2>3 DEF AtWorker, Working
  <1>6. ~InJob(k)' /\ ~InReady(k)' /\ ~AtWorker(k)' /\ ~Working(k)'
    BY <1>5 DEF InJob, InReady, AtWorker, Working, JobOf, Get
  <1>17. 1..Taken' = (1..Taken) \cup {k} /\ scur = NoMsg /\ scur' = k
    BY <1>1, <1>2, <1>4, TakenOK DEF Get, ThreadsOK
  <1>7. TypeOK'
    BY <1>1, <1>2, <1>3, <1>4, <1>5, <1>6, TakenOK DEF TypeOK, Get
  <1>8. QueuesOK'
    <2>1. QueueOK'
      <3>1. ASSUME NEW i \in 1..Len(serverQue') PROVE serverQue'[i] = Taken' + i
        <4>1. i + 1 \in 1..Len(serverQue) /\ Taken + (i + 1) = Taken' + i
          BY <1>1, <1>2, TakenOK
        <4> QED BY <1>1, <4>1 DEF QueuesOK, QueueOK
      <3>2. Len(serverQue') <= Len(sent')
        BY <1>1, TakenOK DEF QueuesOK, QueueOK, Get
      <3> QED BY <3>1, <3>2 DEF QueueOK
    <2>2. ReadyOK'
      BY <1>3, <1>17 DEF QueuesOK, ReadyOK, PlacesKept, Get
    <2>3. JobsOK'
      BY <1>3, <1>17 DEF QueuesOK, JobsOK, PlacesKept, Get
    <2> QED BY <2>1, <2>2, <2>3 DEF QueuesOK
  <1>9. ThreadsOK'
    <2>1. spc' = IF InBand(sent[k].pool) THEN "process" ELSE "dispatch"
      BY <1>17 DEF Get
    <2>2. InBand(sent[k].pool)' <=> InBand(sent[k].pool)
      BY DEF InBand, Get
    <2>3. scur' = Taken' /\ scur' # NoMsg
      BY <1>2, <1>4, <1>17 DEF Numbers, NoMsg
    <2>4. \A w \in Workers : cur[w] # NoMsg => JobOf(cur[w])' = JobOf(cur[w])
      BY DEF Get, JobOf
    <2> QED BY <1>3, <1>17, <2>1, <2>2, <2>3, <2>4 DEF ThreadsOK, PlacesKept, Get
  <1>10. InOnePlace'
    BY <1>1, <1>2, <1>3, <1>4, <1>5, <1>6, TakenOK DEF InOnePlace, PlacesKept, Get
  <1>11. Answered'
    <2>1. \A n \in Numbers : n > Taken' => answer'[n] = "none"
      BY <1>2, TakenOK DEF Answered, Get, Numbers
    <2>2. answer'[k] = "none"
      BY <1>2, <1>4, TakenOK DEF Answered, Get
    <2>3. NoMsg \notin 1..Taken
      BY TakenOK
    <2> QED BY <1>3, <1>4, <1>17, <2>1, <2>2, <2>3 DEF Answered, PlacesKept, Get
  <1>12. OneForward'
    BY <1>3, <1>4, <1>6, <1>17 DEF OneForward, Forward, PlacesKept, Get
  <1>13. IdsKnown'
    BY <1>1, <1>2, <1>3, <1>4, <1>5, <1>6, TakenOK DEF TypeOK, IdsKnown, JobOf, Get
  <1>14. Counted'
    BY <1>1, <1>2, <1>3, <1>4, <1>5, <1>6, TakenOK DEF TypeOK, Counted, Get
  <1>15. Deleting'
    BY <1>1, <1>2, <1>3, <1>4, <1>5, <1>6, TakenOK DEF TypeOK, Deleting, Get
  <1> QED BY <1>7, <1>8, <1>9, <1>10, <1>11, <1>12, <1>13, <1>14, <1>15

\* The message goes back at once.
LEMMA DispatchFailsStep ==
  ASSUME IInv, DispatchFails
  PROVE  IInv'
  <1>13. scur # NoMsg
    BY DEF IInv, ThreadsOK, DispatchFails
  <1>14. /\ ~InJob(scur) /\ ~InReady(scur) /\ ~AtWorker(scur) /\ ~Working(scur)
         /\ scur \notin lost /\ scur \in 1..Taken /\ scur <= Taken /\ Taken \in Nat
    BY <1>13, ScurAlone, TakenOK
  <1> USE DEF IInv, given, jobVars, poolVars, workerVars, serverVars, deleteVars
  <1>1. /\ scur \in Numbers /\ answer' \in [Numbers -> Statuses] /\ answer'[scur] # "none"
        /\ \A n \in Numbers \ {scur} : answer'[n] = answer[n]
        /\ scur \in 1..Taken /\ scur # NoMsg
    <2>1. scur \in Numbers /\ scur \in 1..Taken
      BY <1>13, <1>14 DEF TypeOK, NoMsg
    <2>2. PICK a \in Statuses \ {"none"} : answer' = [answer EXCEPT ![scur] = a]
      BY DEF DispatchFails, Statuses
    <2>3. answer \in [Numbers -> Statuses]
      BY DEF TypeOK
    <2> QED BY <1>13, <2>1, <2>2, <2>3
  <1>2. PlacesKept
    BY DEF PlacesKept, InBand, InJob, InReady, AtWorker, Working, JobOf, DispatchFails
  <1>3. Taken' = Taken
    BY DEF Taken, DispatchFails
  <1>4. TypeOK'
    BY <1>1, <1>2, <1>3, TakenOK DEF TypeOK, DispatchFails, Loop
  <1>5. QueuesOK'
    BY <1>1, <1>2, <1>3, TakenOK, KeptPlaces DEF QueuesOK, QueueOK, DispatchFails, Loop
  <1>6. ThreadsOK'
    BY <1>1, <1>2, <1>3, TakenOK DEF TypeOK, ThreadsOK, PlacesKept, DispatchFails, Loop
  <1>7. InOnePlace'
    BY <1>1, <1>2, <1>3, KeptPlaces DEF DispatchFails, Loop
  <1>8. Answered'
    <2>2. UNCHANGED lost /\ scur' = NoMsg
      BY DEF DispatchFails, Loop
    <2>1. scur \notin lost' /\ answer'[scur] # "none" /\ scur # NoMsg
      BY <1>1, <1>14, <2>2
    <2>3. ASSUME NEW n \in 1..Taken
          PROVE (answer[n] = "none" <=> n \in lost \/ n = scur \/ InJob(n) \/ InReady(n) \/ Working(n))'
      <3>1. CASE n = scur
        BY <1>2, <1>14, <2>1, <2>2, <3>1 DEF PlacesKept
      <3>2. CASE n # scur
        BY <1>1, <1>2, <2>2, <3>2, TakenOK DEF Answered, PlacesKept
      <3> QED BY <3>1, <3>2
    <2>4. ASSUME NEW n \in Numbers, n > Taken PROVE answer'[n] = "none"
      <3>1. n # scur
        BY <1>14, <2>4 DEF Numbers
      <3> QED BY <1>1, <2>4, <3>1 DEF Answered
    <2> QED BY <1>3, <2>3, <2>4 DEF Answered
  <1>9. OneForward'
    BY <1>1, <1>2, <1>3, KeptPlaces DEF DispatchFails, Loop
  <1>10. IdsKnown'
    BY <1>1, <1>2, <1>3, TakenOK DEF TypeOK, IdsKnown, JobOf, DispatchFails, Loop
  <1>11. Counted'
    BY <1>1, <1>2, <1>3, TakenOK DEF TypeOK, Counted, DispatchFails, Loop
  <1>12. Deleting'
    BY <1>1, <1>2, <1>3, TakenOK DEF TypeOK, Deleting, DispatchFails, Loop
  <1> QED BY <1>4, <1>5, <1>6, <1>7, <1>8, <1>9, <1>10, <1>11, <1>12

\* What process does: message n is answered, the messages that leave the queue of a
\* released job are, and a job that is new has none.
Processed(n) ==
  /\ answer' \in [Numbers -> Statuses] /\ answer'[n] # "none"
  /\ jobId' \in Nat /\ jobId <= jobId'
  /\ DOMAIN jobList' \subseteq Jobs
  /\ \A j \in DOMAIN jobList' :
       \/ j \in DOMAIN jobList /\ jobList'[j] = jobList[j]
       \/ /\ j = jobId + 1 /\ j = jobId'
          /\ jobList'[j] = [empty |-> TRUE, msgQue |-> <<>>]
  /\ \A k \in 1..Taken : JobOf(k)' = JobOf(k) /\ (InJob(k)' => InJob(k))
  /\ \A k \in Numbers \ {n} :
       answer'[k] = "none" <=>
         answer[k] = "none" /\ ~(k \in 1..Taken /\ InJob(k) /\ ~InJob(k)')

\* A release: the messages on the queue of its job are those that leave it.
LEMMA Release ==
  ASSUME IInv, NEW n \in 1..Taken, sent[n].type = "JOB_REL", process(n), UNCHANGED sent
  PROVE  Processed(n)
  <1> DEFINE j == sent[n].job
             Q == IF j \in DOMAIN jobList THEN ToSet(jobList[j].msgQue) ELSE {}
  <1>1. relJobId(n) /\ UNCHANGED jobId
    BY DEF process
  <1>2. /\ DOMAIN jobList' = DOMAIN jobList \ {j}
        /\ \A i \in DOMAIN jobList \ {j} : jobList'[i] = jobList[i]
    BY <1>1 DEF relJobId
  <1>3. n \in Numbers /\ answer \in [Numbers -> Statuses] /\ jobId \in Nat
        /\ DOMAIN jobList \subseteq Jobs
    BY TakenOK DEF IInv, TypeOK
  <1>4. answer' = [k \in Numbers |->
          IF k = n THEN IF j \in DOMAIN jobList THEN "SUCCESS" ELSE "JobNotFound"
                   ELSE IF k \in Q THEN "Unprocessed" ELSE answer[k]]
    <2>1. CASE j \in DOMAIN jobList
      BY <1>1, <1>3, <2>1 DEF relJobId, Returned
    <2>2. CASE j \notin DOMAIN jobList
      BY <1>1, <1>3, <2>2 DEF relJobId
    <2> QED BY <2>1, <2>2
  <1>5. \A k \in 1..Taken : JobOf(k)' = JobOf(k)
    BY DEF JobOf
  <1>6. \A k \in 1..Taken : InJob(k)' <=> InJob(k) /\ JobOf(k) # j
    BY <1>2, <1>5 DEF InJob
  <1>7. \A k \in Numbers : k \in Q <=> k \in 1..Taken /\ InJob(k) /\ JobOf(k) = j
    BY DEF IInv, QueuesOK, JobsOK, InJob
  <1>8. \A k \in Numbers : k \in Q <=> k \in 1..Taken /\ InJob(k) /\ ~InJob(k)'
    BY <1>6, <1>7
  <1> HIDE DEF Q, j
  <1>9. answer' \in [Numbers -> Statuses] /\ answer'[n] # "none"
    BY <1>3, <1>4 DEF Statuses
  <1>10. \A k \in Numbers \ {n} : answer'[k] = "none" <=>
           answer[k] = "none" /\ ~(k \in 1..Taken /\ InJob(k) /\ ~InJob(k)')
    BY <1>4, <1>8
  <1> QED BY <1>1, <1>2, <1>3, <1>5, <1>6, <1>9, <1>10 DEF Processed

\* A request for an id that is given: the job is new, for ids are not used again.
LEMMA Acquire ==
  ASSUME IInv, NEW n \in 1..Taken, acqJobId(n), UNCHANGED sent
  PROVE  Processed(n)
  <1>2. /\ n \in Numbers /\ answer \in [Numbers -> Statuses] /\ jobId \in Nat
        /\ DOMAIN jobList \subseteq Jobs
    BY TakenOK DEF IInv, TypeOK
  <1>3. jobId + 1 \in Jobs /\ jobId + 1 \notin DOMAIN jobList /\ jobId' = jobId + 1
        /\ \A k \in 1..Taken : JobOf(k) # jobId + 1
    <2>1. jobId + 1 \in Jobs /\ jobId' = jobId + 1
      BY <1>2 DEF Jobs, DISCRETE, acqJobId
    <2>2. jobId + 1 \notin DOMAIN jobList
      BY <1>2 DEF IInv, IdsKnown
    <2>3. \A k \in 1..Taken : JobOf(k) <= jobId /\ JobOf(k) \in Nat
      BY TakenOK DEF IInv, IdsKnown, Jobs, DISCRETE
    <2> QED BY <1>2, <2>1, <2>2, <2>3
  <1>4. /\ DOMAIN jobList' = DOMAIN jobList \cup {jobId + 1}
        /\ jobList'[jobId + 1] = [empty |-> TRUE, msgQue |-> <<>>]
        /\ \A i \in DOMAIN jobList : jobList'[i] = jobList[i]
    BY <1>3 DEF acqJobId
  <1>5. \A k \in 1..Taken : JobOf(k)' = JobOf(k)
    BY DEF JobOf
  <1>6. \A k \in 1..Taken : InJob(k)' <=> InJob(k)
    BY <1>3, <1>4, <1>5 DEF InJob
  <1>7. /\ answer' \in [Numbers -> Statuses] /\ answer'[n] # "none"
        /\ \A k \in Numbers \ {n} : answer'[k] = answer[k]
    BY <1>2 DEF acqJobId, Statuses
  <1>8. jobId' \in Nat /\ jobId <= jobId' /\ DOMAIN jobList' \subseteq Jobs
    <2>1. DOMAIN jobList' \subseteq Jobs
      BY <1>2, <1>3, <1>4
    <2> QED BY <1>2, <1>3, <2>1
  <1> QED BY <1>3, <1>4, <1>5, <1>6, <1>7, <1>8 DEF Processed

\* Whatever the message is.
LEMMA ProcessEffects ==
  ASSUME IInv, NEW n \in 1..Taken, process(n), UNCHANGED sent
  PROVE  Processed(n)
  <1>1. CASE sent[n].type = "JOB_REL"
    BY <1>1, Release
  <1>2. CASE acqJobId(n)
    BY <1>2, Acquire
  <1>3. CASE sent[n].type \in {"JOB_ACQ", "RCM_MSG"} /\ ~acqJobId(n)
    <2>1. PICK a \in {"Error", "SUCCESS"} :
            answer' = [answer EXCEPT ![n] = a] /\ jobId' \in {jobId, jobId + 1} /\ UNCHANGED jobList
      BY <1>3 DEF process, jobVars, acqJobFails
    <2>2. /\ n \in Numbers /\ answer \in [Numbers -> Statuses] /\ jobId \in Nat
          /\ DOMAIN jobList \subseteq Jobs
      BY TakenOK DEF IInv, TypeOK
    <2>3. \A k \in 1..Taken : JobOf(k)' = JobOf(k) /\ (InJob(k)' <=> InJob(k))
      BY <2>1 DEF JobOf, InJob
    <2>4. /\ answer' \in [Numbers -> Statuses] /\ answer'[n] # "none"
          /\ \A k \in Numbers \ {n} : answer'[k] = answer[k]
      BY <2>1, <2>2 DEF Statuses
    <2>5. jobId' \in Nat /\ jobId <= jobId'
      BY <2>1, <2>2
    <2> QED BY <2>1, <2>2, <2>3, <2>4, <2>5 DEF Processed
  <1>4. sent[n].type \in Types
    BY TakenOK DEF Message
  <1> QED BY <1>1, <1>2, <1>3, <1>4 DEF Types

\* The job list after process: only jobs without messages are new.
LEMMA ProcessedJobs ==
  ASSUME IInv, NEW n \in 1..Taken, Processed(n), UNCHANGED <<poolOf, sent, serverQue>>
  PROVE  /\ Taken' = Taken /\ JobsOK' /\ IdsKnown'
         /\ \A j \in DOMAIN jobList' : jobList'[j] \in [empty : BOOLEAN, msgQue : Seq(Numbers)]
         /\ (\A j \in DOMAIN jobList : jobList[j].empty) =>
              \A j \in DOMAIN jobList' : jobList'[j].empty
         /\ \A k \in Numbers : k > Taken => answer'[k] = "none"
  <1> USE DEF Processed
  <1>1. Taken' = Taken
    BY DEF Taken
  <1>2. \A j \in DOMAIN jobList' : jobList'[j] \in [empty : BOOLEAN, msgQue : Seq(Numbers)]
    <2>1. <<>> \in Seq(Numbers)
      OBVIOUS
    <2>2. [empty |-> TRUE, msgQue |-> <<>>] \in [empty : BOOLEAN, msgQue : Seq(Numbers)]
      BY <2>1
    <2>3. \A j \in DOMAIN jobList : jobList[j] \in [empty : BOOLEAN, msgQue : Seq(Numbers)]
      BY DEF IInv, TypeOK
    <2>4. \A j \in DOMAIN jobList' :
            \/ j \in DOMAIN jobList /\ jobList'[j] = jobList[j]
            \/ jobList'[j] = [empty |-> TRUE, msgQue |-> <<>>]
      OBVIOUS
    <2> HIDE DEF Processed
    <2> QED BY <2>2, <2>3, <2>4
  <1>3. \A k \in 1..Len(sent) : JobOf(k)' = JobOf(k)
    BY DEF JobOf
  <1>4. \A p : InBand(p)' <=> InBand(p)
    BY DEF InBand
  <1>5. JobsOK'
    <2> SUFFICES ASSUME NEW j \in DOMAIN jobList'
                 PROVE  (/\ Ascending(jobList[j].msgQue)
                         /\ \A k \in ToSet(jobList[j].msgQue) :
                              /\ k \in 1..Taken /\ JobOf(k) = j
                              /\ sent[k].pool \in Pools /\ ~InBand(sent[k].pool))'
      BY DEF JobsOK
    <2>1. CASE j \in DOMAIN jobList /\ jobList'[j] = jobList[j]
      BY <1>1, <1>3, <1>4, <2>1 DEF IInv, QueuesOK, JobsOK
    <2>2. CASE jobList'[j] = [empty |-> TRUE, msgQue |-> <<>>]
      BY <2>2, EmptyQueue
    <2> QED BY <2>1, <2>2
  <1>6. IdsKnown'
    <2>1. jobId \in Nat /\ jobId' \in Nat /\ DOMAIN jobList \subseteq Nat
      BY DEF IInv, TypeOK, Jobs
    <2>2. \A k \in 1..Len(sent) : JobOf(k) \in Nat
      BY TakenOK DEF Jobs, DISCRETE
    <2> QED BY <1>3, <2>1, <2>2 DEF IInv, IdsKnown
  <1>7. \A k \in Numbers : k > Taken => answer'[k] = "none"
    <2>1. \A k \in Numbers : k > Taken => k # n /\ k \notin 1..Taken
      BY TakenOK DEF Numbers
    <2> QED BY <2>1 DEF IInv, Answered
  <1> QED BY <1>1, <1>2, <1>5, <1>6, <1>7

\* A message whose job was released is in no other place, and not lost.
LEMMA LeftJob ==
  ASSUME IInv, NEW k \in 1..Taken, InJob(k), del # "done"
  PROVE  k \notin lost /\ k # scur /\ ~InReady(k) /\ ~AtWorker(k) /\ ~Working(k)
  BY DEF IInv, InOnePlace, Deleting, AtWorker, Working

\* The server thread is done with a message of a default pool without workers.
LEMMA ProcessInBandStep ==
  ASSUME IInv, ProcessInBand
  PROVE  IInv'
  <1>1. /\ scur # NoMsg /\ spc = "process" /\ scur' = NoMsg
        /\ spc' \in {"get", "stopped"} /\ UNCHANGED running
        /\ UNCHANGED <<poolOf, sent, serverQue, ready, sem, wpc, cur, terminate, del, lost>>
    BY DEF IInv, ThreadsOK, ProcessInBand, Loop, given, poolVars, workerVars, deleteVars
  <1>2. /\ ~InJob(scur) /\ ~InReady(scur) /\ ~AtWorker(scur) /\ ~Working(scur)
        /\ lost = {} /\ del \notin {"pools", "done"} /\ scur \in 1..Taken
    BY <1>1, ScurAlone, TakenOK
  <1>3. Processed(scur)
    BY <1>1, <1>2, ProcessEffects DEF ProcessInBand
  <1>4. /\ Taken' = Taken /\ JobsOK' /\ IdsKnown'
        /\ \A j \in DOMAIN jobList' : jobList'[j] \in [empty : BOOLEAN, msgQue : Seq(Numbers)]
        /\ \A k \in Numbers : k > Taken => answer'[k] = "none"
    BY <1>1, <1>2, <1>3, ProcessedJobs
  <1>5. \A k \in 1..Taken :
          /\ JobOf(k)' = JobOf(k) /\ (InJob(k)' => InJob(k))
          /\ InReady(k)' <=> InReady(k)
          /\ AtWorker(k)' <=> AtWorker(k)
          /\ Working(k)' <=> Working(k)
    BY <1>1, <1>3 DEF Processed, InReady, AtWorker, Working
  <1>6. \A p : InBand(p)' <=> InBand(p)
    BY <1>1 DEF InBand
  <1>7. TypeOK'
    BY <1>1, <1>3, <1>4 DEF IInv, TypeOK, Processed
  <1>8. QueuesOK'
    BY <1>1, <1>4, <1>6 DEF IInv, QueuesOK, QueueOK, ReadyOK
  <1>9. ThreadsOK'
    BY <1>1, <1>4, <1>5 DEF IInv, ThreadsOK
  <1>10. InOnePlace'
    <2>1. NoMsg \notin 1..Taken
      BY TakenOK
    <2> QED BY <1>1, <1>4, <1>5, <2>1 DEF IInv, InOnePlace
  <1>11. Answered'
    <2>1. ASSUME NEW k \in 1..Taken
          PROVE (answer[k] = "none" <=> k \in lost \/ k = scur \/ InJob(k) \/ InReady(k) \/ Working(k))'
      <3>0. k # NoMsg /\ k \in Numbers
        BY TakenOK
      <3>1. CASE k = scur
        BY <1>1, <1>2, <1>3, <1>5, <3>0, <3>1 DEF Processed
      <3>2. CASE k # scur
        <4>1. answer'[k] = "none" <=> answer[k] = "none" /\ ~(InJob(k) /\ ~InJob(k)')
          BY <1>3, <3>0, <3>2 DEF Processed
        <4>2. InJob(k) => k \notin lost /\ ~InReady(k) /\ ~Working(k)
          BY <1>2, LeftJob
        <4>3. answer[k] = "none" <=> k \in lost \/ k = scur \/ InJob(k) \/ InReady(k) \/ Working(k)
          BY DEF IInv, Answered
        <4> QED BY <1>1, <1>5, <3>0, <3>2, <4>1, <4>2, <4>3
      <3> QED BY <3>1, <3>2
    <2> QED BY <1>4, <2>1 DEF Answered
  <1>12. OneForward'
    <2>1. \A k \in 1..Taken : JobOf(k) <= jobId /\ JobOf(k) \in Nat
      BY TakenOK DEF IInv, IdsKnown, Jobs, DISCRETE
    <2>2. jobId \in Nat
      BY DEF IInv, TypeOK
    <2>3. ASSUME NEW j \in DOMAIN jobList'
          PROVE (IF jobList[j].empty
                   THEN jobList[j].msgQue = <<>> /\ \A k \in 1..Taken : JobOf(k) = j => ~Forward(k)
                   ELSE \E k \in 1..Taken : JobOf(k) = j /\ Forward(k))'
      <3>1. CASE j \in DOMAIN jobList /\ jobList'[j] = jobList[j]
        BY <1>4, <1>5, <3>1 DEF IInv, OneForward, Forward
      <3>2. CASE j = jobId + 1 /\ jobList'[j] = [empty |-> TRUE, msgQue |-> <<>>]
        BY <1>4, <1>5, <2>1, <2>2, <3>2
      <3> QED BY <1>3, <3>1, <3>2 DEF Processed
    <2> QED BY <1>4, <1>5, <2>3 DEF IInv, OneForward, Forward
  <1>13. Counted' /\ Deleting'
    BY <1>1, <1>2, <1>4 DEF IInv, Counted, Deleting
  <1> QED BY <1>4, <1>7, <1>8, <1>9, <1>10, <1>11, <1>12, <1>13 DEF IInv

\* A worker is done with a message; if it is one of a job, it goes on to look at the job.
LEMMA ProcessStep ==
  ASSUME IInv, NEW w \in Workers, Process(w)
  PROVE  IInv'
  <1>1. /\ wpc[w] = "process"
        /\ UNCHANGED <<poolOf, sent, serverQue, ready, sem, spc, scur, running, terminate, del, lost>>
    BY DEF Process, given, poolVars, serverVars, deleteVars
  <1>2. /\ cur[w] \in 1..Taken /\ cur[w] # scur /\ cur[w] # NoMsg
        /\ ~InJob(cur[w]) /\ ~InReady(cur[w]) /\ AtWorker(cur[w])
        /\ \A u \in Workers : cur[u] = cur[w] => u = w
        /\ lost = {} /\ del # "done"
    BY <1>1, CurAlone
  <1> DEFINE D == JobOf(cur[w]) = DISCRETE
  <1>3. Processed(cur[w])
    BY <1>1, <1>2, ProcessEffects DEF Process
  <1>4. /\ Taken' = Taken /\ JobsOK' /\ IdsKnown'
        /\ \A j \in DOMAIN jobList' : jobList'[j] \in [empty : BOOLEAN, msgQue : Seq(Numbers)]
        /\ (\A j \in DOMAIN jobList : jobList[j].empty) =>
             \A j \in DOMAIN jobList' : jobList'[j].empty
        /\ \A k \in Numbers : k > Taken => answer'[k] = "none"
    BY <1>1, <1>2, <1>3, ProcessedJobs
  <1>5. /\ wpc' = [wpc EXCEPT ![w] = IF D THEN "pend" ELSE "next"]
        /\ cur' = [cur EXCEPT ![w] = IF D THEN NoMsg ELSE cur[w]]
        /\ wpc \in [Workers -> {"pend", "process", "next", "stopped"}]
        /\ cur \in [Workers -> Numbers \cup {NoMsg}]
    BY DEF Process, IInv, TypeOK
  <1>6. /\ wpc' \in [Workers -> {"pend", "process", "next", "stopped"}]
        /\ cur' \in [Workers -> Numbers \cup {NoMsg}]
        /\ \A u \in Workers \ {w} : wpc'[u] = wpc[u] /\ cur'[u] = cur[u]
        /\ wpc'[w] = IF D THEN "pend" ELSE "next"
        /\ cur'[w] = IF D THEN NoMsg ELSE cur[w]
    BY <1>5
  <1>7. \A k \in 1..Taken : k # NoMsg /\ k \in Numbers
    BY TakenOK
  <1> HIDE DEF D
  <1>8. \A k \in 1..Taken : AtWorker(k)' <=> AtWorker(k) /\ ~(D /\ k = cur[w])
    BY <1>2, <1>6, <1>7 DEF AtWorker
  <1>9. \A k \in 1..Taken : Working(k)' <=> Working(k) /\ k # cur[w]
    BY <1>2, <1>6, <1>7 DEF Working
  <1>10. \A k \in 1..Taken :
           /\ JobOf(k)' = JobOf(k) /\ (InJob(k)' => InJob(k)) /\ (InReady(k)' <=> InReady(k))
    BY <1>1, <1>3 DEF Processed, InReady
  <1>11. \A p : InBand(p)' <=> InBand(p)
    BY <1>1 DEF InBand
  <1>12. TypeOK'
    BY <1>1, <1>3, <1>4, <1>6 DEF IInv, TypeOK, Processed
  <1>13. QueuesOK'
    BY <1>1, <1>4, <1>11 DEF IInv, QueuesOK, QueueOK, ReadyOK
  <1>14. ThreadsOK'
    <2>1. ASSUME NEW u \in Workers
          PROVE (/\ wpc[u] \in {"process", "next"} <=> cur[u] # NoMsg
                 /\ cur[u] # NoMsg => cur[u] \in 1..Taken /\ sent[cur[u]].pool = poolOf[u]
                 /\ wpc[u] = "next" => JobOf(cur[u]) # DISCRETE
                 /\ \A v \in Workers : cur[u] = cur[v] /\ cur[u] # NoMsg => u = v)'
      <3>1. CASE u = w
        <4>1. PICK c : c = cur[w]
          OBVIOUS
        <4>2. JobOf(c)' = JobOf(c)
          BY <1>2, <1>10, <4>1
        <4>3. CASE D
          BY <1>6, <3>1, <4>3
        <4>4. CASE ~D
          BY <1>1, <1>2, <1>4, <1>6, <3>1, <4>1, <4>2, <4>4 DEF D, IInv, ThreadsOK
        <4> QED BY <4>3, <4>4
      <3>2. CASE u # w
        <4>1. cur'[u] = cur[u] /\ wpc'[u] = wpc[u]
          BY <1>6, <3>2
        <4>2. PICK c : c = cur[u]
          OBVIOUS
        <4>3. c # NoMsg => c \in 1..Taken /\ JobOf(c)' = JobOf(c)
          BY <1>10, <4>2 DEF IInv, ThreadsOK
        <4>4. wpc[u] = "next" => c # NoMsg
          BY <4>2 DEF IInv, ThreadsOK
        <4>5. \A v \in Workers : cur'[u] = cur'[v] /\ cur'[u] # NoMsg => u = v
          BY <1>2, <1>6, <3>2 DEF IInv, ThreadsOK
        <4> QED BY <1>1, <1>4, <4>1, <4>2, <4>3, <4>4, <4>5 DEF IInv, ThreadsOK
      <3> QED BY <3>1, <3>2
    <2> QED BY <1>1, <1>4, <1>11, <2>1 DEF IInv, ThreadsOK
  <1>15. InOnePlace'
    BY <1>1, <1>4, <1>8, <1>10 DEF IInv, InOnePlace
  <1>16. Answered'
    <2>1. ASSUME NEW k \in 1..Taken
          PROVE (answer[k] = "none" <=> k \in lost \/ k = scur \/ InJob(k) \/ InReady(k) \/ Working(k))'
      <3>1. CASE k = cur[w]
        BY <1>1, <1>2, <1>3, <1>9, <1>10, <3>1 DEF Processed
      <3>2. CASE k # cur[w]
        <4>1. answer'[k] = "none" <=> answer[k] = "none" /\ ~(InJob(k) /\ ~InJob(k)')
          BY <1>3, <1>7, <3>2 DEF Processed
        <4>2. InJob(k) => k \notin lost /\ k # scur /\ ~InReady(k) /\ ~Working(k)
          BY <1>2, LeftJob
        <4>3. answer[k] = "none" <=> k \in lost \/ k = scur \/ InJob(k) \/ InReady(k) \/ Working(k)
          BY DEF IInv, Answered
        <4> QED BY <1>1, <1>9, <1>10, <3>2, <4>1, <4>2, <4>3
      <3> QED BY <3>1, <3>2
    <2> QED BY <1>4, <2>1 DEF Answered
  <1>17. OneForward'
    <2>1. \A k \in 1..Taken : JobOf(k) <= jobId /\ JobOf(k) \in Nat
      BY TakenOK DEF IInv, IdsKnown, Jobs, DISCRETE
    <2>2. jobId \in Nat /\ DISCRETE \notin DOMAIN jobList
      BY DEF IInv, TypeOK, Jobs, DISCRETE
    <2>3. \A k \in 1..Taken : /\ Forward(k)' => Forward(k)
                              /\ JobOf(k) # DISCRETE => (Forward(k)' <=> Forward(k))
      BY <1>8, <1>10 DEF Forward, D
    <2>4. ASSUME NEW j \in DOMAIN jobList'
          PROVE (IF jobList[j].empty
                   THEN jobList[j].msgQue = <<>> /\ \A k \in 1..Taken : JobOf(k) = j => ~Forward(k)
                   ELSE \E k \in 1..Taken : JobOf(k) = j /\ Forward(k))'
      <3>1. CASE j \in DOMAIN jobList /\ jobList'[j] = jobList[j]
        BY <1>4, <1>10, <2>2, <2>3, <3>1 DEF IInv, OneForward
      <3>2. CASE j = jobId + 1 /\ jobList'[j] = [empty |-> TRUE, msgQue |-> <<>>]
        BY <1>4, <1>10, <2>1, <2>2, <3>2
      <3> QED BY <1>3, <3>1, <3>2 DEF Processed
    <2> QED BY <1>4, <1>10, <2>3, <2>4 DEF IInv, OneForward
  <1>18. Counted' /\ Deleting'
    BY <1>1, <1>2, <1>4 DEF IInv, Counted, Deleting
  <1> QED BY <1>4, <1>12, <1>13, <1>14, <1>15, <1>16, <1>17, <1>18 DEF IInv

\* A put on a ready queue, and the post that goes with it.
LEMMA Put ==
  ASSUME IInv, NEW n \in 1..Taken, sent[n].pool \in Pools, ~InBand(sent[n].pool), ~InReady(n),
         PutReady(n), UNCHANGED <<poolOf, sent, serverQue, terminate>>
  PROVE  /\ ready' \in [Pools -> Seq(Numbers)] /\ sem' \in [Pools -> Nat]
         /\ ReadyOK' /\ Counted'
         /\ \A k \in 1..Taken : InReady(k)' <=> InReady(k) \/ k = n
  <1> DEFINE q == sent[n].pool
  <1>1. /\ ready \in [Pools -> Seq(Numbers)] /\ sem \in [Pools -> Nat] /\ q \in Pools
        /\ n \in Numbers /\ Taken' = Taken /\ n \notin ToSet(ready[q])
    BY TakenOK DEF IInv, TypeOK, InReady, Taken
  <1>2. /\ ready' = [ready EXCEPT ![q] = Append(ready[q], n)]
        /\ sem' = [sem EXCEPT ![q] = sem[q] + 1]
    BY DEF PutReady
  <1>3. /\ Append(ready[q], n) \in Seq(Numbers)
        /\ Len(Append(ready[q], n)) = Len(ready[q]) + 1
        /\ ToSet(Append(ready[q], n)) = ToSet(ready[q]) \cup {n}
        /\ Injective(Append(ready[q], n))
    BY <1>1, Appended DEF IInv, QueuesOK, ReadyOK
  <1> HIDE DEF q
  <1>4. /\ ready' \in [Pools -> Seq(Numbers)] /\ sem' \in [Pools -> Nat]
        /\ \A p \in Pools \ {q} : ready'[p] = ready[p] /\ sem'[p] = sem[p]
        /\ ToSet(ready'[q]) = ToSet(ready[q]) \cup {n} /\ Injective(ready'[q])
        /\ Len(ready'[q]) = Len(ready[q]) + 1 /\ sem'[q] = sem[q] + 1
    BY <1>1, <1>2, <1>3
  <1>5. \A k \in 1..Taken : InReady(k)' <=> InReady(k) \/ k = n
    BY <1>1, <1>4 DEF InReady, q
  <1>6. \A p : InBand(p)' <=> InBand(p)
    BY DEF InBand
  <1>7. ReadyOK'
    <2>1. ASSUME NEW p \in Pools
          PROVE (/\ Injective(ready[p])
                 /\ \A k \in ToSet(ready[p]) : k \in 1..Taken /\ sent[k].pool = p /\ ~InBand(p))'
      <3>1. CASE p = q
        BY <1>1, <1>4, <1>6, <3>1 DEF IInv, QueuesOK, ReadyOK, q
      <3>2. CASE p # q
        BY <1>1, <1>4, <1>6, <3>2 DEF IInv, QueuesOK, ReadyOK
      <3> QED BY <3>1, <3>2
    <2> QED BY <2>1 DEF ReadyOK
  <1>8. Counted'
    BY <1>4 DEF IInv, Counted
  <1> QED BY <1>4, <1>5, <1>7, <1>8

\* A worker takes the first message of the ready queue of its pool.
LEMMA TakeReadyStep ==
  ASSUME IInv, NEW w \in Workers, TakeReady(w)
  PROVE  IInv'
  <1> DEFINE p == poolOf[w]
  <1>1. /\ wpc[w] = "pend" /\ sem[p] > 0 /\ p \notin terminate
        /\ sem' = [sem EXCEPT ![p] = sem[p] - 1]
        /\ cur' = [cur EXCEPT ![w] = Head(ready[p])]
        /\ ready' = [ready EXCEPT ![p] = Tail(ready[p])]
        /\ wpc' = [wpc EXCEPT ![w] = "process"]
        /\ UNCHANGED <<poolOf, sent, answer, serverQue, jobId, jobList, spc, scur, running, terminate, del, lost>>
    BY DEF TakeReady, given, jobVars, serverVars, deleteVars
  <1>2. /\ p \in Pools /\ ready \in [Pools -> Seq(Numbers)] /\ sem \in [Pools -> Nat]
        /\ wpc \in [Workers -> {"pend", "process", "next", "stopped"}]
        /\ cur \in [Workers -> Numbers \cup {NoMsg}]
    BY PoolsAssumption DEF IInv, TypeOK
  <1>3. /\ sem[p] = Len(ready[p]) /\ ready[p] # <<>> /\ ready[p] \in Seq(Numbers)
        /\ Injective(ready[p])
    BY <1>1, <1>2, EmptyQueue DEF IInv, Counted, QueuesOK, ReadyOK
  <1>4. PICK c : c = Head(ready[p])
    OBVIOUS
  <1>5. /\ c \in Numbers /\ c \in ToSet(ready[p]) /\ Tail(ready[p]) \in Seq(Numbers)
        /\ ToSet(Tail(ready[p])) = ToSet(ready[p]) \ {c} /\ Injective(Tail(ready[p]))
        /\ Len(Tail(ready[p])) = Len(ready[p]) - 1 /\ Len(ready[p]) > 0
    BY <1>3, <1>4, Tailed
  <1>6. c \in 1..Taken /\ c # NoMsg /\ sent[c].pool = p /\ ~InBand(p)
    BY <1>2, <1>5, TakenOK DEF IInv, QueuesOK, ReadyOK
  <1>7. InReady(c) /\ ~AtWorker(c) /\ ~InJob(c) /\ c # scur
    BY <1>2, <1>5, <1>6 DEF IInv, InOnePlace, InReady
  <1>8. cur[w] = NoMsg /\ Taken' = Taken
    BY <1>1 DEF IInv, ThreadsOK, Taken
  <1>9. /\ ready' \in [Pools -> Seq(Numbers)] /\ sem' \in [Pools -> Nat]
        /\ \A r \in Pools \ {p} : ready'[r] = ready[r] /\ sem'[r] = sem[r]
        /\ ToSet(ready'[p]) = ToSet(ready[p]) \ {c} /\ Injective(ready'[p])
        /\ Len(ready'[p]) = Len(ready[p]) - 1 /\ sem'[p] = sem[p] - 1
    BY <1>1, <1>2, <1>3, <1>5
  <1>10. /\ wpc' \in [Workers -> {"pend", "process", "next", "stopped"}]
         /\ cur' \in [Workers -> Numbers \cup {NoMsg}]
         /\ \A u \in Workers \ {w} : wpc'[u] = wpc[u] /\ cur'[u] = cur[u]
         /\ wpc'[w] = "process" /\ cur'[w] = c
    BY <1>1, <1>2, <1>4, <1>5
  <1>11. poolOf' = poolOf /\ p' = p
    BY <1>1
  <1> HIDE DEF p
  <1>12. \A k \in 1..Taken :
           /\ JobOf(k)' = JobOf(k) /\ (InJob(k)' <=> InJob(k))
           /\ InReady(k)' <=> InReady(k) /\ k # c
           /\ AtWorker(k)' <=> AtWorker(k) \/ k = c
           /\ Working(k)' <=> Working(k) \/ k = c
    <2>1. \A k \in 1..Taken : JobOf(k)' = JobOf(k) /\ (InJob(k)' <=> InJob(k))
      BY <1>1 DEF JobOf, InJob
    <2>2. \A k \in 1..Taken : InReady(k)' <=> InReady(k) /\ k # c
      BY <1>1, <1>2, <1>6, <1>9 DEF InReady
    <2>3. \A k \in 1..Taken : k # NoMsg
      BY TakenOK
    <2>4. \A k \in 1..Taken : AtWorker(k)' <=> AtWorker(k) \/ k = c
      BY <1>8, <1>10, <2>3 DEF AtWorker
    <2>5. \A k \in 1..Taken : Working(k)' <=> Working(k) \/ k = c
      BY <1>8, <1>10, <2>3 DEF Working
    <2> QED BY <2>1, <2>2, <2>4, <2>5
  <1>13. \A r : InBand(r)' <=> InBand(r)
    BY <1>1 DEF InBand
  <1>14. TypeOK'
    BY <1>1, <1>9, <1>10 DEF IInv, TypeOK
  <1>15. QueuesOK'
    <2>1. QueueOK' /\ JobsOK'
      BY <1>1, <1>8, <1>12, <1>13 DEF IInv, QueuesOK, QueueOK, JobsOK
    <2>2. ReadyOK'
      BY <1>1, <1>8, <1>9, <1>13 DEF IInv, QueuesOK, ReadyOK
    <2> QED BY <2>1, <2>2 DEF QueuesOK
  <1>16. ThreadsOK'
    <2>1. \A u \in Workers : cur[u] # c
      BY <1>7 DEF AtWorker
    <2>2. ASSUME NEW u \in Workers
          PROVE (/\ wpc[u] \in {"process", "next"} <=> cur[u] # NoMsg
                 /\ cur[u] # NoMsg => cur[u] \in 1..Taken /\ sent[cur[u]].pool = poolOf[u]
                 /\ wpc[u] = "next" => JobOf(cur[u]) # DISCRETE
                 /\ \A v \in Workers : cur[u] = cur[v] /\ cur[u] # NoMsg => u = v)'
      <3>1. CASE u = w
        BY <1>1, <1>6, <1>8, <1>10, <2>1, <3>1 DEF p
      <3>2. CASE u # w
        <4>1. cur'[u] = cur[u] /\ wpc'[u] = wpc[u]
          BY <1>10, <3>2
        <4>2. PICK d : d = cur[u]
          OBVIOUS
        <4>3. JobOf(d)' = JobOf(d)
          BY <1>1 DEF JobOf
        <4>4. \A v \in Workers : cur'[u] = cur'[v] /\ cur'[u] # NoMsg => u = v
          BY <1>10, <2>1, <3>2 DEF IInv, ThreadsOK
        <4> QED BY <1>1, <1>8, <4>1, <4>2, <4>3, <4>4 DEF IInv, ThreadsOK
      <3> QED BY <3>1, <3>2
    <2> QED BY <1>1, <1>8, <1>13, <2>2 DEF IInv, ThreadsOK
  <1>17. InOnePlace'
    BY <1>1, <1>7, <1>8, <1>12 DEF IInv, InOnePlace
  <1>18. Answered'
    BY <1>1, <1>7, <1>8, <1>12 DEF IInv, Answered
  <1>19. OneForward'
    <2>1. \A k \in 1..Taken : Forward(k)' <=> Forward(k)
      BY <1>7, <1>12 DEF Forward
    <2> QED BY <1>1, <1>8, <1>12, <2>1 DEF IInv, OneForward
  <1>20. IdsKnown'
    BY <1>1 DEF IInv, IdsKnown, JobOf
  <1>21. Counted'
    <2>1. \A r \in Pools \ terminate : sem'[r] = Len(ready'[r])
      BY <1>3, <1>9 DEF IInv, Counted
    <2> QED BY <1>1, <2>1 DEF Counted
  <1>22. Deleting'
    BY <1>1, <1>2, <1>3, <1>8 DEF IInv, Deleting
  <1> QED BY <1>14, <1>15, <1>16, <1>17, <1>18, <1>19, <1>20, <1>21, <1>22 DEF IInv

\* The server thread has passed its message on to where nobody has it twice: the parts of
\* the invariant that say nothing of the places.
LEMMA PassedOn ==
  ASSUME IInv, spc = "dispatch", Loop,
         UNCHANGED <<poolOf, sent, answer, serverQue, jobId, wpc, cur, terminate, del, lost>>
  PROVE  /\ scur # NoMsg /\ scur \in 1..Taken /\ ~InBand(sent[scur].pool)
         /\ ~InJob(scur) /\ ~InReady(scur) /\ ~AtWorker(scur) /\ ~Working(scur)
         /\ lost = {} /\ del \notin {"pools", "done"}
         /\ scur' = NoMsg /\ Taken' = Taken
         /\ spc' \in {"get", "stopped"} /\ UNCHANGED running
         /\ \A k \in 1..Taken : /\ JobOf(k)' = JobOf(k)
                                /\ AtWorker(k)' <=> AtWorker(k)
                                /\ Working(k)' <=> Working(k)
         /\ \A p : InBand(p)' <=> InBand(p)
         /\ QueueOK' /\ ThreadsOK' /\ Deleting'
  <1>1. scur # NoMsg /\ ~InBand(sent[scur].pool)
    BY DEF IInv, ThreadsOK
  <1>2. /\ scur \in 1..Taken /\ ~InJob(scur) /\ ~InReady(scur) /\ ~AtWorker(scur) /\ ~Working(scur)
        /\ lost = {} /\ del \notin {"pools", "done"}
    BY <1>1, ScurAlone, TakenOK
  <1>3. scur' = NoMsg /\ Taken' = Taken /\ spc' \in {"get", "stopped"} /\ UNCHANGED running
    BY DEF Loop, Taken
  <1>4. \A k : JobOf(k)' = JobOf(k) /\ (AtWorker(k)' <=> AtWorker(k)) /\ (Working(k)' <=> Working(k))
    BY DEF JobOf, AtWorker, Working
  <1>5. \A p : InBand(p)' <=> InBand(p)
    BY DEF InBand
  <1>6. QueueOK'
    BY <1>3 DEF IInv, QueuesOK, QueueOK
  <1>7. ThreadsOK'
    <2>1. \A w \in Workers :
            (/\ wpc[w] \in {"process", "next"} <=> cur[w] # NoMsg
             /\ cur[w] # NoMsg => cur[w] \in 1..Taken /\ sent[cur[w]].pool = poolOf[w]
             /\ wpc[w] = "next" => JobOf(cur[w]) # DISCRETE
             /\ \A u \in Workers : cur[w] = cur[u] /\ cur[w] # NoMsg => w = u)'
      BY <1>3, <1>4 DEF IInv, ThreadsOK
    <2> QED BY <1>3, <2>1 DEF ThreadsOK
  <1>8. Deleting'
    BY <1>2, <1>3 DEF IInv, Deleting
  <1> QED BY <1>1, <1>2, <1>3, <1>4, <1>5, <1>6, <1>7, <1>8

\* A message of no job is ready at once.
LEMMA DispatchDiscreteStep ==
  ASSUME IInv, DispatchDiscrete
  PROVE  IInv'
  <1>1. /\ spc = "dispatch" /\ Loop /\ PutReady(scur) /\ JobOf(scur) = DISCRETE
        /\ sent[scur].pool # NoPool
        /\ UNCHANGED <<poolOf, sent, answer, serverQue, jobId, jobList, wpc, cur, terminate, del, lost>>
    BY DEF DispatchDiscrete, given, jobVars, workerVars, deleteVars
  <1>2. /\ scur # NoMsg /\ scur \in 1..Taken /\ ~InBand(sent[scur].pool)
        /\ ~InJob(scur) /\ ~InReady(scur) /\ ~AtWorker(scur) /\ ~Working(scur)
        /\ scur' = NoMsg /\ Taken' = Taken /\ spc' \in {"get", "stopped"}
        /\ UNCHANGED running
        /\ \A k \in 1..Taken : /\ JobOf(k)' = JobOf(k)
                               /\ AtWorker(k)' <=> AtWorker(k)
                               /\ Working(k)' <=> Working(k)
        /\ \A p : InBand(p)' <=> InBand(p)
        /\ QueueOK' /\ ThreadsOK' /\ Deleting'
    BY <1>1, PassedOn
  <1>3. sent[scur].pool \in Pools
    BY <1>1, <1>2, TakenOK DEF Message
  <1>4. /\ ready' \in [Pools -> Seq(Numbers)] /\ sem' \in [Pools -> Nat] /\ ReadyOK' /\ Counted'
        /\ \A k \in 1..Taken : InReady(k)' <=> InReady(k) \/ k = scur
    BY <1>1, <1>2, <1>3, Put
  <1>5. \A k \in 1..Taken : InJob(k)' <=> InJob(k)
    BY <1>1 DEF InJob, JobOf
  <1>6. NoMsg \notin 1..Taken
    BY TakenOK
  <1>7. TypeOK'
    BY <1>1, <1>2, <1>4 DEF IInv, TypeOK
  <1>8. QueuesOK'
    <2>1. JobsOK'
      BY <1>1, <1>2 DEF IInv, QueuesOK, JobsOK, JobOf
    <2> QED BY <1>2, <1>4, <2>1 DEF QueuesOK
  <1>9. InOnePlace'
    BY <1>2, <1>4, <1>5, <1>6 DEF IInv, InOnePlace
  <1>10. Answered'
    BY <1>1, <1>2, <1>4, <1>5, <1>6 DEF IInv, Answered
  <1>11. OneForward'
    <2>1. \A k \in 1..Taken : JobOf(k) # DISCRETE => (Forward(k)' <=> Forward(k))
      BY <1>1, <1>2, <1>4 DEF Forward
    <2>2. DISCRETE \notin DOMAIN jobList
      BY DEF IInv, TypeOK, Jobs, DISCRETE
    <2> QED BY <1>1, <1>2, <1>5, <2>1, <2>2 DEF IInv, OneForward
  <1>12. IdsKnown'
    BY <1>1 DEF IInv, IdsKnown, JobOf
  <1> QED BY <1>2, <1>4, <1>7, <1>8, <1>9, <1>10, <1>11, <1>12 DEF IInv

\* The first message of a job that is empty is brought forward, any other waits its turn.
LEMMA DispatchJobStep ==
  ASSUME IInv, DispatchJob
  PROVE  IInv'
  <1> DEFINE j == JobOf(scur)
  <1>1. /\ spc = "dispatch" /\ Loop /\ sent[scur].pool # NoPool /\ j \in DOMAIN jobList
        /\ \/ /\ jobList[j].empty
              /\ jobList' = [jobList EXCEPT ![j].empty = FALSE]
              /\ PutReady(scur)
           \/ /\ ~jobList[j].empty
              /\ jobList' = [jobList EXCEPT ![j].msgQue = Append(jobList[j].msgQue, scur)]
              /\ UNCHANGED <<ready, sem>>
        /\ UNCHANGED <<poolOf, sent, answer, serverQue, jobId, wpc, cur, terminate, del, lost>>
    BY DEF DispatchJob, given, poolVars, workerVars, deleteVars
  <1>2. /\ scur # NoMsg /\ scur \in 1..Taken /\ ~InBand(sent[scur].pool)
        /\ ~InJob(scur) /\ ~InReady(scur) /\ ~AtWorker(scur) /\ ~Working(scur)
        /\ scur' = NoMsg /\ Taken' = Taken /\ spc' \in {"get", "stopped"}
        /\ UNCHANGED running
        /\ \A k \in 1..Taken : /\ JobOf(k)' = JobOf(k)
                               /\ AtWorker(k)' <=> AtWorker(k)
                               /\ Working(k)' <=> Working(k)
        /\ \A p : InBand(p)' <=> InBand(p)
        /\ QueueOK' /\ ThreadsOK' /\ Deleting'
    BY <1>1, PassedOn
  <1>3. /\ sent[scur].pool \in Pools /\ Taken \in Nat /\ scur = Taken
        /\ \A k \in 1..Taken : k # NoMsg /\ k \in Numbers
    BY <1>1, <1>2, TakenOK DEF Message, IInv, ThreadsOK
  <1>4. /\ jobList[j] \in [empty : BOOLEAN, msgQue : Seq(Numbers)]
        /\ DOMAIN jobList \subseteq Jobs /\ j # DISCRETE
        /\ jobList[j].msgQue \in Seq(Numbers)
        /\ \A i \in DOMAIN jobList : jobList[i] \in [empty : BOOLEAN, msgQue : Seq(Numbers)]
    BY <1>1 DEF IInv, TypeOK, Jobs, DISCRETE
  <1>5. /\ DOMAIN jobList' = DOMAIN jobList
        /\ \A i \in DOMAIN jobList \ {j} : jobList'[i] = jobList[i]
    BY <1>1
  <1>6. \A k : JobOf(k)' = JobOf(k)
    BY <1>1 DEF JobOf
  <1>7. JobOf(scur) = j
    OBVIOUS
  <1> HIDE DEF j
  <1>8. CASE jobList[j].empty
    <2>1. jobList' = [jobList EXCEPT ![j].empty = FALSE] /\ PutReady(scur)
      BY <1>1, <1>8
    <2>2. /\ jobList'[j].empty = FALSE /\ jobList'[j].msgQue = jobList[j].msgQue
          /\ jobList'[j] \in [empty : BOOLEAN, msgQue : Seq(Numbers)]
      BY <1>1, <1>4, <2>1
    <2>3. /\ ready' \in [Pools -> Seq(Numbers)] /\ sem' \in [Pools -> Nat]
          /\ ReadyOK' /\ Counted'
          /\ \A k \in 1..Taken : InReady(k)' <=> InReady(k) \/ k = scur
      BY <1>1, <1>2, <1>3, <2>1, Put
    <2>4. \A i \in DOMAIN jobList : jobList'[i].msgQue = jobList[i].msgQue
      BY <1>5, <2>2
    <2>5. \A k \in 1..Taken : InJob(k)' <=> InJob(k)
      BY <1>5, <1>6, <2>4 DEF InJob
    <2>6. TypeOK'
      BY <1>1, <1>2, <1>4, <1>5, <2>2, <2>3 DEF IInv, TypeOK
    <2>7. JobsOK'
      BY <1>1, <1>2, <1>5, <1>6, <2>4 DEF IInv, QueuesOK, JobsOK
    <2>8. InOnePlace'
      BY <1>2, <1>3, <2>3, <2>5 DEF IInv, InOnePlace
    <2>9. Answered'
      BY <1>1, <1>2, <1>3, <2>3, <2>5 DEF IInv, Answered
    <2>10. OneForward'
      <3>1. \A k \in 1..Taken : Forward(k)' <=> Forward(k) \/ k = scur
        BY <1>2, <2>3 DEF Forward
      <3>2. jobList[j].msgQue = <<>> /\ \A k \in 1..Taken : JobOf(k) = j => ~Forward(k) /\ ~InJob(k)
        BY <1>1, <1>8, EmptyQueue DEF IInv, OneForward, InJob
      <3>3. ASSUME NEW n \in 1..Taken, NEW k \in 1..Taken,
                   JobOf(n) # DISCRETE, JobOf(n) = JobOf(k), Forward(n)'
            PROVE  (Forward(k)' => n = k) /\ (InJob(k)' => n < k)
        <4>1. CASE JobOf(n) = j
          BY <2>5, <3>1, <3>2, <3>3, <4>1
        <4>2. CASE JobOf(n) # j
          BY <1>7, <2>5, <3>1, <3>3, <4>2 DEF IInv, OneForward
        <4> QED BY <4>1, <4>2
      <3>4. ASSUME NEW i \in DOMAIN jobList
            PROVE (IF jobList[i].empty
                     THEN jobList[i].msgQue = <<>> /\ \A k \in 1..Taken : JobOf(k) = i => ~Forward(k)
                     ELSE \E k \in 1..Taken : JobOf(k) = i /\ Forward(k))'
        <4>1. CASE i = j
          BY <1>2, <1>7, <2>2, <3>1, <4>1
        <4>2. CASE i # j
          BY <1>2, <1>5, <1>7, <3>1, <4>2 DEF IInv, OneForward
        <4> QED BY <4>1, <4>2
      <3> QED BY <1>2, <1>5, <3>3, <3>4 DEF OneForward
    <2>11. IdsKnown'
      BY <1>1, <1>5, <1>6 DEF IInv, IdsKnown
    <2> QED BY <1>2, <2>3, <2>6, <2>7, <2>8, <2>9, <2>10, <2>11 DEF IInv, QueuesOK
  <1>9. CASE ~jobList[j].empty
    <2>1. /\ jobList' = [jobList EXCEPT ![j].msgQue = Append(jobList[j].msgQue, scur)]
          /\ UNCHANGED <<ready, sem>>
      BY <1>1, <1>9
    <2>2. \A x \in ToSet(jobList[j].msgQue) : x \in 1..Taken /\ x < scur
      <3>1. \A x \in ToSet(jobList[j].msgQue) : x \in 1..Taken /\ JobOf(x) = j
        BY <1>1 DEF IInv, QueuesOK, JobsOK
      <3>2. scur \notin ToSet(jobList[j].msgQue)
        BY <1>1, <1>2, <1>7 DEF InJob
      <3> QED BY <1>3, <3>1, <3>2
    <2>3. /\ Append(jobList[j].msgQue, scur) \in Seq(Numbers)
          /\ ToSet(Append(jobList[j].msgQue, scur)) = ToSet(jobList[j].msgQue) \cup {scur}
          /\ Ascending(Append(jobList[j].msgQue, scur))
      BY <1>1, <1>2, <1>3, <1>4, <2>2, Appended DEF IInv, QueuesOK, JobsOK
    <2>4. /\ jobList'[j].empty = FALSE /\ jobList'[j].msgQue = Append(jobList[j].msgQue, scur)
          /\ jobList'[j] \in [empty : BOOLEAN, msgQue : Seq(Numbers)]
      BY <1>1, <1>4, <1>9, <2>1, <2>3
    <2>5. \A k \in 1..Taken : InReady(k)' <=> InReady(k)
      BY <1>1, <2>1 DEF InReady
    <2>6. \A k \in 1..Taken : InJob(k)' <=> InJob(k) \/ k = scur
      BY <1>1, <1>5, <1>6, <1>7, <2>3, <2>4 DEF InJob
    <2>7. TypeOK'
      BY <1>1, <1>2, <1>4, <1>5, <2>1, <2>4 DEF IInv, TypeOK
    <2>8. JobsOK' /\ ReadyOK'
      <3>1. ReadyOK'
        BY <1>1, <1>2, <2>1 DEF IInv, QueuesOK, ReadyOK
      <3>2. ASSUME NEW i \in DOMAIN jobList
            PROVE (/\ Ascending(jobList[i].msgQue)
                   /\ \A k \in ToSet(jobList[i].msgQue) :
                        /\ k \in 1..Taken /\ JobOf(k) = i
                        /\ sent[k].pool \in Pools /\ ~InBand(sent[k].pool))'
        <4>1. CASE i = j
          <5>1. \A k \in ToSet(jobList[j].msgQue) :
                  k \in 1..Taken /\ JobOf(k) = j /\ sent[k].pool \in Pools /\ ~InBand(sent[k].pool)
            BY <4>1 DEF IInv, QueuesOK, JobsOK
          <5>2. \A k \in ToSet(jobList'[j].msgQue) : k \in ToSet(jobList[j].msgQue) \/ k = scur
            BY <2>3, <2>4
          <5>3. Ascending(jobList'[j].msgQue)
            BY <2>3, <2>4
          <5>4. \A k \in ToSet(jobList'[j].msgQue) :
                  k \in 1..Taken /\ JobOf(k) = j /\ sent[k].pool \in Pools /\ ~InBand(sent[k].pool)
            BY <1>1, <1>2, <1>3, <1>7, <5>1, <5>2
          <5>5. sent' = sent
            BY <1>1
          <5> QED BY <1>2, <1>6, <4>1, <5>3, <5>4, <5>5
        <4>2. CASE i # j
          BY <1>1, <1>2, <1>5, <1>6, <4>2 DEF IInv, QueuesOK, JobsOK
        <4> QED BY <4>1, <4>2
      <3> QED BY <1>5, <3>1, <3>2 DEF JobsOK
    <2>9. InOnePlace'
      BY <1>2, <1>3, <2>5, <2>6 DEF IInv, InOnePlace
    <2>10. Answered'
      BY <1>1, <1>2, <1>3, <2>5, <2>6 DEF IInv, Answered
    <2>11. OneForward'
      <3>1. \A k \in 1..Taken : Forward(k)' <=> Forward(k)
        BY <1>2, <2>5 DEF Forward
      <3>2. \A n \in 1..Taken : Forward(n) => n < scur
        BY <1>2, <1>3 DEF Forward
      <3>3. \A n, k \in 1..Taken :
              JobOf(n) # DISCRETE /\ JobOf(n) = JobOf(k) /\ Forward(n) =>
                (Forward(k) => n = k) /\ (InJob(k) => n < k)
        BY DEF IInv, OneForward
      <3>4. ASSUME NEW i \in DOMAIN jobList
            PROVE (IF jobList[i].empty
                     THEN jobList[i].msgQue = <<>> /\ \A k \in 1..Taken : JobOf(k) = i => ~Forward(k)
                     ELSE \E k \in 1..Taken : JobOf(k) = i /\ Forward(k))'
        <4>1. CASE i = j
          BY <1>1, <1>2, <1>9, <2>4, <3>1, <4>1 DEF IInv, OneForward
        <4>2. CASE i # j
          BY <1>2, <1>5, <3>1, <4>2 DEF IInv, OneForward
        <4> QED BY <4>1, <4>2
      <3> QED BY <1>2, <1>5, <2>6, <3>1, <3>2, <3>3, <3>4 DEF OneForward
    <2>12. IdsKnown' /\ Counted'
      BY <1>1, <1>5, <1>6, <2>1 DEF IInv, IdsKnown, Counted
    <2> QED BY <1>2, <2>7, <2>8, <2>9, <2>10, <2>11, <2>12 DEF IInv, QueuesOK
  <1> QED BY <1>8, <1>9

\* A worker that is done with its message waits for the next post.
LEMMA WorkerFree ==
  ASSUME IInv, NEW w \in Workers, NextOfJob(w)
  PROVE  /\ cur[w] \in 1..Taken /\ cur[w] # scur /\ JobOf(cur[w]) # DISCRETE
         /\ ~InJob(cur[w]) /\ ~InReady(cur[w]) /\ AtWorker(cur[w]) /\ ~Working(cur[w])
         /\ lost = {} /\ del # "done" /\ Taken' = Taken
         /\ \A p : InBand(p)' <=> InBand(p)
         /\ \A k : JobOf(k)' = JobOf(k)
         /\ \A k \in 1..Taken : AtWorker(k)' <=> AtWorker(k) /\ k # cur[w]
         /\ \A k \in 1..Taken : Working(k)' <=> Working(k)
         /\ wpc' \in [Workers -> {"pend", "process", "next", "stopped"}]
         /\ cur' \in [Workers -> Numbers \cup {NoMsg}]
         /\ QueueOK' /\ ThreadsOK'
  <1>1. /\ wpc[w] = "next" /\ wpc' = [wpc EXCEPT ![w] = "pend"] /\ cur' = [cur EXCEPT ![w] = NoMsg]
        /\ UNCHANGED <<poolOf, sent, serverQue, spc, scur, running>>
    BY DEF NextOfJob, given, serverVars
  <1>2. /\ cur[w] \in 1..Taken /\ cur[w] # scur /\ cur[w] # NoMsg
        /\ ~InJob(cur[w]) /\ ~InReady(cur[w]) /\ AtWorker(cur[w])
        /\ \A u \in Workers : cur[u] = cur[w] => u = w
        /\ lost = {} /\ del # "done"
    BY <1>1, CurAlone
  <1>3. JobOf(cur[w]) # DISCRETE
    BY <1>1 DEF IInv, ThreadsOK
  <1>4. Taken' = Taken /\ (\A p : InBand(p)' <=> InBand(p)) /\ (\A k : JobOf(k)' = JobOf(k))
    BY <1>1 DEF Taken, InBand, JobOf
  <1>5. /\ wpc \in [Workers -> {"pend", "process", "next", "stopped"}]
        /\ cur \in [Workers -> Numbers \cup {NoMsg}]
    BY DEF IInv, TypeOK
  <1>6. /\ wpc' \in [Workers -> {"pend", "process", "next", "stopped"}]
        /\ cur' \in [Workers -> Numbers \cup {NoMsg}]
        /\ \A u \in Workers \ {w} : wpc'[u] = wpc[u] /\ cur'[u] = cur[u]
        /\ wpc'[w] = "pend" /\ cur'[w] = NoMsg
    BY <1>1, <1>5
  <1>7. \A k \in 1..Taken : k # NoMsg
    BY TakenOK
  <1>8. \A k \in 1..Taken : AtWorker(k)' <=> AtWorker(k) /\ k # cur[w]
    BY <1>2, <1>6, <1>7 DEF AtWorker
  <1>9. \A k \in 1..Taken : Working(k)' <=> Working(k)
    BY <1>1, <1>6, <1>7 DEF Working
  <1>10. ~Working(cur[w])
    BY <1>1, <1>2 DEF Working
  <1>11. QueueOK'
    BY <1>1, <1>4 DEF IInv, QueuesOK, QueueOK
  <1>12. ThreadsOK'
    <2>1. \A u \in Workers :
            (/\ wpc[u] \in {"process", "next"} <=> cur[u] # NoMsg
             /\ cur[u] # NoMsg => cur[u] \in 1..Taken /\ sent[cur[u]].pool = poolOf[u]
             /\ wpc[u] = "next" => JobOf(cur[u]) # DISCRETE
             /\ \A v \in Workers : cur[u] = cur[v] /\ cur[u] # NoMsg => u = v)'
      BY <1>1, <1>4, <1>6 DEF IInv, ThreadsOK
    <2> QED BY <1>1, <1>4, <2>1 DEF IInv, ThreadsOK
  <1> QED BY <1>2, <1>3, <1>4, <1>6, <1>8, <1>9, <1>10, <1>11, <1>12

\* The next message of the job is brought forward, if there is one.
LEMMA NextOfJobStep ==
  ASSUME IInv, NEW w \in Workers, NextOfJob(w)
  PROVE  IInv'
  <1>1. PICK c, j : c = cur[w] /\ j = JobOf(c)
    OBVIOUS
  <1>2. /\ \/ j \notin DOMAIN jobList /\ UNCHANGED <<jobList, ready, sem>>
           \/ /\ j \in DOMAIN jobList /\ jobList[j].msgQue = <<>>
              /\ jobList' = [jobList EXCEPT ![j].empty = TRUE] /\ UNCHANGED <<ready, sem>>
           \/ /\ j \in DOMAIN jobList /\ jobList[j].msgQue # <<>>
              /\ PutReady(Head(jobList[j].msgQue))
              /\ jobList' = [jobList EXCEPT ![j].msgQue = Tail(jobList[j].msgQue)]
        /\ wpc[w] = "next"
        /\ UNCHANGED <<poolOf, sent, answer, serverQue, jobId, spc, scur, running, terminate, del, lost>>
    BY <1>1 DEF NextOfJob, given, poolVars, serverVars, deleteVars
  <1>3. /\ c \in 1..Taken /\ c # scur /\ j # DISCRETE /\ JobOf(c) = j
        /\ ~InJob(c) /\ ~InReady(c) /\ AtWorker(c) /\ ~Working(c)
        /\ lost = {} /\ del # "done" /\ Taken' = Taken
        /\ \A p : InBand(p)' <=> InBand(p)
        /\ \A k : JobOf(k)' = JobOf(k)
        /\ \A k \in 1..Taken : AtWorker(k)' <=> AtWorker(k) /\ k # c
        /\ \A k \in 1..Taken : Working(k)' <=> Working(k)
        /\ wpc' \in [Workers -> {"pend", "process", "next", "stopped"}]
        /\ cur' \in [Workers -> Numbers \cup {NoMsg}]
        /\ QueueOK' /\ ThreadsOK'
    BY <1>1, WorkerFree
  <1>4. /\ \A i \in DOMAIN jobList : jobList[i] \in [empty : BOOLEAN, msgQue : Seq(Numbers)]
        /\ DOMAIN jobList \subseteq Jobs
        /\ \A k \in 1..Taken : k \in Numbers /\ k \in Nat
    BY TakenOK DEF IInv, TypeOK, Numbers
  <1>5. \A n, k \in 1..Taken :
          JobOf(n) # DISCRETE /\ JobOf(n) = JobOf(k) /\ Forward(n) =>
            (Forward(k) => n = k) /\ (InJob(k) => n < k)
    BY DEF IInv, OneForward
  <1>6. \A k \in 1..Taken : JobOf(k) = j /\ Forward(k) => k = c
    BY <1>3, <1>5 DEF Forward
  <1>7. IdsKnown' /\ (j \in DOMAIN jobList => ~jobList[j].empty)
    <2>1. DOMAIN jobList' = DOMAIN jobList
      BY <1>2
    <2> QED BY <1>2, <1>3, <2>1 DEF IInv, IdsKnown, OneForward, Forward
  <1>8. CASE UNCHANGED <<ready, sem>> /\ (\A i \in DOMAIN jobList : jobList'[i].msgQue = jobList[i].msgQue)
             /\ DOMAIN jobList' = DOMAIN jobList
             /\ (\A i \in DOMAIN jobList \ {j} : jobList'[i] = jobList[i])
             /\ (j \in DOMAIN jobList => jobList'[j] = [empty |-> TRUE, msgQue |-> <<>>])
    <2>1. \A k \in 1..Taken : (InJob(k)' <=> InJob(k)) /\ (InReady(k)' <=> InReady(k))
      BY <1>2, <1>3, <1>8 DEF InJob, InReady
    <2>2. \A k \in 1..Taken : Forward(k)' <=> Forward(k) /\ k # c
      BY <1>3, <2>1 DEF Forward
    <2>3. TypeOK'
      <3>1. [empty |-> TRUE, msgQue |-> <<>>] \in [empty : BOOLEAN, msgQue : Seq(Numbers)]
        OBVIOUS
      <3>2. \A i \in DOMAIN jobList' : jobList'[i] \in [empty : BOOLEAN, msgQue : Seq(Numbers)]
        BY <1>4, <1>8, <3>1
      <3> QED BY <1>2, <1>3, <1>8, <3>2 DEF IInv, TypeOK
    <2>4. JobsOK' /\ ReadyOK'
      BY <1>2, <1>3, <1>8 DEF IInv, QueuesOK, JobsOK, ReadyOK
    <2>5. InOnePlace'
      BY <1>2, <1>3, <2>1 DEF IInv, InOnePlace
    <2>6. Answered'
      BY <1>2, <1>3, <2>1 DEF IInv, Answered
    <2>7. OneForward'
      <3>1. ASSUME NEW i \in DOMAIN jobList
            PROVE (IF jobList[i].empty
                     THEN jobList[i].msgQue = <<>> /\ \A k \in 1..Taken : JobOf(k) = i => ~Forward(k)
                     ELSE \E k \in 1..Taken : JobOf(k) = i /\ Forward(k))'
        <4>1. CASE i = j
          BY <1>3, <1>6, <1>8, <2>2, <4>1
        <4>2. CASE i # j
          BY <1>3, <1>8, <2>2, <4>2 DEF IInv, OneForward
        <4> QED BY <4>1, <4>2
      <3> QED BY <1>3, <1>5, <1>8, <2>1, <2>2, <3>1 DEF OneForward
    <2>8. Counted' /\ Deleting'
      BY <1>2, <1>3, <1>8 DEF IInv, Counted, Deleting
    <2> QED BY <1>3, <1>7, <2>3, <2>4, <2>5, <2>6, <2>7, <2>8 DEF IInv, QueuesOK
  <1>9. CASE j \in DOMAIN jobList /\ jobList[j].msgQue # <<>>
    <2>1. PICK h : h = Head(jobList[j].msgQue)
      OBVIOUS
    <2>2. PutReady(h) /\ jobList' = [jobList EXCEPT ![j].msgQue = Tail(jobList[j].msgQue)]
      BY <1>2, <1>9, <2>1
    <2>3. /\ jobList[j].msgQue \in Seq(Numbers) /\ Numbers \subseteq Nat
          /\ Ascending(jobList[j].msgQue)
      BY <1>4, <1>9 DEF IInv, QueuesOK, JobsOK, Numbers
    <2>4. Injective(jobList[j].msgQue)
      BY <2>3, OldestFirst
    <2>5. /\ h \in ToSet(jobList[j].msgQue) /\ Tail(jobList[j].msgQue) \in Seq(Numbers)
          /\ ToSet(Tail(jobList[j].msgQue)) = ToSet(jobList[j].msgQue) \ {h}
      BY <1>9, <2>1, <2>3, <2>4, Tailed
    <2>6. /\ Ascending(Tail(jobList[j].msgQue))
          /\ \A x \in ToSet(Tail(jobList[j].msgQue)) : h < x
      BY <1>9, <2>1, <2>3, OldestFirst
    <2>7. /\ h \in 1..Taken /\ JobOf(h) = j /\ sent[h].pool \in Pools /\ ~InBand(sent[h].pool)
      BY <1>9, <2>5 DEF IInv, QueuesOK, JobsOK
    <2>8. InJob(h)
      BY <1>9, <2>5, <2>7 DEF InJob
    <2>9. h # scur /\ ~InReady(h) /\ ~AtWorker(h)
      BY <2>7, <2>8 DEF IInv, InOnePlace
    <2>10. /\ ready' \in [Pools -> Seq(Numbers)] /\ sem' \in [Pools -> Nat]
           /\ ReadyOK' /\ Counted'
           /\ \A k \in 1..Taken : InReady(k)' <=> InReady(k) \/ k = h
      BY <1>2, <2>2, <2>7, <2>9, Put
    <2>11. /\ DOMAIN jobList' = DOMAIN jobList
           /\ \A i \in DOMAIN jobList \ {j} : jobList'[i] = jobList[i]
           /\ jobList'[j] \in [empty : BOOLEAN, msgQue : Seq(Numbers)]
           /\ jobList'[j].empty = FALSE /\ jobList'[j].msgQue = Tail(jobList[j].msgQue)
      BY <1>4, <1>7, <1>9, <2>2, <2>5
    <2>12. \A k \in 1..Taken : InJob(k)' <=> InJob(k) /\ k # h
      <3> SUFFICES ASSUME NEW k \in 1..Taken PROVE InJob(k)' <=> InJob(k) /\ k # h
        OBVIOUS
      <3>1. JobOf(k)' = JobOf(k)
        BY <1>3
      <3>2. CASE JobOf(k) = j
        BY <1>9, <2>5, <2>11, <3>1, <3>2 DEF InJob
      <3>3. CASE JobOf(k) # j
        BY <2>7, <2>11, <3>1, <3>3 DEF InJob
      <3> QED BY <3>2, <3>3
    <2>13. \A k \in 1..Taken : Forward(k)' <=> (Forward(k) /\ k # c) \/ k = h
      BY <1>3, <2>9, <2>10 DEF Forward
    <2>14. TypeOK'
      BY <1>2, <1>3, <1>4, <2>10, <2>11 DEF IInv, TypeOK
    <2>15. JobsOK'
      <3>1. ASSUME NEW i \in DOMAIN jobList
            PROVE (/\ Ascending(jobList[i].msgQue)
                   /\ \A k \in ToSet(jobList[i].msgQue) :
                        /\ k \in 1..Taken /\ JobOf(k) = i
                        /\ sent[k].pool \in Pools /\ ~InBand(sent[k].pool))'
        <4>1. CASE i = j
          BY <1>2, <1>3, <2>5, <2>6, <2>11, <4>1 DEF IInv, QueuesOK, JobsOK
        <4>2. CASE i # j
          BY <1>2, <1>3, <2>11, <4>2 DEF IInv, QueuesOK, JobsOK
        <4> QED BY <4>1, <4>2
      <3> QED BY <2>11, <3>1 DEF JobsOK
    <2>16. InOnePlace'
      BY <1>2, <1>3, <2>9, <2>10, <2>12 DEF IInv, InOnePlace
    <2>17. Answered'
      BY <1>2, <1>3, <2>8, <2>10, <2>12 DEF IInv, Answered
    <2>18. OneForward'
      <3>1. ASSUME NEW i \in DOMAIN jobList
            PROVE (IF jobList[i].empty
                     THEN jobList[i].msgQue = <<>> /\ \A k \in 1..Taken : JobOf(k) = i => ~Forward(k)
                     ELSE \E k \in 1..Taken : JobOf(k) = i /\ Forward(k))'
        <4>1. CASE i = j
          BY <1>3, <2>7, <2>11, <2>13, <4>1
        <4>2. CASE i # j
          BY <1>3, <2>7, <2>11, <2>13, <4>2 DEF IInv, OneForward
        <4> QED BY <4>1, <4>2
      <3>2. \A k \in 1..Taken : JobOf(k) = j /\ InJob(k)' => h < k
        BY <1>3, <2>5, <2>6, <2>11 DEF InJob
      <3>3. ASSUME NEW n \in 1..Taken, NEW k \in 1..Taken,
                   JobOf(n) # DISCRETE, JobOf(n) = JobOf(k), Forward(n)'
            PROVE  (Forward(k)' => n = k) /\ (InJob(k)' => n < k)
        <4>1. CASE JobOf(n) = j
          BY <1>6, <2>13, <3>2, <3>3, <4>1
        <4>2. CASE JobOf(n) # j
          BY <1>5, <2>7, <2>12, <2>13, <3>3, <4>2
        <4> QED BY <4>1, <4>2
      <3> QED BY <1>3, <2>11, <3>1, <3>3 DEF OneForward
    <2>19. Deleting'
      BY <1>2, <1>3, <1>7, <1>9 DEF IInv, Deleting
    <2> QED BY <1>3, <1>7, <2>10, <2>14, <2>15, <2>16, <2>17, <2>18, <2>19 DEF IInv, QueuesOK
  <1>10. CASE j \in DOMAIN jobList /\ jobList[j].msgQue = <<>>
    <2>1. jobList' = [jobList EXCEPT ![j].empty = TRUE] /\ UNCHANGED <<ready, sem>>
      BY <1>2, <1>10
    <2>2. jobList'[j] = [empty |-> TRUE, msgQue |-> <<>>]
      BY <1>4, <1>10, <2>1
    <2> QED BY <1>8, <1>10, <2>1, <2>2
  <1>11. CASE j \notin DOMAIN jobList
    BY <1>2, <1>8, <1>11
  <1> QED BY <1>9, <1>10, <1>11

\* What waits on the queues of the jobs.
LEMMA WaitingOK ==
  ASSUME IInv
  PROVE  /\ \A k : k \in Waiting => k \in 1..Taken
         /\ \A k \in 1..Taken : k \in Waiting <=> InJob(k)
  <1>1. \A j \in DOMAIN jobList : \A k \in ToSet(jobList[j].msgQue) : k \in 1..Taken /\ JobOf(k) = j
    BY DEF IInv, QueuesOK, JobsOK
  <1> QED BY <1>1 DEF Waiting, InJob

\* The job list is deleted, and the messages on the queues of its jobs go back.
LEMMA JoinedStep ==
  ASSUME IInv, Joined
  PROVE  IInv'
  <1>1. /\ del = "join" /\ spc = "stopped" /\ answer' = Returned(Waiting, "Unprocessed")
        /\ jobList' = <<>> /\ del' = "pools"
        /\ UNCHANGED <<poolOf, sent, serverQue, jobId, ready, sem, spc, scur, running, wpc, cur, terminate, lost>>
    BY DEF Joined, Waiting, given, poolVars, serverVars, workerVars
  <1>2. /\ scur = NoMsg /\ lost = {} /\ DOMAIN jobList' = {} /\ Taken' = Taken
        /\ \A p : InBand(p)' <=> InBand(p)
    BY <1>1 DEF IInv, ThreadsOK, Deleting, Taken, InBand
  <1>3. /\ answer' \in [Numbers -> Statuses]
        /\ \A k \in Numbers : answer'[k] = "none" <=> answer[k] = "none" /\ k \notin Waiting
    BY <1>1 DEF IInv, TypeOK, Returned, Statuses
  <1>4. /\ \A k : k \in Waiting => k \in 1..Taken
        /\ \A k \in 1..Taken : k \in Waiting <=> InJob(k)
    BY WaitingOK
  <1>5. \A k \in 1..Taken :
          /\ JobOf(k)' = JobOf(k) /\ ~InJob(k)' /\ (InReady(k)' <=> InReady(k))
          /\ (AtWorker(k)' <=> AtWorker(k)) /\ (Working(k)' <=> Working(k))
    BY <1>1, <1>2 DEF JobOf, InJob, InReady, AtWorker, Working
  <1>6. TypeOK'
    BY <1>1, <1>2, <1>3 DEF IInv, TypeOK
  <1>7. QueuesOK'
    BY <1>1, <1>2 DEF IInv, QueuesOK, QueueOK, ReadyOK, JobsOK
  <1>8. ThreadsOK'
    BY <1>1, <1>2 DEF IInv, ThreadsOK, JobOf
  <1>9. InOnePlace'
    BY <1>1, <1>2, <1>5 DEF IInv, InOnePlace
  <1>10. Answered'
    <2>1. ASSUME NEW k \in 1..Taken
          PROVE (answer[k] = "none" <=> k \in lost \/ k = scur \/ InJob(k) \/ InReady(k) \/ Working(k))'
      <3>1. k \in Numbers
        BY TakenOK
      <3>2. InJob(k) => k \notin lost /\ k # scur /\ ~InReady(k) /\ ~Working(k)
        BY <1>1, LeftJob
      <3> QED BY <1>1, <1>3, <1>4, <1>5, <3>1, <3>2 DEF IInv, Answered
    <2>2. \A k \in Numbers : k > Taken => k \notin Waiting
      BY <1>4, TakenOK DEF Numbers
    <2> QED BY <1>2, <1>3, <2>1, <2>2 DEF IInv, Answered
  <1>11. OneForward'
    BY <1>2, <1>5 DEF IInv, OneForward, Forward
  <1>12. IdsKnown' /\ Counted' /\ Deleting'
    BY <1>1, <1>2 DEF IInv, IdsKnown, Counted, Deleting, JobOf
  <1> QED BY <1>6, <1>7, <1>8, <1>9, <1>10, <1>11, <1>12 DEF IInv

\* What is left on the ready queue of a pool without workers goes back.
LEMMA EmptyPoolStep ==
  ASSUME IInv, NEW i \in 1..Len(PoolOrder), EmptyPool(i)
  PROVE  IInv'
  <1>1. PICK p : p = PoolOrder[i]
    OBVIOUS
  <1>2. /\ del = "pools" /\ p \in terminate /\ answer' = Returned(ToSet(ready[p]), "Unprocessed")
        /\ ready' = [ready EXCEPT ![p] = <<>>]
        /\ UNCHANGED <<poolOf, sent, serverQue, jobId, jobList, sem, spc, scur, running, wpc, cur, terminate,
                       del, lost>>
    BY <1>1 DEF EmptyPool, given, jobVars, serverVars, workerVars, deleteVars
  <1>3. /\ p \in Pools /\ ready \in [Pools -> Seq(Numbers)] /\ scur = NoMsg /\ lost = {}
        /\ Taken' = Taken /\ \A r : InBand(r)' <=> InBand(r)
    BY <1>2 DEF IInv, TypeOK, ThreadsOK, Deleting, Taken, InBand
  <1>4. /\ answer' \in [Numbers -> Statuses]
        /\ \A k \in Numbers : answer'[k] = "none" <=> answer[k] = "none" /\ k \notin ToSet(ready[p])
    BY <1>2 DEF IInv, TypeOK, Returned, Statuses
  <1>5. /\ ready' \in [Pools -> Seq(Numbers)] /\ ready'[p] = <<>>
        /\ \A r \in Pools \ {p} : ready'[r] = ready[r]
    <2>1. <<>> \in Seq(Numbers)
      OBVIOUS
    <2> QED BY <1>2, <1>3, <2>1
  <1>6. /\ \A k \in ToSet(ready[p]) : k \in 1..Taken
        /\ \A k \in 1..Taken : k \in ToSet(ready[p]) <=> InReady(k) /\ sent[k].pool = p
    BY <1>3 DEF IInv, QueuesOK, ReadyOK, InReady
  <1>7. \A k \in 1..Taken : InReady(k)' <=> InReady(k) /\ k \notin ToSet(ready[p])
    BY <1>2, <1>3, <1>5, <1>6, EmptyQueue DEF InReady
  <1>8. \A k \in 1..Taken :
          /\ JobOf(k)' = JobOf(k) /\ (InJob(k)' <=> InJob(k))
          /\ (AtWorker(k)' <=> AtWorker(k)) /\ (Working(k)' <=> Working(k))
    BY <1>2 DEF JobOf, InJob, AtWorker, Working
  <1>9. TypeOK'
    BY <1>2, <1>4, <1>5 DEF IInv, TypeOK
  <1>10. QueuesOK'
    <2>1. ReadyOK'
      BY <1>2, <1>3, <1>5, EmptyQueue DEF IInv, QueuesOK, ReadyOK
    <2> QED BY <1>2, <1>3, <2>1 DEF IInv, QueuesOK, QueueOK, JobsOK, JobOf
  <1>11. ThreadsOK'
    BY <1>2, <1>3 DEF IInv, ThreadsOK, JobOf
  <1>12. InOnePlace'
    BY <1>2, <1>3, <1>7, <1>8 DEF IInv, InOnePlace
  <1>13. Answered'
    <2>1. ASSUME NEW k \in 1..Taken
          PROVE (answer[k] = "none" <=> k \in lost \/ k = scur \/ InJob(k) \/ InReady(k) \/ Working(k))'
      <3>1. k \in Numbers /\ k # scur /\ k \notin lost
        BY <1>3, TakenOK
      <3>2. InReady(k) => ~InJob(k) /\ ~Working(k)
        BY DEF IInv, InOnePlace, AtWorker, Working
      <3> QED BY <1>2, <1>4, <1>6, <1>7, <1>8, <3>1, <3>2 DEF IInv, Answered
    <2>2. \A k \in Numbers : k > Taken => k \notin ToSet(ready[p])
      BY <1>6, TakenOK DEF Numbers
    <2> QED BY <1>3, <1>4, <2>1, <2>2 DEF IInv, Answered
  <1>14. OneForward'
    <2>1. \A k \in 1..Taken : Forward(k)' => Forward(k)
      BY <1>7, <1>8 DEF Forward
    <2>2. \A j \in DOMAIN jobList : jobList[j].empty
      BY <1>2 DEF IInv, Deleting
    <2> QED BY <1>2, <1>3, <1>8, <2>1, <2>2 DEF IInv, OneForward
  <1>15. IdsKnown' /\ Counted' /\ Deleting'
    BY <1>2, <1>3, <1>5 DEF IInv, IdsKnown, Counted, Deleting, JobOf
  <1> QED BY <1>9, <1>10, <1>11, <1>12, <1>13, <1>14, <1>15 DEF IInv

\* The server's queue goes away, and the messages in it are lost.
LEMMA DeleteQueueStep ==
  ASSUME IInv, DeleteQueue
  PROVE  IInv'
  <1>1. /\ del = "pools" /\ terminate = Pools /\ \A w \in Workers : wpc[w] = "stopped"
        /\ \A p \in Pools : ready[p] = <<>>
        /\ lost' = ToSet(serverQue) /\ serverQue' = <<>> /\ del' = "done"
        /\ UNCHANGED <<poolOf, sent, answer, jobId, jobList, ready, sem, spc, scur, running, wpc, cur, terminate>>
    BY DEF DeleteQueue, given, jobVars, poolVars, serverVars, workerVars
  <1>2. /\ scur = NoMsg /\ lost = {} /\ spc = "stopped"
        /\ \A j \in DOMAIN jobList : jobList[j].empty
        /\ \A w \in Workers : cur[w] = NoMsg
    BY <1>1 DEF IInv, ThreadsOK, Deleting
  <1>3. /\ Taken' = Len(sent) /\ Taken \in 0..Len(sent) /\ Len(sent) \in Nat
        /\ ToSet(serverQue) = (Taken + 1)..Len(sent) /\ 1..Len(sent) \subseteq Numbers
        /\ NoMsg \notin 1..Len(sent)
    BY <1>1, TakenOK, EmptyQueue DEF Taken, NoMsg
  <1>4. \A p : InBand(p)' <=> InBand(p)
    BY <1>1 DEF InBand
  <1>5. \A k \in 1..Len(sent) :
          /\ JobOf(k)' = JobOf(k)
          /\ ~InJob(k) /\ ~InReady(k) /\ ~AtWorker(k) /\ ~Working(k)
          /\ ~InJob(k)' /\ ~InReady(k)' /\ ~AtWorker(k)' /\ ~Working(k)'
    <2>1. \A j \in DOMAIN jobList : jobList[j].msgQue = <<>>
      BY <1>2 DEF IInv, OneForward
    <2> QED BY <1>1, <1>2, <1>3, <2>1, EmptyQueue DEF JobOf, InJob, InReady, AtWorker, Working
  <1>6. TypeOK'
    <2>1. <<>> \in Seq(Numbers) /\ lost' \subseteq Numbers
      BY <1>1, <1>3
    <2> QED BY <1>1, <2>1 DEF IInv, TypeOK
  <1>7. QueuesOK'
    <2>1. QueueOK'
      BY <1>1, <1>3, EmptyQueue DEF QueueOK
    <2>2. ReadyOK'
      BY <1>1, EmptyQueue DEF ReadyOK
    <2>3. JobsOK'
      BY <1>1, <1>2, EmptyQueue DEF IInv, JobsOK, OneForward
    <2> QED BY <2>1, <2>2, <2>3 DEF QueuesOK
  <1>8. ThreadsOK'
    BY <1>1, <1>2 DEF IInv, ThreadsOK
  <1>9. InOnePlace'
    BY <1>1, <1>2, <1>3, <1>5 DEF InOnePlace
  <1>10. Answered'
    <2>1. \A k \in 1..Len(sent) : answer[k] = "none" <=> k \in (Taken + 1)..Len(sent)
      BY <1>2, <1>3, <1>5 DEF IInv, Answered
    <2> QED BY <1>1, <1>2, <1>3, <1>5, <2>1 DEF IInv, Answered, Numbers
  <1>11. OneForward'
    BY <1>1, <1>2, <1>3, <1>5 DEF IInv, OneForward, Forward
  <1>12. IdsKnown' /\ Counted' /\ Deleting'
    BY <1>1, <1>2, <1>3 DEF IInv, IdsKnown, Counted, Deleting, JobOf
  <1> QED BY <1>6, <1>7, <1>8, <1>9, <1>10, <1>11, <1>12 DEF IInv

\* So does a step that changes nothing.
LEMMA StutterStep ==
  ASSUME IInv, UNCHANGED vars
  PROVE  IInv'
  <1>1. Taken' = Taken /\ \A p : InBand(p)' <=> InBand(p)
    BY DEF vars, Taken, InBand
  <1>2. ASSUME NEW n \in 1..Taken
        PROVE  /\ sent'[n] = sent[n] /\ JobOf(n)' = JobOf(n)
               /\ InJob(n)' <=> InJob(n)
               /\ InReady(n)' <=> InReady(n)
               /\ AtWorker(n)' <=> AtWorker(n)
               /\ Working(n)' <=> Working(n)
    <2>1. sent'[n] = sent[n] /\ JobOf(n)' = JobOf(n)
      BY DEF vars, JobOf
    <2>2. InJob(n)' <=> InJob(n)
      BY <2>1 DEF vars, InJob
    <2>3. InReady(n)' <=> InReady(n)
      BY DEF vars, InReady
    <2>4. (AtWorker(n)' <=> AtWorker(n)) /\ (Working(n)' <=> Working(n))
      BY DEF vars, AtWorker, Working
    <2> QED BY <2>1, <2>2, <2>3, <2>4
  <1>3. PlacesKept
    BY <1>1, <1>2 DEF PlacesKept
  <1>4. jobList' = jobList /\ ready' = ready /\ scur' = scur
    BY DEF vars
  <1>5. OneForward' /\ InOnePlace' /\ JobsOK' /\ ReadyOK'
    BY <1>1, <1>3, <1>4, KeptPlaces
  <1>6. TypeOK'
    BY DEF vars, IInv, TypeOK
  <1>7. QueueOK'
    BY <1>1 DEF vars, IInv, QueuesOK, QueueOK
  <1>8. ThreadsOK'
    BY <1>1 DEF vars, IInv, ThreadsOK, JobOf
  <1>9. Answered'
    BY <1>1, <1>3 DEF vars, IInv, Answered, PlacesKept
  <1>10. IdsKnown'
    BY DEF vars, IInv, IdsKnown, JobOf
  <1>11. Counted'
    BY DEF vars, IInv, Counted
  <1>12. Deleting'
    BY <1>1 DEF vars, IInv, Deleting
  <1> QED BY <1>5, <1>6, <1>7, <1>8, <1>9, <1>10, <1>11, <1>12 DEF IInv, QueuesOK

\* Every step keeps the invariant.
LEMMA InvStep ==
  ASSUME IInv, [Next]_vars
  PROVE  IInv'
  <1>1. CASE Send
    BY <1>1, SendStep
  <1>2. CASE ServerThread
    BY <1>2, GetStep, UnblockedStep, ProcessInBandStep, DispatchFailsStep, DispatchDiscreteStep,
       DispatchJobStep DEF ServerThread
  <1>3. CASE Delete
    BY <1>3, DeleteStep
  <1>4. CASE Finalize
    BY <1>4, JoinedStep, DeleteQueueStep, TerminatePoolStep, EmptyPoolStep DEF Finalize
  <1>5. ASSUME NEW w \in Workers, Worker(w) PROVE IInv'
    BY <1>5, TakeReadyStep, TerminateStep, ProcessStep, NextOfJobStep DEF Worker
  <1>6. CASE UNCHANGED vars
    BY <1>6, StutterStep
  <1> QED BY <1>1, <1>2, <1>3, <1>4, <1>5, <1>6 DEF Next

-----------------------------------------------------------------------------
(* The theorems.                                                           *)

\* The invariant holds in every state.
LEMMA Invariant == Spec => []IInv
  BY InvInit, InvStep, PTL DEF Spec

\* The variables keep their types: ids, messages and answers of the server, its threads and
\* its queues.
THEOREM JobsTypeOK == Spec => []TypeOK
  <1>1. IInv => TypeOK
    BY DEF IInv
  <1> QED BY <1>1, Invariant, PTL

\* A message of a job is processed when every earlier one of the job was answered: an earlier
\* one without an answer would be brought forward itself, or wait on the queue of the job
\* although it is older than the one that was brought forward.
LEMMA InSequence == IInv => JobsInSequence
  <1> SUFFICES ASSUME IInv, NEW n \in 1..Len(sent), InProcess(n), Sequenced(n),
                      NEW k \in 1..(n - 1), Sequenced(k), JobOf(k) = JobOf(n)
               PROVE  answer[k] # "none"
    BY DEF JobsInSequence
  <1>1. n # NoMsg /\ n \in Nat /\ k \in Nat /\ k < n
    BY TakenOK DEF NoMsg
  <1>2. PICK w \in Workers : wpc[w] = "process" /\ cur[w] = n
    BY DEF InProcess, Sequenced, IInv, ThreadsOK
  <1>3. n \in 1..Taken /\ Forward(n) /\ n # scur /\ lost = {}
    BY <1>2, CurAlone DEF Forward
  <1>4. k \in 1..Taken /\ k # NoMsg
    BY <1>1, <1>3, TakenOK DEF NoMsg
  <1>5. ~Forward(k) /\ ~InJob(k)
    BY <1>1, <1>3, <1>4 DEF IInv, OneForward, Sequenced
  <1>6. k # scur
    BY <1>1, <1>3, <1>4, TakenOK DEF IInv, ThreadsOK
  <1>7. ~InReady(k) /\ ~Working(k)
    BY <1>5 DEF Forward, AtWorker, Working
  <1> QED BY <1>3, <1>4, <1>5, <1>6, <1>7 DEF IInv, Answered

\* The messages of a job are processed in sequence.
THEOREM JobsRunInSequence == Spec => []JobsInSequence
  BY InSequence, Invariant, PTL

\* A message has no answer exactly as long as a queue or a thread has it, and a job that is
\* not empty has a message that brings the next one forward.
LEMMA Held == IInv => NoneStranded
  <1> SUFFICES ASSUME IInv PROVE NoneStranded
    OBVIOUS
  <1> DEFINE R == UNION {ToSet(ready[p]) : p \in Pools}
             T == {n \in Numbers : (spc \in {"process", "dispatch"} /\ scur = n)
                                   \/ \E w \in Workers : wpc[w] = "process" /\ cur[w] = n}
  <1>1. \A k : k \in AtWork <=> k \in R \/ k \in T
    BY DEF AtWork
  <1>2. \A k : k \in R => k \in 1..Taken
    BY DEF IInv, QueuesOK, ReadyOK
  <1>3. \A k \in 1..Taken : k \in R <=> InReady(k)
    BY DEF IInv, QueuesOK, ReadyOK, InReady
  <1>4. \A k : k \in T => k \in 1..Taken
    BY TakenOK DEF IInv, ThreadsOK
  <1>5. \A k \in 1..Taken : k \in T <=> k = scur \/ Working(k)
    BY TakenOK DEF IInv, ThreadsOK, Working
  <1> HIDE DEF R, T
  <1>6. ASSUME NEW n \in 1..Len(sent)
        PROVE  answer[n] = "none" <=> n \in ToSet(serverQue) \cup Waiting \cup AtWork \cup lost
    <2>1. CASE n \in 1..Taken
      <3>1. n \notin ToSet(serverQue)
        BY <2>1, TakenOK
      <3>2. answer[n] = "none" <=>
              n \in lost \/ n = scur \/ InJob(n) \/ InReady(n) \/ Working(n)
        BY <2>1 DEF IInv, Answered
      <3> QED BY <1>1, <1>3, <1>5, <2>1, <3>1, <3>2, WaitingOK
    <2>2. CASE n \notin 1..Taken
      <3>1. n \in ToSet(serverQue) /\ n > Taken /\ n \in Numbers
        BY <2>2, TakenOK
      <3> QED BY <3>1 DEF IInv, Answered
    <2> QED BY <2>1, <2>2
  <1>7. ASSUME NEW j \in DOMAIN jobList, ~jobList[j].empty
        PROVE  \/ \E n \in AtWork : JobOf(n) = j
               \/ \E w \in Workers : wpc[w] = "next" /\ JobOf(cur[w]) = j
    <2>1. PICK n \in 1..Taken : JobOf(n) = j /\ Forward(n)
      BY <1>7 DEF IInv, OneForward
    <2>2. CASE InReady(n)
      BY <1>1, <1>3, <2>1, <2>2
    <2>3. CASE AtWorker(n)
      <3>1. PICK w \in Workers : cur[w] = n
        BY <2>3 DEF AtWorker
      <3>2. n # NoMsg
        BY TakenOK
      <3>3. wpc[w] \in {"process", "next"}
        BY <3>1, <3>2 DEF IInv, ThreadsOK
      <3>4. wpc[w] = "process" => n \in AtWork
        BY <1>1, <1>5, <2>1, <3>1 DEF Working
      <3> QED BY <2>1, <3>1, <3>3, <3>4
    <2> QED BY <2>1, <2>2, <2>3 DEF Forward
  <1> QED BY <1>6, <1>7 DEF NoneStranded

\* No message is stranded, and none is answered twice.
THEOREM NoMessageStranded == Spec => []NoneStranded
  BY Held, Invariant, PTL
===============================================================================
