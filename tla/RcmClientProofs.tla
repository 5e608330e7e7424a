---------------------------- MODULE RcmClientProofs ---------------------------
(***************************************************************************)
(* Proofs about RcmClient, for any number of threads and of message        *)
(* numbers: there is one mailman at a time and always a next one, and      *)
(* getReturnMsg implements the reply box, its fairness aside.              *)
(***************************************************************************)
EXTENDS RcmClient, SequenceTheorems, WellFoundedInduction, TLAPS

-----------------------------------------------------------------------------
(* The inductive invariant.  The first part is about the locks, the lists  *)
(* and who the mailman is; MailmanFollows follows with it.                 *)

Sorting(t) == pc[t] \in {"sort", "block", "relock"}

Injective(q) == \A i, j \in 1..Len(q) : q[i] = q[j] => i = j

\* One thread at a time empties the queue, and has the mailbox while it sorts; what
\* it took from the queue is in its hand.
OneMailman ==
  /\ \A t \in Threads : Sorting(t) => ~queueLock
  /\ \A t, u \in Threads : Sorting(t) /\ Sorting(u) => t = u
  /\ \A t \in Threads : pc[t] = "sort" => ~mbxLock
  /\ \A t \in Threads :
       /\ hand[t] # None => pc[t] \in {"sort", "relock"}
       /\ pc[t] = "relock" => hand[t] # None

\* The list holds the waiting threads, once each.  One that was given its reply was
\* woken, and none waits for what is in the list of new mail.
ListOK ==
  /\ Injective(recipients)
  /\ \A t \in Threads : Contains(recipients, t) <=> pc[t] = "wait"
  /\ \A t \in Threads :
       /\ mail[t] # None => pc[t] = "wait" /\ event[t] /\ mail[t] = want[t]
       /\ event[t] => pc[t] = "wait"
       /\ pc[t] = "wait" => ~Contains(newMail, want[t])

CallsOK ==
  \A t \in Threads :
    /\ want[t] = None <=> pc[t] = "idle"
    /\ call[t] = None <=> pc[t] # "put"

Mailbox == TypeOK /\ OneMailman /\ ListOK /\ CallsOK /\ MailmanFollows

-----------------------------------------------------------------------------
(* The second part is about the numbers of messages.                       *)

\* A number is wanted or to be awaited by one thread, for one message.
NumbersApart ==
  \A t, u \in Threads :
    /\ want[t] = want[u] /\ want[t] # None => t = u
    /\ want[t] \notin pending[u]
    /\ pending[t] \cap pending[u] # {} => t = u

AtServer(i) == \E m \in server : m.id = i
InHand(i) == \E t \in Threads : hand[t] = i
Mailed(i) == \E t \in Threads : mail[t] = i
Replied(i) == Contains(msgQue, i) \/ InHand(i) \/ Contains(newMail, i) \/ Mailed(i)

\* A message, and then its reply, is in one place on its way.
RepliesOnce ==
  /\ \A m, n \in server : m.id = n.id => m = n
  /\ Injective(msgQue) /\ Injective(newMail)
  /\ \A i \in MsgIds :
       /\ AtServer(i) => ~Replied(i)
       /\ Contains(msgQue, i) => ~InHand(i) /\ ~Contains(newMail, i) /\ ~Mailed(i)
       /\ InHand(i) => ~Contains(newMail, i) /\ ~Mailed(i)
       /\ Contains(newMail, i) => ~Mailed(i)

Wanted(i) == \E t \in Threads : (Asking(t) /\ want[t] = i) \/ i \in pending[t]

\* There is a thread for every reply; one that has yet to send has none.
RepliesWanted ==
  /\ \A i \in MsgIds : Replied(i) => Wanted(i)
  /\ \A m \in server : m.replyTo = "msgQue" => Wanted(m.id)
  /\ \A t \in Threads : pc[t] = "put" => ~AtServer(want[t]) /\ ~Replied(want[t])

IInv == Mailbox /\ NumbersApart /\ RepliesOnce /\ RepliesWanted

-----------------------------------------------------------------------------
(* Sequences: what is in them after a step, and that it is there once.     *)

\* Every set of natural numbers but the empty one has a least element.
LEMMA Least ==
  ASSUME NEW I \in SUBSET Nat, I # {}
  PROVE  \E x \in I : \A y \in I : x <= y
  <1>1. IsWellFoundedOn(OpToRel(<, Nat), Nat)
    BY NatLessThanWellFounded
  <1>2. PICK x \in I : \A y \in I : ~ (<<y, x>> \in OpToRel(<, Nat))
    BY <1>1, WFMin
  <1>3. \A y \in I : ~(y < x)
    BY <1>2 DEF OpToRel
  <1> QED BY <1>3

\* Min of such a set is in it.
LEMMA MinOf ==
  ASSUME NEW I \in SUBSET Nat, I # {}
  PROVE  Min(I) \in I /\ \A y \in I : Min(I) <= y
  BY Least DEF Min

\* Append adds its element and keeps the others; they stay different from each other
\* if it was not among them.
LEMMA Appended ==
  ASSUME NEW S, NEW q \in Seq(S), NEW e \in S
  PROVE  /\ Append(q, e) \in Seq(S)
         /\ \A x : Contains(Append(q, e), x) <=> Contains(q, x) \/ x = e
         /\ Injective(q) /\ ~Contains(q, e) => Injective(Append(q, e))
  <1>1. /\ Append(q, e) \in Seq(S) /\ Len(Append(q, e)) = Len(q) + 1
        /\ \A i \in 1..Len(q) : Append(q, e)[i] = q[i]
        /\ Append(q, e)[Len(q) + 1] = e /\ Len(q) \in Nat
    BY AppendProperties, LenProperties
  <1>2. ASSUME NEW x PROVE Contains(Append(q, e), x) <=> Contains(q, x) \/ x = e
    <2>1. 1..(Len(q) + 1) = (1..Len(q)) \cup {Len(q) + 1}
      BY <1>1
    <2> QED BY <1>1, <2>1 DEF Contains
  <1> QED BY <1>1, <1>2 DEF Contains, Injective

\* Tail loses the head and nothing else, if the head is in it once.
LEMMA Tailed ==
  ASSUME NEW S, NEW q \in Seq(S), q # <<>>, Injective(q)
  PROVE  /\ Head(q) \in S /\ Tail(q) \in Seq(S) /\ Contains(q, Head(q))
         /\ \A x : Contains(Tail(q), x) <=> Contains(q, x) /\ x # Head(q)
         /\ Injective(Tail(q))
  <1>1. /\ Head(q) \in S /\ Tail(q) \in Seq(S) /\ Len(q) \in Nat /\ Len(q) > 0
        /\ Head(q) = q[1]
        /\ Len(Tail(q)) = Len(q) - 1
        /\ \A i \in 1..(Len(q) - 1) : Tail(q)[i] = q[i + 1]
    BY HeadTailProperties, LenProperties, EmptySeq
  <1>2. ASSUME NEW x PROVE Contains(Tail(q), x) <=> Contains(q, x) /\ x # Head(q)
    <2>1. ASSUME Contains(Tail(q), x) PROVE Contains(q, x) /\ x # Head(q)
      BY <1>1, <2>1 DEF Contains, Injective
    <2>2. ASSUME Contains(q, x), x # Head(q) PROVE Contains(Tail(q), x)
      <3>1. PICK i \in 1..Len(q) : q[i] = x
        BY <2>2 DEF Contains
      <3>2. i - 1 \in 1..(Len(q) - 1) /\ Tail(q)[i - 1] = x
        BY <1>1, <2>2, <3>1
      <3> QED BY <1>1, <3>2 DEF Contains
    <2> QED BY <2>1, <2>2
  <1> QED BY <1>1, <1>2 DEF Contains, Injective

\* RemoveFirst loses its element and nothing else, if it is there once.
LEMMA Removed ==
  ASSUME NEW S, NEW q \in Seq(S), Injective(q), NEW e, Contains(q, e)
  PROVE  /\ RemoveFirst(q, e) \in Seq(S)
         /\ \A x : Contains(RemoveFirst(q, e), x) <=> Contains(q, x) /\ x # e
         /\ Injective(RemoveFirst(q, e))
  <1>1. PICK k \in 1..Len(q) : q[k] = e
    BY DEF Contains
  <1>2. {i \in 1..Len(q) : q[i] = e} = {k}
    BY <1>1 DEF Injective
  <1>3. Min({k}) = k
    BY DEF Min
  <1> DEFINE a == SubSeq(q, 1, k - 1)
             b == SubSeq(q, k + 1, Len(q))
  <1>4. RemoveFirst(q, e) = a \o b
    BY <1>1, <1>2, <1>3 DEF RemoveFirst, RemoveAt, SelectInSeq
  <1>5. Len(q) \in Nat /\ \A i \in 1..Len(q) : q[i] \in S
    BY LenProperties, ElementOfSeq
  <1>6. /\ a \in Seq(S) /\ Len(a) = k - 1
        /\ \A i \in 1..(k - 1) : a[i] = q[i]
    BY <1>5, SubSeqProperties
  <1>7. /\ b \in Seq(S) /\ Len(b) = Len(q) - k
        /\ \A i \in 1..(Len(q) - k) : b[i] = q[k + i]
    BY <1>5, SubSeqProperties
  <1> DEFINE c == a \o b
  <1>8. /\ c \in Seq(S) /\ Len(c) = Len(q) - 1
        /\ \A i \in 1..(Len(q) - 1) : c[i] = IF i < k THEN q[i] ELSE q[i + 1]
    <2> HIDE DEF a, b
    <2>1. /\ c \in Seq(S) /\ Len(c) = Len(a) + Len(b)
          /\ \A i \in 1..(Len(a) + Len(b)) :
               c[i] = IF i <= Len(a) THEN a[i] ELSE b[i - Len(a)]
      BY <1>6, <1>7, ConcatProperties
    <2>2. Len(a) + Len(b) = Len(q) - 1
      BY <1>5, <1>6, <1>7
    <2>3. ASSUME NEW i \in 1..(Len(q) - 1)
          PROVE  c[i] = IF i < k THEN q[i] ELSE q[i + 1]
      <3> HIDE DEF c
      <3>1. CASE i < k
        BY <1>5, <1>6, <2>1, <2>2, <3>1
      <3>2. CASE i >= k
        <4>1. i - (k - 1) \in 1..(Len(q) - k) /\ c[i] = b[i - (k - 1)]
          BY <1>5, <1>6, <2>1, <2>2, <3>2
        <4>2. b[i - (k - 1)] = q[k + (i - (k - 1))] /\ k + (i - (k - 1)) = i + 1
          BY <1>7, <4>1
        <4> QED BY <3>2, <4>1, <4>2
      <3> QED BY <1>5, <3>1, <3>2
    <2> QED BY <2>1, <2>2, <2>3
  <1> HIDE DEF a, b, c
  <1>9. ASSUME NEW x PROVE Contains(c, x) <=> Contains(q, x) /\ x # e
    <2>1. ASSUME Contains(c, x) PROVE Contains(q, x) /\ x # e
      BY <1>1, <1>5, <1>8, <2>1 DEF Contains, Injective
    <2>2. ASSUME Contains(q, x), x # e PROVE Contains(c, x)
      <3>1. PICK i \in 1..Len(q) : q[i] = x
        BY <2>2 DEF Contains
      <3>2. CASE i < k
        BY <1>5, <1>8, <3>1, <3>2 DEF Contains
      <3>3. CASE i > k
        <4>1. i - 1 \in 1..(Len(q) - 1) /\ c[i - 1] = x
          BY <1>5, <1>8, <3>1, <3>3
        <4> QED BY <1>8, <4>1 DEF Contains
      <3> QED BY <1>1, <2>2, <3>1, <3>2, <3>3
    <2> QED BY <2>1, <2>2
  <1>10. ASSUME NEW i \in 1..Len(c), NEW j \in 1..Len(c), c[i] = c[j] PROVE i = j
    <2> DEFINE from(n) == IF n < k THEN n ELSE n + 1
    <2>1. from(i) \in 1..Len(q) /\ from(j) \in 1..Len(q)
      BY <1>5, <1>8
    <2>2. q[from(i)] = q[from(j)]
      BY <1>5, <1>8, <1>10
    <2>3. from(i) = from(j)
      BY <2>1, <2>2 DEF Injective
    <2> QED BY <1>5, <1>8, <2>3
  <1> QED BY <1>4, <1>8, <1>9, <1>10 DEF c, Injective

\* FirstUnserved is 0 only if every thread of the list was given its reply.
LEMMA Unserved ==
  ASSUME recipients \in Seq(Threads)
  PROVE  \/ FirstUnserved = 0 /\ \A u : Contains(recipients, u) => mail[u] # None
         \/ /\ FirstUnserved \in 1..Len(recipients)
            /\ recipients[FirstUnserved] \in Threads
            /\ mail[recipients[FirstUnserved]] = None
  <1> DEFINE I == {i \in 1..Len(recipients) : mail[recipients[i]] = None}
  <1>1. FirstUnserved = IF I # {} THEN Min(I) ELSE 0
    BY ONLY DEF FirstUnserved, SelectInSeq
  <1>2. \A i \in 1..Len(recipients) : recipients[i] \in Threads
    BY ElementOfSeq
  <1>3. CASE I = {}
    BY <1>1, <1>3 DEF Contains
  <1>4. CASE I # {}
    <2>1. I \in SUBSET Nat
      OBVIOUS
    <2>2. FirstUnserved \in I
      <3> HIDE DEF I
      <3> QED BY <1>1, <1>4, <2>1, MinOf
    <2> QED BY <1>2, <2>2
  <1> QED BY <1>3, <1>4

-----------------------------------------------------------------------------
(* The invariant holds at first, and each action keeps it.                 *)

\* What a step does to the replies that have not been collected.
RepliesKept == \A i \in MsgIds : Replied(i)' <=> Replied(i)
RepliesMore(r) == \A i \in MsgIds : Replied(i)' <=> Replied(i) \/ i = r
RepliesLess(r) == \A i \in MsgIds : Replied(i)' <=> Replied(i) /\ i # r

\* None is not the number of a message.
LEMMA NoneApart == None \notin MsgIds
  BY ConstantsAssumption DEF MsgIds

\* There is nothing in an empty sequence.
LEMMA Empty == Injective(<<>>) /\ \A x : ~Contains(<<>>, x)
  BY DEF Injective, Contains

\* At first everybody is idle and there are no messages.
LEMMA InvInit == Init => IInv
  <1> SUFFICES ASSUME Init PROVE IInv
    OBVIOUS
  <1>1. TypeOK
    BY ConstantsAssumption DEF Init, TypeOK, MsgIds, Calls
  <1>2. OneMailman /\ ListOK /\ CallsOK /\ MailmanFollows
    BY Empty DEF Init, OneMailman, Sorting, ListOK, CallsOK, MailmanFollows
  <1>3. NumbersApart
    BY DEF Init, NumbersApart
  <1>4. RepliesOnce /\ RepliesWanted
    BY Empty, NoneApart DEF Init, RepliesOnce, RepliesWanted, AtServer, Replied, InHand, Mailed
  <1> QED BY <1>1, <1>2, <1>3, <1>4 DEF IInv, Mailbox

\* A free number: nobody wants it and no message or reply has it.
LEMMA AllocStep ==
  ASSUME IInv, NEW t \in Threads, NEW c \in {"exec", "noWait", "cmd"}, alloc(t, c)
  PROVE  IInv' /\ RepliesKept
  <1> USE NoneApart DEF IInv, Mailbox
  <1>1. genMsgId \in MsgIds
    BY ConstantsAssumption DEF TypeOK, genMsgId, MsgIds
  <1>2. /\ \A u \in Threads : want[u] # genMsgId /\ genMsgId \notin pending[u]
        /\ ~AtServer(genMsgId)
    BY DEF alloc, NumberIsFree, InUse, AtServer
  <1>3. ~Replied(genMsgId)
    BY <1>1, <1>2 DEF RepliesWanted, Wanted
  <1>4. TypeOK'
    BY <1>1 DEF TypeOK, alloc, Goto, mailVars, Calls
  <1>5. OneMailman'
    BY <1>1, <1>2, <1>3 DEF TypeOK, OneMailman, Sorting, alloc, Goto, mailVars, Calls
  <1>6. ListOK'
    BY <1>1, <1>2, <1>3 DEF TypeOK, OneMailman, ListOK, Sorting, alloc, Goto, mailVars, Calls
  <1>7. CallsOK'
    BY <1>1, <1>2, ConstantsAssumption DEF TypeOK, CallsOK, alloc, Goto, mailVars
  <1>8. MailmanFollows'
    BY <1>1, <1>2, <1>3 DEF TypeOK, OneMailman, ListOK, MailmanFollows, Sorting, alloc, Goto, mailVars, Calls
  <1>9. NumbersApart'
    BY <1>1, <1>2, <1>3 DEF TypeOK, CallsOK, NumbersApart, alloc, Goto, mailVars, Calls
  <1>10. RepliesOnce'
    BY <1>1, <1>2, <1>3 DEF TypeOK, OneMailman, ListOK, CallsOK, NumbersApart, RepliesOnce, RepliesWanted, Sorting, Asking, AtServer, Replied, InHand, Mailed, alloc, Goto, mailVars, Calls
  <1>11. RepliesKept
    BY <1>1, <1>2, <1>3 DEF TypeOK, OneMailman, ListOK, NumbersApart, RepliesOnce, Sorting, Replied, InHand, Mailed, RepliesKept, alloc, Goto, mailVars, Calls
  <1>12. RepliesWanted'
    <2>1. \A i \in MsgIds : Wanted(i) => Wanted(i)'
      BY <1>1, <1>2, <1>3 DEF TypeOK, CallsOK, Wanted, Asking, alloc, Goto, mailVars, Calls
    <2>2. \A i \in MsgIds : Replied(i)' => Wanted(i)'
      BY <1>1, <1>2, <1>3, <1>11, <2>1 DEF RepliesWanted, RepliesKept
    <2>3. \A m \in server' : m.replyTo = "msgQue" => Wanted(m.id)'
      BY <1>1, <1>2, <1>3, <2>1 DEF TypeOK, Messages, RepliesWanted, AtServer, alloc, Goto, mailVars, Calls
    <2>4. \A u \in Threads : pc'[u] = "put" => ~AtServer(want[u])' /\ ~Replied(want[u])'
      BY <1>1, <1>2, <1>3, <1>11 DEF TypeOK, CallsOK, NumbersApart, RepliesWanted, AtServer, RepliesKept, alloc, Goto, mailVars, Calls
    <2> QED BY <2>2, <2>3, <2>4 DEF RepliesWanted
  <1> QED BY <1>4, <1>5, <1>6, <1>7, <1>8, <1>9, <1>10, <1>11, <1>12

\* The message of a thread goes to the server, where none had its number.
LEMMA PutStep ==
  ASSUME IInv, NEW t \in Threads, Put(t)
  PROVE  IInv' /\ RepliesKept
  <1> USE NoneApart DEF IInv, Mailbox
  <1>1. want[t] \in MsgIds /\ call[t] \in {"exec", "noWait", "cmd"}
    BY DEF Put, TypeOK, CallsOK, Calls
  <1>2. ~AtServer(want[t]) /\ ~Replied(want[t])
    BY DEF Put, RepliesWanted
  <1>3. /\ pc' = [pc EXCEPT ![t] = IF call[t] = "exec" THEN "mbx" ELSE "idle"]
        /\ want' = [want EXCEPT ![t] = IF call[t] = "exec" THEN @ ELSE None]
        /\ pending' = [pending EXCEPT ![t] = IF call[t] = "noWait" THEN @ \cup {want[t]} ELSE @]
    BY <1>1 DEF Put, Goto, Return, TypeOK
  <1>4. PICK m \in Messages :
          /\ server' = server \cup {m} /\ m.id = want[t]
          /\ m.replyTo = "msgQue" => call[t] \in {"exec", "noWait"}
    <2> DEFINE n == [id |-> want[t], replyTo |-> IF call[t] = "cmd" THEN "errorMsgQue" ELSE "msgQue"]
    <2>1. n \in Messages /\ n.id = want[t] /\ (n.replyTo = "msgQue" => call[t] # "cmd")
      BY <1>1 DEF Messages
    <2>2. server' = server \cup {n}
      BY DEF Put
    <2> QED BY <1>1, <2>1, <2>2
  <1>5. UNCHANGED <<mailVars, msgId, msgQue>>
    BY DEF Put
  <1>6. call[t] # "cmd" => \A i \in MsgIds : i = want[t] => Wanted(i)'
    BY <1>1, <1>3 DEF Wanted, Asking, TypeOK
  <1>7. TypeOK'
    BY <1>1, <1>3, <1>4 DEF TypeOK, Put, Calls, mailVars
  <1>8. OneMailman'
    BY <1>1, <1>2, <1>3, <1>4, <1>5, <1>6 DEF TypeOK, OneMailman, Sorting, Put, Goto, Return, mailVars, Calls
  <1>9. ListOK'
    BY <1>1, <1>2, <1>3, <1>4, <1>5, <1>6 DEF TypeOK, OneMailman, ListOK, Sorting, Put, Goto, Return, mailVars, Calls
  <1>10. CallsOK'
    BY <1>1, <1>2, <1>3, <1>4, <1>5, <1>6 DEF TypeOK, CallsOK, Put, Goto, Return, mailVars, Calls
  <1>11. MailmanFollows'
    BY <1>1, <1>2, <1>3, <1>4, <1>5, <1>6 DEF TypeOK, OneMailman, ListOK, MailmanFollows, Sorting, Put, Goto, Return, mailVars, Calls
  <1>12. NumbersApart'
    BY <1>1, <1>2, <1>3, <1>4, <1>5, <1>6 DEF TypeOK, CallsOK, NumbersApart, Put, Goto, Return, mailVars, Calls
  <1>13. RepliesOnce'
    BY <1>2, <1>4, <1>5 DEF RepliesOnce, AtServer, Replied, InHand, Mailed, mailVars
  <1>14. RepliesKept
    BY <1>1, <1>2, <1>3, <1>4, <1>5, <1>6 DEF TypeOK, OneMailman, ListOK, NumbersApart, RepliesOnce, Sorting, Replied, InHand, Mailed, RepliesKept, Put, Goto, Return, mailVars, Calls
  <1>15. RepliesWanted'
    <2>1. \A i \in MsgIds : Wanted(i) => Wanted(i)'
      BY <1>1, <1>2, <1>3, <1>4, <1>5, <1>6 DEF TypeOK, CallsOK, Wanted, Asking, Put, Goto, Return, mailVars, Calls
    <2>2. \A i \in MsgIds : Replied(i)' => Wanted(i)'
      BY <1>1, <1>2, <1>3, <1>4, <1>5, <1>6, <1>14, <2>1 DEF RepliesWanted, RepliesKept
    <2>3. \A n \in server' : n.replyTo = "msgQue" => Wanted(n.id)'
      BY <1>1, <1>2, <1>3, <1>4, <1>5, <1>6, <2>1 DEF TypeOK, Messages, RepliesWanted, AtServer, Calls
    <2>4. \A u \in Threads : pc'[u] = "put" => ~AtServer(want[u])' /\ ~Replied(want[u])'
      BY <1>1, <1>2, <1>3, <1>4, <1>5, <1>6, <1>14 DEF TypeOK, CallsOK, NumbersApart, RepliesWanted, AtServer, RepliesKept, Put, Goto, Return, mailVars, Calls
    <2> QED BY <2>2, <2>3, <2>4 DEF RepliesWanted
  <1> QED BY <1>7, <1>8, <1>9, <1>10, <1>11, <1>12, <1>13, <1>14, <1>15

\* The number of a message that was not sent is free again.
LEMMA PutFailsStep ==
  ASSUME IInv, NEW t \in Threads, PutFails(t)
  PROVE  IInv' /\ RepliesKept
  <1> USE NoneApart DEF IInv, Mailbox
  <1>1. TypeOK'
    BY DEF TypeOK, CallsOK, PutFails, Goto, Return, mailVars, Calls
  <1>2. OneMailman'
    BY DEF TypeOK, OneMailman, Sorting, PutFails, Goto, Return, mailVars, Calls
  <1>3. ListOK'
    BY DEF TypeOK, OneMailman, ListOK, Sorting, PutFails, Goto, Return, mailVars, Calls
  <1>4. CallsOK'
    BY DEF TypeOK, CallsOK, PutFails, Goto, Return, mailVars, Calls
  <1>5. MailmanFollows'
    BY DEF TypeOK, OneMailman, ListOK, MailmanFollows, Sorting, PutFails, Goto, Return, mailVars, Calls
  <1>6. NumbersApart'
    BY DEF TypeOK, CallsOK, NumbersApart, PutFails, Goto, Return, mailVars, Calls
  <1>7. RepliesOnce'
    BY DEF TypeOK, OneMailman, ListOK, CallsOK, NumbersApart, RepliesOnce, RepliesWanted, Sorting, Asking, AtServer, Replied, InHand, Mailed, PutFails, Goto, Return, mailVars, Calls
  <1>8. RepliesKept
    BY DEF TypeOK, OneMailman, ListOK, NumbersApart, RepliesOnce, Sorting, Replied, InHand, Mailed, RepliesKept, PutFails, Goto, Return, mailVars, Calls
  <1>9. RepliesWanted'
    <2>1. \A i \in MsgIds : Wanted(i) => Wanted(i)'
      BY DEF TypeOK, CallsOK, Wanted, Asking, PutFails, Goto, Return, mailVars, Calls
    <2>2. \A i \in MsgIds : Replied(i)' => Wanted(i)'
      BY <1>8, <2>1 DEF RepliesWanted, RepliesKept
    <2>3. \A m \in server' : m.replyTo = "msgQue" => Wanted(m.id)'
      BY <2>1 DEF TypeOK, Messages, RepliesWanted, AtServer, PutFails, Goto, Return, mailVars, Calls
    <2>4. \A u \in Threads : pc'[u] = "put" => ~AtServer(want[u])' /\ ~Replied(want[u])'
      BY <1>8 DEF TypeOK, CallsOK, NumbersApart, RepliesWanted, AtServer, RepliesKept, PutFails, Goto, Return, mailVars, Calls
    <2> QED BY <2>2, <2>3, <2>4 DEF RepliesWanted
  <1> QED BY <1>1, <1>2, <1>3, <1>4, <1>5, <1>6, <1>7, <1>8, <1>9

\* A message of execNoWait finds its thread waiting.
LEMMA WaitStep ==
  ASSUME IInv, NEW t \in Threads, waitUntilDone(t)
  PROVE  IInv' /\ RepliesKept
  <1> USE NoneApart DEF IInv, Mailbox
  <1>1. TypeOK'
    BY DEF TypeOK, CallsOK, waitUntilDone, Goto, mailVars
  <1>2. OneMailman'
    BY DEF TypeOK, OneMailman, Sorting, waitUntilDone, Goto, mailVars
  <1>3. ListOK'
    BY DEF TypeOK, OneMailman, ListOK, Sorting, waitUntilDone, Goto, mailVars
  <1>4. CallsOK'
    BY DEF TypeOK, CallsOK, waitUntilDone, Goto, mailVars
  <1>5. MailmanFollows'
    BY DEF TypeOK, OneMailman, ListOK, MailmanFollows, Sorting, waitUntilDone, Goto, mailVars
  <1>6. NumbersApart'
    BY DEF TypeOK, CallsOK, NumbersApart, waitUntilDone, Goto, mailVars
  <1>7. RepliesOnce'
    BY DEF TypeOK, OneMailman, ListOK, CallsOK, NumbersApart, RepliesOnce, RepliesWanted, Sorting, Asking, AtServer, Replied, InHand, Mailed, waitUntilDone, Goto, mailVars
  <1>8. RepliesKept
    BY DEF TypeOK, OneMailman, ListOK, NumbersApart, RepliesOnce, Sorting, Replied, InHand, Mailed, RepliesKept, waitUntilDone, Goto, mailVars
  <1>9. RepliesWanted'
    <2>1. \A i \in MsgIds : Wanted(i) => Wanted(i)'
      BY DEF TypeOK, CallsOK, Wanted, Asking, waitUntilDone, Goto, mailVars
    <2>2. \A i \in MsgIds : Replied(i)' => Wanted(i)'
      BY <1>8, <2>1 DEF RepliesWanted, RepliesKept
    <2>3. \A m \in server' : m.replyTo = "msgQue" => Wanted(m.id)'
      BY <2>1 DEF TypeOK, Messages, RepliesWanted, AtServer, waitUntilDone, Goto, mailVars
    <2>4. \A u \in Threads : pc'[u] = "put" => ~AtServer(want[u])' /\ ~Replied(want[u])'
      BY <1>8 DEF TypeOK, CallsOK, NumbersApart, RepliesWanted, AtServer, RepliesKept, waitUntilDone, Goto, mailVars
    <2> QED BY <2>2, <2>3, <2>4 DEF RepliesWanted
  <1> QED BY <1>1, <1>2, <1>3, <1>4, <1>5, <1>6, <1>7, <1>8, <1>9

\* Error replies are out of the way.
LEMMA ErrorStep ==
  ASSUME IInv, NEW t \in Threads, checkForError(t)
  PROVE  IInv' /\ RepliesKept
  <1> USE NoneApart DEF IInv, Mailbox
  <1>1. Tail(errorMsgQue) \in Seq(MsgIds)
    BY HeadTailProperties DEF TypeOK, checkForError
  <1>2. TypeOK'
    BY <1>1 DEF TypeOK, CallsOK, checkForError, mailVars
  <1>3. OneMailman'
    BY <1>1 DEF TypeOK, OneMailman, Sorting, checkForError, mailVars
  <1>4. ListOK'
    BY <1>1 DEF TypeOK, OneMailman, ListOK, Sorting, checkForError, mailVars
  <1>5. CallsOK'
    BY <1>1 DEF TypeOK, CallsOK, checkForError, mailVars
  <1>6. MailmanFollows'
    BY <1>1 DEF TypeOK, OneMailman, ListOK, MailmanFollows, Sorting, checkForError, mailVars
  <1>7. NumbersApart'
    BY <1>1 DEF TypeOK, CallsOK, NumbersApart, checkForError, mailVars
  <1>8. RepliesOnce'
    BY <1>1 DEF TypeOK, OneMailman, ListOK, CallsOK, NumbersApart, RepliesOnce, RepliesWanted, Sorting, Asking, AtServer, Replied, InHand, Mailed, checkForError, mailVars
  <1>9. RepliesKept
    BY <1>1 DEF TypeOK, OneMailman, ListOK, NumbersApart, RepliesOnce, Sorting, Replied, InHand, Mailed, RepliesKept, checkForError, mailVars
  <1>10. RepliesWanted'
    <2>1. \A i \in MsgIds : Wanted(i) => Wanted(i)'
      BY <1>1 DEF TypeOK, CallsOK, Wanted, Asking, checkForError, mailVars
    <2>2. \A i \in MsgIds : Replied(i)' => Wanted(i)'
      BY <1>1, <1>9, <2>1 DEF RepliesWanted, RepliesKept
    <2>3. \A m \in server' : m.replyTo = "msgQue" => Wanted(m.id)'
      BY <1>1, <2>1 DEF TypeOK, Messages, RepliesWanted, AtServer, checkForError, mailVars
    <2>4. \A u \in Threads : pc'[u] = "put" => ~AtServer(want[u])' /\ ~Replied(want[u])'
      BY <1>1, <1>9 DEF TypeOK, CallsOK, NumbersApart, RepliesWanted, AtServer, RepliesKept, checkForError, mailVars
    <2> QED BY <2>2, <2>3, <2>4 DEF RepliesWanted
  <1> QED BY <1>2, <1>3, <1>4, <1>5, <1>6, <1>7, <1>8, <1>9, <1>10

\* A reply leaves the server for the queue, where none has its number.
LEMMA AnswerStep ==
  ASSUME IInv, Answer
  PROVE  IInv' /\ (RepliesKept \/ \E r \in MsgIds : ~Replied(r) /\ RepliesMore(r))
  <1> USE NoneApart DEF IInv, Mailbox
  <1>1. PICK m \in server :
          /\ server' = server \ {m}
          /\ \/ m.replyTo = "msgQue" /\ msgQue' = Append(msgQue, m.id) /\ UNCHANGED errorMsgQue
             \/ /\ m.replyTo = "errorMsgQue" /\ UNCHANGED msgQue
                /\ errorMsgQue' \in {errorMsgQue, Append(errorMsgQue, m.id)}
          /\ UNCHANGED <<mailVars, msgId, pc, call, want, pending>>
    BY DEF Answer, TypeOK, Messages
  <1>2. m.id \in MsgIds /\ AtServer(m.id) /\ ~Replied(m.id)
    BY <1>1 DEF TypeOK, Messages, RepliesOnce, AtServer
  <1>3. /\ Append(errorMsgQue, m.id) \in Seq(MsgIds) /\ Append(msgQue, m.id) \in Seq(MsgIds)
        /\ Injective(Append(msgQue, m.id))
        /\ \A x : Contains(Append(msgQue, m.id), x) <=> Contains(msgQue, x) \/ x = m.id
    BY <1>2, Appended DEF TypeOK, RepliesOnce, Replied
  <1>4. errorMsgQue' \in Seq(MsgIds) /\ msgQue' \in Seq(MsgIds)
    BY <1>1, <1>3 DEF TypeOK
  <1>5. /\ Injective(msgQue')
        /\ \A x : Contains(msgQue', x) <=> Contains(msgQue, x) \/ (x = m.id /\ m.replyTo = "msgQue")
    BY <1>1, <1>3 DEF RepliesOnce
  <1>6. \A i \in MsgIds : Replied(i)' <=> Replied(i) \/ (i = m.id /\ m.replyTo = "msgQue")
    BY <1>1, <1>5 DEF Replied, InHand, Mailed, mailVars
  <1>7. TypeOK'
    BY <1>1, <1>2, <1>3, <1>4, <1>5, <1>6 DEF TypeOK, CallsOK, mailVars
  <1>8. OneMailman'
    BY <1>1, <1>2, <1>3, <1>4, <1>5, <1>6 DEF TypeOK, OneMailman, Sorting, mailVars
  <1>9. ListOK'
    BY <1>1, <1>2, <1>3, <1>4, <1>5, <1>6 DEF TypeOK, OneMailman, ListOK, Sorting, mailVars
  <1>10. CallsOK'
    BY <1>1, <1>2, <1>3, <1>4, <1>5, <1>6 DEF TypeOK, CallsOK, mailVars
  <1>11. MailmanFollows'
    BY <1>1, <1>2, <1>3, <1>4, <1>5, <1>6 DEF TypeOK, OneMailman, ListOK, MailmanFollows, Sorting, mailVars
  <1>12. NumbersApart'
    BY <1>1, <1>2, <1>3, <1>4, <1>5, <1>6 DEF TypeOK, CallsOK, NumbersApart, mailVars
  <1>13. RepliesOnce'
    BY <1>1, <1>2, <1>3, <1>4, <1>5, <1>6 DEF TypeOK, OneMailman, ListOK, CallsOK, NumbersApart, RepliesOnce, RepliesWanted, Sorting, Asking, AtServer, Replied, InHand, Mailed, mailVars
  <1>14. (RepliesKept \/ \E r \in MsgIds : ~Replied(r) /\ RepliesMore(r))
    BY <1>2, <1>6 DEF RepliesKept, RepliesMore
  <1>15. RepliesWanted'
    <2>1. \A i \in MsgIds : Wanted(i) => Wanted(i)'
      BY <1>1, <1>2, <1>3, <1>4, <1>5, <1>6 DEF TypeOK, CallsOK, Wanted, Asking, mailVars
    <2>2. \A i \in MsgIds : Replied(i)' => Wanted(i)'
      BY <1>1, <1>2, <1>3, <1>4, <1>5, <1>6, <1>14, <2>1 DEF RepliesWanted, RepliesKept, RepliesMore
    <2>3. \A n \in server' : n.replyTo = "msgQue" => Wanted(n.id)'
      BY <1>1, <1>2, <1>3, <1>4, <1>5, <1>6, <2>1 DEF TypeOK, Messages, RepliesWanted, AtServer, mailVars
    <2>4. \A u \in Threads : pc'[u] = "put" => ~AtServer(want[u])' /\ ~Replied(want[u])'
      BY <1>1, <1>2, <1>3, <1>4, <1>5, <1>6, <1>14 DEF TypeOK, CallsOK, NumbersApart, RepliesWanted, AtServer, RepliesKept, RepliesMore, mailVars
    <2> QED BY <2>2, <2>3, <2>4 DEF RepliesWanted
  <1> QED BY <1>7, <1>8, <1>9, <1>10, <1>11, <1>12, <1>13, <1>14, <1>15

\* A reply leaves the list of new mail with its thread.
LEMMA TakeNewMailStep ==
  ASSUME IInv, NEW t \in Threads, TakeNewMail(t)
  PROVE  IInv' /\ RepliesLess(want[t])
  <1> USE NoneApart DEF IInv, Mailbox
  <1>1. /\ newMail' \in Seq(MsgIds) /\ Injective(newMail')
        /\ \A x : Contains(newMail', x) <=> Contains(newMail, x) /\ x # want[t]
    BY Removed DEF TypeOK, RepliesOnce, TakeNewMail
  <1>2. want[t] \in MsgIds /\ ~AtServer(want[t])
    BY DEF TakeNewMail, TypeOK, CallsOK, RepliesOnce, Replied
  <1>3. TypeOK'
    BY <1>1, <1>2 DEF TypeOK, CallsOK, TakeNewMail, Goto, Return, rest
  <1>4. OneMailman'
    BY <1>1, <1>2 DEF TypeOK, OneMailman, Sorting, TakeNewMail, Goto, Return, rest
  <1>5. ListOK'
    BY <1>1, <1>2 DEF TypeOK, OneMailman, ListOK, Sorting, TakeNewMail, Goto, Return, rest
  <1>6. CallsOK'
    BY <1>1, <1>2 DEF TypeOK, CallsOK, TakeNewMail, Goto, Return, rest
  <1>7. MailmanFollows'
    BY <1>1, <1>2 DEF TypeOK, OneMailman, ListOK, MailmanFollows, Sorting, TakeNewMail, Goto, Return, rest
  <1>8. NumbersApart'
    BY <1>1, <1>2 DEF TypeOK, CallsOK, NumbersApart, TakeNewMail, Goto, Return, rest
  <1>9. RepliesOnce'
    BY <1>1, <1>2 DEF TypeOK, OneMailman, ListOK, CallsOK, NumbersApart, RepliesOnce, RepliesWanted, Sorting, Asking, AtServer, Replied, InHand, Mailed, TakeNewMail, Goto, Return, rest
  <1>10. RepliesLess(want[t])
    BY <1>1, <1>2 DEF TypeOK, OneMailman, ListOK, NumbersApart, RepliesOnce, Sorting, Replied, InHand, Mailed, RepliesLess, TakeNewMail, Goto, Return, rest
  <1>11. RepliesWanted'
    <2>1. \A i \in MsgIds : Wanted(i) /\ i # want[t] => Wanted(i)'
      BY <1>1, <1>2 DEF TypeOK, CallsOK, Wanted, Asking, TakeNewMail, Goto, Return, rest
    <2>2. \A i \in MsgIds : Replied(i)' => Wanted(i)'
      BY <1>1, <1>2, <1>10, <2>1 DEF RepliesWanted, RepliesLess
    <2>3. \A m \in server' : m.replyTo = "msgQue" => Wanted(m.id)'
      BY <1>1, <1>2, <2>1 DEF TypeOK, Messages, RepliesWanted, AtServer, TakeNewMail, Goto, Return, rest
    <2>4. \A u \in Threads : pc'[u] = "put" => ~AtServer(want[u])' /\ ~Replied(want[u])'
      BY <1>1, <1>2, <1>10 DEF TypeOK, CallsOK, NumbersApart, RepliesWanted, AtServer, RepliesLess, TakeNewMail, Goto, Return, rest
    <2> QED BY <2>2, <2>3, <2>4 DEF RepliesWanted
  <1> QED BY <1>3, <1>4, <1>5, <1>6, <1>7, <1>8, <1>9, <1>10, <1>11

\* Nobody was the mailman, for the lock of the queue was free.
LEMMA BecomeMailmanStep ==
  ASSUME IInv, NEW t \in Threads, BecomeMailman(t)
  PROVE  IInv' /\ RepliesKept
  <1> USE NoneApart DEF IInv, Mailbox
  <1>1. TypeOK'
    BY DEF TypeOK, CallsOK, BecomeMailman, Goto, rest
  <1>2. OneMailman'
    BY DEF TypeOK, OneMailman, Sorting, BecomeMailman, Goto, rest
  <1>3. ListOK'
    BY DEF TypeOK, OneMailman, ListOK, Sorting, BecomeMailman, Goto, rest
  <1>4. CallsOK'
    BY DEF TypeOK, CallsOK, BecomeMailman, Goto, rest
  <1>5. MailmanFollows'
    BY DEF TypeOK, OneMailman, ListOK, MailmanFollows, Sorting, BecomeMailman, Goto, rest
  <1>6. NumbersApart'
    BY DEF TypeOK, CallsOK, NumbersApart, BecomeMailman, Goto, rest
  <1>7. RepliesOnce'
    BY DEF TypeOK, OneMailman, ListOK, CallsOK, NumbersApart, RepliesOnce, RepliesWanted, Sorting, Asking, AtServer, Replied, InHand, Mailed, BecomeMailman, Goto, rest
  <1>8. RepliesKept
    BY DEF TypeOK, OneMailman, ListOK, NumbersApart, RepliesOnce, Sorting, Replied, InHand, Mailed, RepliesKept, BecomeMailman, Goto, rest
  <1>9. RepliesWanted'
    <2>1. \A i \in MsgIds : Wanted(i) => Wanted(i)'
      BY DEF TypeOK, CallsOK, Wanted, Asking, BecomeMailman, Goto, rest
    <2>2. \A i \in MsgIds : Replied(i)' => Wanted(i)'
      BY <1>8, <2>1 DEF RepliesWanted, RepliesKept
    <2>3. \A m \in server' : m.replyTo = "msgQue" => Wanted(m.id)'
      BY <2>1 DEF TypeOK, Messages, RepliesWanted, AtServer, BecomeMailman, Goto, rest
    <2>4. \A u \in Threads : pc'[u] = "put" => ~AtServer(want[u])' /\ ~Replied(want[u])'
      BY <1>8 DEF TypeOK, CallsOK, NumbersApart, RepliesWanted, AtServer, RepliesKept, BecomeMailman, Goto, rest
    <2> QED BY <2>2, <2>3, <2>4 DEF RepliesWanted
  <1> QED BY <1>1, <1>2, <1>3, <1>4, <1>5, <1>6, <1>7, <1>8, <1>9

\* A thread that comes to the list was not in it.
LEMMA BecomeRecipientStep ==
  ASSUME IInv, NEW t \in Threads, BecomeRecipient(t)
  PROVE  IInv' /\ RepliesKept
  <1> USE NoneApart DEF IInv, Mailbox
  <1>1. /\ recipients' \in Seq(Threads) /\ Injective(recipients')
        /\ \A x : Contains(recipients', x) <=> Contains(recipients, x) \/ x = t
    BY Appended DEF TypeOK, ListOK, BecomeRecipient
  <1>2. TypeOK'
    BY <1>1 DEF TypeOK, CallsOK, BecomeRecipient, Goto, rest
  <1>3. OneMailman'
    BY <1>1 DEF TypeOK, OneMailman, Sorting, BecomeRecipient, Goto, rest
  <1>4. ListOK'
    BY <1>1 DEF TypeOK, OneMailman, ListOK, Sorting, BecomeRecipient, Goto, rest
  <1>5. CallsOK'
    BY <1>1 DEF TypeOK, CallsOK, BecomeRecipient, Goto, rest
  <1>6. MailmanFollows'
    BY <1>1 DEF TypeOK, OneMailman, ListOK, MailmanFollows, Sorting, BecomeRecipient, Goto, rest
  <1>7. NumbersApart'
    BY <1>1 DEF TypeOK, CallsOK, NumbersApart, BecomeRecipient, Goto, rest
  <1>8. RepliesOnce'
    BY <1>1 DEF TypeOK, OneMailman, ListOK, CallsOK, NumbersApart, RepliesOnce, RepliesWanted, Sorting, Asking, AtServer, Replied, InHand, Mailed, BecomeRecipient, Goto, rest
  <1>9. RepliesKept
    BY <1>1 DEF TypeOK, OneMailman, ListOK, NumbersApart, RepliesOnce, Sorting, Replied, InHand, Mailed, RepliesKept, BecomeRecipient, Goto, rest
  <1>10. RepliesWanted'
    <2>1. \A i \in MsgIds : Wanted(i) => Wanted(i)'
      BY <1>1 DEF TypeOK, CallsOK, Wanted, Asking, BecomeRecipient, Goto, rest
    <2>2. \A i \in MsgIds : Replied(i)' => Wanted(i)'
      BY <1>1, <1>9, <2>1 DEF RepliesWanted, RepliesKept
    <2>3. \A m \in server' : m.replyTo = "msgQue" => Wanted(m.id)'
      BY <1>1, <2>1 DEF TypeOK, Messages, RepliesWanted, AtServer, BecomeRecipient, Goto, rest
    <2>4. \A u \in Threads : pc'[u] = "put" => ~AtServer(want[u])' /\ ~Replied(want[u])'
      BY <1>1, <1>9 DEF TypeOK, CallsOK, NumbersApart, RepliesWanted, AtServer, RepliesKept, BecomeRecipient, Goto, rest
    <2> QED BY <2>2, <2>3, <2>4 DEF RepliesWanted
  <1> QED BY <1>2, <1>3, <1>4, <1>5, <1>6, <1>7, <1>8, <1>9, <1>10

\* A thread leaves the list with its reply, or to look for it and not find it.
LEMMA WakeUpStep ==
  ASSUME IInv, NEW t \in Threads, WakeUp(t)
  PROVE  IInv' /\ ((mail[t] = None => RepliesKept) /\ (mail[t] # None => RepliesLess(want[t])))
  <1> USE NoneApart DEF IInv, Mailbox
  <1>1. /\ recipients' \in Seq(Threads) /\ Injective(recipients')
        /\ \A x : Contains(recipients', x) <=> Contains(recipients, x) /\ x # t
    BY Removed DEF TypeOK, ListOK, WakeUp
  <1>2. want[t] \in MsgIds /\ (mail[t] # None => mail[t] = want[t] /\ ~AtServer(want[t]))
    BY DEF WakeUp, TypeOK, ListOK, CallsOK, RepliesOnce, Replied, Mailed
  <1>3. mail[t] # None => Mailed(want[t]) /\ \A u \in Threads : mail[u] = want[t] => u = t
    BY <1>2 DEF ListOK, NumbersApart, Mailed
  <1>4. \A i \in MsgIds : Replied(i)' <=> Replied(i) /\ (mail[t] # None => i # want[t])
    <2> SUFFICES ASSUME NEW i \in MsgIds
                 PROVE  Replied(i)' <=> Replied(i) /\ (mail[t] # None => i # want[t])
      OBVIOUS
    <2>1. /\ UNCHANGED <<msgQue, newMail, hand>>
          /\ mail' = [mail EXCEPT ![t] = None] /\ mail \in [Threads -> MsgIds \cup {None}]
      BY DEF WakeUp, TypeOK, rest
    <2>2. (Contains(msgQue, i)' <=> Contains(msgQue, i)) /\ (Contains(newMail, i)' <=> Contains(newMail, i))
          /\ (InHand(i)' <=> InHand(i))
      BY <2>1 DEF InHand
    <2>3. Mailed(i)' <=> Mailed(i) /\ (mail[t] # None => i # want[t])
      BY <1>2, <1>3, <2>1 DEF Mailed
    <2>4. mail[t] # None /\ i = want[t] => ~Contains(msgQue, i) /\ ~Contains(newMail, i) /\ ~InHand(i)
      BY <1>3 DEF RepliesOnce
    <2> QED BY <2>2, <2>3, <2>4 DEF Replied
  <1>5. TypeOK'
    BY <1>1, <1>2, <1>3, <1>4 DEF TypeOK, CallsOK, WakeUp, Goto, Return, rest
  <1>6. OneMailman'
    BY DEF TypeOK, OneMailman, ListOK, Sorting, WakeUp, Goto, Return, rest
  <1>7. ListOK'
    BY <1>1, <1>2, <1>3, <1>4 DEF TypeOK, OneMailman, ListOK, Sorting, WakeUp, Goto, Return, rest
  <1>8. CallsOK'
    BY <1>1, <1>2, <1>3, <1>4 DEF TypeOK, CallsOK, WakeUp, Goto, Return, rest
  <1>9. MailmanFollows'
    <2>1. CASE mail[t] = None
      BY <2>1 DEF WakeUp, Goto, rest, TypeOK, ListOK, MailmanFollows
    <2>2. CASE mail[t] # None
      BY <1>1, <2>2 DEF WakeUp, Return, Goto, rest, TypeOK, ListOK, MailmanFollows
    <2> QED BY <2>1, <2>2
  <1>10. NumbersApart'
    BY DEF TypeOK, CallsOK, NumbersApart, WakeUp, Goto, Return, rest
  <1>11. RepliesOnce'
    BY <1>1, <1>2, <1>3, <1>4 DEF TypeOK, OneMailman, ListOK, CallsOK, NumbersApart, RepliesOnce, RepliesWanted, Sorting, Asking, AtServer, Replied, InHand, Mailed, WakeUp, Goto, Return, rest
  <1>12. ((mail[t] = None => RepliesKept) /\ (mail[t] # None => RepliesLess(want[t])))
    BY <1>4 DEF RepliesKept, RepliesLess
  <1>13. RepliesWanted'
    <2>1. \A i \in MsgIds : Wanted(i) /\ (mail[t] # None => i # want[t]) => Wanted(i)'
      BY <1>1, <1>2, <1>3, <1>4 DEF TypeOK, CallsOK, Wanted, Asking, WakeUp, Goto, Return, rest
    <2>2. \A i \in MsgIds : Replied(i)' => Wanted(i)'
      BY <1>1, <1>2, <1>3, <1>4, <2>1 DEF RepliesWanted
    <2>3. \A m \in server' : m.replyTo = "msgQue" => Wanted(m.id)'
      BY <1>1, <1>2, <1>3, <1>4, <2>1 DEF TypeOK, Messages, RepliesWanted, AtServer, WakeUp, Goto, Return, rest
    <2>4. \A u \in Threads : pc'[u] = "put" => ~AtServer(want[u])' /\ ~Replied(want[u])'
      BY <1>1, <1>2, <1>3, <1>4 DEF TypeOK, CallsOK, NumbersApart, RepliesWanted, AtServer, WakeUp, Goto, Return, rest
    <2> QED BY <2>2, <2>3, <2>4 DEF RepliesWanted
  <1> QED BY <1>5, <1>6, <1>7, <1>8, <1>9, <1>10, <1>11, <1>12, <1>13

\* The mailman takes a reply from the queue in its hand.
LEMMA GetNextStep ==
  ASSUME IInv, NEW t \in Threads, GetNext(t)
  PROVE  IInv' /\ RepliesKept
  <1> USE NoneApart DEF IInv, Mailbox
  <1>1. /\ Head(msgQue) \in MsgIds /\ Contains(msgQue, Head(msgQue))
        /\ msgQue' \in Seq(MsgIds) /\ Injective(msgQue')
        /\ \A x : Contains(msgQue', x) <=> Contains(msgQue, x) /\ x # Head(msgQue)
    BY Tailed DEF TypeOK, RepliesOnce, GetNext
  <1>2. \A i \in MsgIds :
          /\ InHand(i)' <=> InHand(i) \/ i = Head(msgQue)
          /\ AtServer(i)' <=> AtServer(i)
          /\ Mailed(i)' <=> Mailed(i)
    BY <1>1 DEF TypeOK, InHand, AtServer, Mailed, OneMailman, rest, GetNext
  <1>3. TypeOK'
    BY <1>1, <1>2 DEF TypeOK, CallsOK, GetNext, Goto, rest
  <1>4. OneMailman'
    BY <1>1, <1>2 DEF TypeOK, OneMailman, Sorting, GetNext, Goto, rest
  <1>5. ListOK'
    BY <1>1, <1>2 DEF TypeOK, OneMailman, ListOK, Sorting, GetNext, Goto, rest
  <1>6. CallsOK'
    BY <1>1, <1>2 DEF TypeOK, CallsOK, GetNext, Goto, rest
  <1>7. MailmanFollows'
    BY <1>1, <1>2 DEF TypeOK, OneMailman, ListOK, MailmanFollows, Sorting, GetNext, Goto, rest
  <1>8. NumbersApart'
    BY <1>1, <1>2 DEF TypeOK, CallsOK, NumbersApart, GetNext, Goto, rest
  <1>9. RepliesOnce'
    BY <1>1, <1>2 DEF RepliesOnce, Replied, rest, GetNext
  <1>10. RepliesKept
    BY <1>1, <1>2 DEF TypeOK, OneMailman, ListOK, NumbersApart, RepliesOnce, Sorting, Replied, InHand, Mailed, RepliesKept, GetNext, Goto, rest
  <1>11. RepliesWanted'
    <2>1. \A i \in MsgIds : Wanted(i) => Wanted(i)'
      BY <1>1, <1>2 DEF TypeOK, CallsOK, Wanted, Asking, GetNext, Goto, rest
    <2>2. \A i \in MsgIds : Replied(i)' => Wanted(i)'
      BY <1>1, <1>2, <1>10, <2>1 DEF RepliesWanted, RepliesKept
    <2>3. \A m \in server' : m.replyTo = "msgQue" => Wanted(m.id)'
      BY <1>1, <1>2, <2>1 DEF TypeOK, Messages, RepliesWanted, AtServer, GetNext, Goto, rest
    <2>4. \A u \in Threads : pc'[u] = "put" => ~AtServer(want[u])' /\ ~Replied(want[u])'
      BY <1>1, <1>2, <1>10 DEF TypeOK, CallsOK, NumbersApart, RepliesWanted, AtServer, RepliesKept, GetNext, Goto, rest
    <2> QED BY <2>2, <2>3, <2>4 DEF RepliesWanted
  <1> QED BY <1>3, <1>4, <1>5, <1>6, <1>7, <1>8, <1>9, <1>10, <1>11

\* The mailman takes a reply from the queue in its hand.
LEMMA GetBlockingStep ==
  ASSUME IInv, NEW t \in Threads, GetBlocking(t)
  PROVE  IInv' /\ RepliesKept
  <1> USE NoneApart DEF IInv, Mailbox
  <1>1. /\ Head(msgQue) \in MsgIds /\ Contains(msgQue, Head(msgQue))
        /\ msgQue' \in Seq(MsgIds) /\ Injective(msgQue')
        /\ \A x : Contains(msgQue', x) <=> Contains(msgQue, x) /\ x # Head(msgQue)
    BY Tailed DEF TypeOK, RepliesOnce, GetBlocking
  <1>2. \A i \in MsgIds :
          /\ InHand(i)' <=> InHand(i) \/ i = Head(msgQue)
          /\ AtServer(i)' <=> AtServer(i)
          /\ Mailed(i)' <=> Mailed(i)
    BY <1>1 DEF TypeOK, InHand, AtServer, Mailed, OneMailman, rest, GetBlocking
  <1>3. TypeOK'
    BY <1>1, <1>2 DEF TypeOK, CallsOK, GetBlocking, Goto, rest
  <1>4. OneMailman'
    BY <1>1, <1>2 DEF TypeOK, OneMailman, Sorting, GetBlocking, Goto, rest
  <1>5. ListOK'
    BY <1>1, <1>2 DEF TypeOK, OneMailman, ListOK, Sorting, GetBlocking, Goto, rest
  <1>6. CallsOK'
    BY <1>1, <1>2 DEF TypeOK, CallsOK, GetBlocking, Goto, rest
  <1>7. MailmanFollows'
    BY <1>1, <1>2 DEF TypeOK, OneMailman, ListOK, MailmanFollows, Sorting, GetBlocking, Goto, rest
  <1>8. NumbersApart'
    BY <1>1, <1>2 DEF TypeOK, CallsOK, NumbersApart, GetBlocking, Goto, rest
  <1>9. RepliesOnce'
    BY <1>1, <1>2 DEF RepliesOnce, Replied, rest, GetBlocking
  <1>10. RepliesKept
    BY <1>1, <1>2 DEF TypeOK, OneMailman, ListOK, NumbersApart, RepliesOnce, Sorting, Replied, InHand, Mailed, RepliesKept, GetBlocking, Goto, rest
  <1>11. RepliesWanted'
    <2>1. \A i \in MsgIds : Wanted(i) => Wanted(i)'
      BY <1>1, <1>2 DEF TypeOK, CallsOK, Wanted, Asking, GetBlocking, Goto, rest
    <2>2. \A i \in MsgIds : Replied(i)' => Wanted(i)'
      BY <1>1, <1>2, <1>10, <2>1 DEF RepliesWanted, RepliesKept
    <2>3. \A m \in server' : m.replyTo = "msgQue" => Wanted(m.id)'
      BY <1>1, <1>2, <2>1 DEF TypeOK, Messages, RepliesWanted, AtServer, GetBlocking, Goto, rest
    <2>4. \A u \in Threads : pc'[u] = "put" => ~AtServer(want[u])' /\ ~Replied(want[u])'
      BY <1>1, <1>2, <1>10 DEF TypeOK, CallsOK, NumbersApart, RepliesWanted, AtServer, RepliesKept, GetBlocking, Goto, rest
    <2> QED BY <2>2, <2>3, <2>4 DEF RepliesWanted
  <1> QED BY <1>3, <1>4, <1>5, <1>6, <1>7, <1>8, <1>9, <1>10, <1>11

\* The mailman lets others use the lists while it waits.
LEMMA QueueEmptyStep ==
  ASSUME IInv, NEW t \in Threads, QueueEmpty(t)
  PROVE  IInv' /\ RepliesKept
  <1> USE NoneApart DEF IInv, Mailbox
  <1>1. TypeOK'
    BY DEF TypeOK, CallsOK, QueueEmpty, Goto, rest
  <1>2. OneMailman'
    BY DEF TypeOK, OneMailman, Sorting, QueueEmpty, Goto, rest
  <1>3. ListOK'
    BY DEF TypeOK, OneMailman, ListOK, Sorting, QueueEmpty, Goto, rest
  <1>4. CallsOK'
    BY DEF TypeOK, CallsOK, QueueEmpty, Goto, rest
  <1>5. MailmanFollows'
    BY DEF TypeOK, OneMailman, ListOK, MailmanFollows, Sorting, QueueEmpty, Goto, rest
  <1>6. NumbersApart'
    BY DEF TypeOK, CallsOK, NumbersApart, QueueEmpty, Goto, rest
  <1>7. RepliesOnce'
    BY DEF TypeOK, OneMailman, ListOK, CallsOK, NumbersApart, RepliesOnce, RepliesWanted, Sorting, Asking, AtServer, Replied, InHand, Mailed, QueueEmpty, Goto, rest
  <1>8. RepliesKept
    BY DEF TypeOK, OneMailman, ListOK, NumbersApart, RepliesOnce, Sorting, Replied, InHand, Mailed, RepliesKept, QueueEmpty, Goto, rest
  <1>9. RepliesWanted'
    <2>1. \A i \in MsgIds : Wanted(i) => Wanted(i)'
      BY DEF TypeOK, CallsOK, Wanted, Asking, QueueEmpty, Goto, rest
    <2>2. \A i \in MsgIds : Replied(i)' => Wanted(i)'
      BY <1>8, <2>1 DEF RepliesWanted, RepliesKept
    <2>3. \A m \in server' : m.replyTo = "msgQue" => Wanted(m.id)'
      BY <2>1 DEF TypeOK, Messages, RepliesWanted, AtServer, QueueEmpty, Goto, rest
    <2>4. \A u \in Threads : pc'[u] = "put" => ~AtServer(want[u])' /\ ~Replied(want[u])'
      BY <1>8 DEF TypeOK, CallsOK, NumbersApart, RepliesWanted, AtServer, RepliesKept, QueueEmpty, Goto, rest
    <2> QED BY <2>2, <2>3, <2>4 DEF RepliesWanted
  <1> QED BY <1>1, <1>2, <1>3, <1>4, <1>5, <1>6, <1>7, <1>8, <1>9

\* It has them for itself again.
LEMMA RelockStep ==
  ASSUME IInv, NEW t \in Threads, Relock(t)
  PROVE  IInv' /\ RepliesKept
  <1> USE NoneApart DEF IInv, Mailbox
  <1>1. TypeOK'
    BY DEF TypeOK, CallsOK, Relock, Goto, rest
  <1>2. OneMailman'
    BY DEF TypeOK, OneMailman, Sorting, Relock, Goto, rest
  <1>3. ListOK'
    BY DEF TypeOK, OneMailman, ListOK, Sorting, Relock, Goto, rest
  <1>4. CallsOK'
    BY DEF TypeOK, CallsOK, Relock, Goto, rest
  <1>5. MailmanFollows'
    BY DEF TypeOK, OneMailman, ListOK, MailmanFollows, Sorting, Relock, Goto, rest
  <1>6. NumbersApart'
    BY DEF TypeOK, CallsOK, NumbersApart, Relock, Goto, rest
  <1>7. RepliesOnce'
    BY DEF TypeOK, OneMailman, ListOK, CallsOK, NumbersApart, RepliesOnce, RepliesWanted, Sorting, Asking, AtServer, Replied, InHand, Mailed, Relock, Goto, rest
  <1>8. RepliesKept
    BY DEF TypeOK, OneMailman, ListOK, NumbersApart, RepliesOnce, Sorting, Replied, InHand, Mailed, RepliesKept, Relock, Goto, rest
  <1>9. RepliesWanted'
    <2>1. \A i \in MsgIds : Wanted(i) => Wanted(i)'
      BY DEF TypeOK, CallsOK, Wanted, Asking, Relock, Goto, rest
    <2>2. \A i \in MsgIds : Replied(i)' => Wanted(i)'
      BY <1>8, <2>1 DEF RepliesWanted, RepliesKept
    <2>3. \A m \in server' : m.replyTo = "msgQue" => Wanted(m.id)'
      BY <2>1 DEF TypeOK, Messages, RepliesWanted, AtServer, Relock, Goto, rest
    <2>4. \A u \in Threads : pc'[u] = "put" => ~AtServer(want[u])' /\ ~Replied(want[u])'
      BY <1>8 DEF TypeOK, CallsOK, NumbersApart, RepliesWanted, AtServer, RepliesKept, Relock, Goto, rest
    <2> QED BY <2>2, <2>3, <2>4 DEF RepliesWanted
  <1> QED BY <1>1, <1>2, <1>3, <1>4, <1>5, <1>6, <1>7, <1>8, <1>9

\* The mailman leaves with its reply, and with a thread woken to follow it if one
\* of the list has none.
LEMMA OwnMessageStep ==
  ASSUME IInv, NEW t \in Threads, OwnMessage(t)
  PROVE  IInv' /\ RepliesLess(want[t])
  <1> USE NoneApart DEF IInv, Mailbox
  <1>1. want[t] \in MsgIds /\ InHand(want[t]) /\ ~AtServer(want[t])
    BY DEF OwnMessage, TypeOK, CallsOK, RepliesOnce, Replied, InHand
  <1>2. \/ event' = event /\ \A u \in Threads : Contains(recipients, u) => mail[u] # None
        \/ \E u \in Threads : mail[u] = None /\ pc[u] = "wait" /\ event' = [event EXCEPT ![u] = TRUE]
    <2>1. CASE FirstUnserved = 0
      BY <2>1, Unserved DEF OwnMessage, TypeOK
    <2>2. CASE FirstUnserved # 0
      <3>1. PICK u \in Threads : u = recipients[FirstUnserved]
        BY <2>2, Unserved DEF TypeOK
      <3>2. mail[u] = None /\ Contains(recipients, u)
        BY <2>2, <3>1, Unserved DEF TypeOK, Contains
      <3>3. event' = [event EXCEPT ![u] = TRUE]
        BY <2>2, <3>1 DEF OwnMessage
      <3> QED BY <3>2, <3>3 DEF ListOK
    <2> QED BY <2>1, <2>2
  <1>3. TypeOK'
    BY <1>1, <1>2 DEF TypeOK, CallsOK, OwnMessage, Goto, Return, rest
  <1>4. OneMailman'
    BY <1>1, <1>2 DEF TypeOK, OneMailman, Sorting, OwnMessage, Goto, Return, rest
  <1>5. ListOK'
    <2>1. /\ UNCHANGED <<recipients, mail, newMail>> /\ pc[t] = "sort"
          /\ pc' = [pc EXCEPT ![t] = "idle"] /\ want' = [want EXCEPT ![t] = None]
      BY DEF OwnMessage, Goto, Return, rest
    <2>2. \A u \in Threads : (pc'[u] = "wait" <=> pc[u] = "wait") /\ (pc[u] = "wait" => want'[u] = want[u])
      BY <2>1 DEF TypeOK
    <2>3. \A u \in Threads : event[u] => event'[u]
      BY <1>2 DEF TypeOK
    <2>4. \A u \in Threads : event'[u] => pc'[u] = "wait"
      BY <1>2, <2>2 DEF TypeOK, ListOK
    <2>5. \A u \in Threads : mail[u] # None =>
            pc'[u] = "wait" /\ event'[u] /\ mail[u] = want'[u]
      BY <2>2, <2>3 DEF ListOK
    <2> QED BY <2>1, <2>2, <2>4, <2>5 DEF ListOK
  <1>6. CallsOK'
    BY <1>1, <1>2 DEF TypeOK, CallsOK, OwnMessage, Goto, Return, rest
  <1>7. MailmanFollows'
    <2>1. ASSUME \A u \in Threads : Contains(recipients, u) => mail[u] # None
          PROVE  MailmanFollows'
      <3>1. mail' = mail /\ pc[t] = "sort" /\ pc' = [pc EXCEPT ![t] = "idle"] /\ pc \in [Threads -> {"idle", "put", "mbx", "sort", "block", "relock", "wait"}]
        BY DEF OwnMessage, Return, Goto, TypeOK
      <3>2. \A u \in Threads : pc'[u] = "wait" => mail'[u] # None
        BY <2>1, <3>1 DEF ListOK
      <3> QED BY <3>2 DEF MailmanFollows
    <2>2. ASSUME NEW u \in Threads, mail[u] = None, pc[u] = "wait", event' = [event EXCEPT ![u] = TRUE]
          PROVE  MailmanFollows'
      BY <2>2 DEF OwnMessage, Return, Goto, rest, TypeOK, MailmanFollows
    <2> QED BY <1>2, <2>1, <2>2
  <1>8. NumbersApart'
    BY <1>1, <1>2 DEF TypeOK, CallsOK, NumbersApart, OwnMessage, Goto, Return, rest
  <1>9. RepliesOnce'
    BY <1>1, <1>2 DEF TypeOK, OneMailman, ListOK, CallsOK, NumbersApart, RepliesOnce, RepliesWanted, Sorting, Asking, AtServer, Replied, InHand, Mailed, OwnMessage, Goto, Return, rest
  <1>10. RepliesLess(want[t])
    BY <1>1, <1>2 DEF TypeOK, OneMailman, ListOK, NumbersApart, RepliesOnce, Sorting, Replied, InHand, Mailed, RepliesLess, OwnMessage, Goto, Return, rest
  <1>11. RepliesWanted'
    <2>1. \A i \in MsgIds : Wanted(i) /\ i # want[t] => Wanted(i)'
      BY <1>1, <1>2 DEF TypeOK, CallsOK, Wanted, Asking, OwnMessage, Goto, Return, rest
    <2>2. \A i \in MsgIds : Replied(i)' => Wanted(i)'
      BY <1>1, <1>2, <1>10, <2>1 DEF RepliesWanted, RepliesLess
    <2>3. \A m \in server' : m.replyTo = "msgQue" => Wanted(m.id)'
      BY <1>1, <1>2, <2>1 DEF TypeOK, Messages, RepliesWanted, AtServer, OwnMessage, Goto, Return, rest
    <2>4. \A u \in Threads : pc'[u] = "put" => ~AtServer(want[u])' /\ ~Replied(want[u])'
      BY <1>1, <1>2, <1>10 DEF TypeOK, CallsOK, NumbersApart, RepliesWanted, AtServer, RepliesLess, OwnMessage, Goto, Return, rest
    <2> QED BY <2>2, <2>3, <2>4 DEF RepliesWanted
  <1> QED BY <1>3, <1>4, <1>5, <1>6, <1>7, <1>8, <1>9, <1>10, <1>11

\* A reply leaves the hand of the mailman for the thread that waits for it, or for
\* the list of new mail if none does.
LEMMA DeliverStep ==
  ASSUME IInv, NEW t \in Threads, Deliver(t)
  PROVE  IInv' /\ RepliesKept
  <1> USE NoneApart DEF IInv, Mailbox
  <1>1. hand[t] \in MsgIds /\ InHand(hand[t]) /\ ~AtServer(hand[t])
    BY DEF Deliver, TypeOK, RepliesOnce, Replied, InHand
  <1>2. \A u \in Threads : u \in ToSet(recipients) <=> Contains(recipients, u)
    BY LenProperties DEF ToSet, Contains, TypeOK
  <1>3. /\ hand' = [hand EXCEPT ![t] = None]
        /\ UNCHANGED <<rest, mbxLock, queueLock, msgQue, recipients, pc, want>>
        /\ pc[t] = "sort" /\ hand[t] # want[t]
        /\ \/ /\ \A u \in Threads : pc[u] = "wait" => want[u] # hand[t]
              /\ newMail' = Append(newMail, hand[t]) /\ UNCHANGED <<mail, event>>
           \/ \E u \in Threads :
                /\ pc[u] = "wait" /\ want[u] = hand[t] /\ UNCHANGED newMail
                /\ mail' = [mail EXCEPT ![u] = hand[t]] /\ event' = [event EXCEPT ![u] = TRUE]
    <2> DEFINE owner == {u \in ToSet(recipients) : want[u] = hand[t]}
    <2>1. \A u : u \in owner <=> u \in Threads /\ pc[u] = "wait" /\ want[u] = hand[t]
      <3>1. \A u : u \in ToSet(recipients) => u \in Threads
        BY ElementOfSeq DEF ToSet, TypeOK
      <3> QED BY <1>2, <3>1 DEF ListOK
    <2>2. \/ owner = {} /\ newMail' = Append(newMail, hand[t]) /\ UNCHANGED <<mail, event>>
          \/ \E u \in owner :
               /\ mail' = [mail EXCEPT ![u] = hand[t]] /\ event' = [event EXCEPT ![u] = TRUE]
               /\ UNCHANGED newMail
      BY DEF Deliver
    <2>3. /\ hand' = [hand EXCEPT ![t] = None]
          /\ UNCHANGED <<rest, mbxLock, queueLock, msgQue, recipients, pc, want>>
          /\ pc[t] = "sort" /\ hand[t] # want[t]
      BY DEF Deliver
    <2> HIDE DEF owner
    <2> QED BY <2>1, <2>2, <2>3
  <1>4. /\ Append(newMail, hand[t]) \in Seq(MsgIds) /\ Injective(Append(newMail, hand[t]))
        /\ \A x : Contains(Append(newMail, hand[t]), x) <=> Contains(newMail, x) \/ x = hand[t]
    BY <1>1, Appended DEF TypeOK, RepliesOnce, InHand
  <1>5. \A i \in MsgIds :
          /\ InHand(i)' <=> InHand(i) /\ i # hand[t]
          /\ AtServer(i)' <=> AtServer(i)
    BY <1>3 DEF TypeOK, OneMailman, Sorting, InHand, AtServer, rest
  <1>6. \/ /\ Injective(newMail') /\ newMail' \in Seq(MsgIds)
           /\ \A i \in MsgIds :
                /\ Contains(newMail', i) <=> Contains(newMail, i) \/ i = hand[t]
                /\ Mailed(i)' <=> Mailed(i)
        \/ /\ UNCHANGED newMail
           /\ \A i \in MsgIds : Mailed(i)' <=> Mailed(i) \/ i = hand[t]
    <2>1. CASE UNCHANGED <<mail, event>> /\ newMail' = Append(newMail, hand[t])
      BY <1>4, <2>1 DEF Mailed
    <2>2. ASSUME NEW u \in Threads, want[u] = hand[t], mail' = [mail EXCEPT ![u] = hand[t]]
          PROVE  \A i \in MsgIds : Mailed(i)' <=> Mailed(i) \/ i = hand[t]
      BY <2>2, <1>1 DEF TypeOK, ListOK, Mailed
    <2> QED BY <1>3, <2>1, <2>2
  <1>7. TypeOK'
    BY <1>1, <1>2, <1>3, <1>4, <1>5, <1>6 DEF TypeOK, CallsOK, Goto, rest
  <1>8. OneMailman'
    BY <1>1, <1>2, <1>3, <1>4, <1>5, <1>6 DEF TypeOK, OneMailman, Sorting, Goto, rest
  <1>9. ListOK'
    <2>1. CASE UNCHANGED <<mail, event>> /\ newMail' = Append(newMail, hand[t])
               /\ \A u \in Threads : pc[u] = "wait" => want[u] # hand[t]
      BY <1>3, <1>4, <2>1 DEF TypeOK, ListOK, rest
    <2>2. ASSUME NEW u \in Threads, pc[u] = "wait", want[u] = hand[t], UNCHANGED newMail,
                 mail' = [mail EXCEPT ![u] = hand[t]], event' = [event EXCEPT ![u] = TRUE]
          PROVE  ListOK'
      BY <1>1, <1>3, <2>2 DEF TypeOK, ListOK, rest
    <2> QED BY <1>3, <2>1, <2>2
  <1>10. CallsOK'
    BY <1>1, <1>2, <1>3, <1>4, <1>5, <1>6 DEF TypeOK, CallsOK, Goto, rest
  <1>11. MailmanFollows'
    BY <1>1, <1>2, <1>3, <1>4, <1>5, <1>6 DEF TypeOK, OneMailman, ListOK, MailmanFollows, Sorting, Goto, rest
  <1>12. NumbersApart'
    BY <1>1, <1>2, <1>3, <1>4, <1>5, <1>6 DEF TypeOK, CallsOK, NumbersApart, Goto, rest
  <1>13. RepliesOnce'
    BY <1>1, <1>3, <1>5, <1>6 DEF RepliesOnce, Replied, rest
  <1>14. RepliesKept
    BY <1>1, <1>3, <1>5, <1>6 DEF Replied, RepliesKept, rest
  <1>15. RepliesWanted'
    <2>1. \A i \in MsgIds : Wanted(i) => Wanted(i)'
      BY <1>1, <1>2, <1>3, <1>4, <1>5, <1>6 DEF TypeOK, CallsOK, Wanted, Asking, Goto, rest
    <2>2. \A i \in MsgIds : Replied(i)' => Wanted(i)'
      BY <1>1, <1>2, <1>3, <1>4, <1>5, <1>6, <1>14, <2>1 DEF RepliesWanted, RepliesKept
    <2>3. \A m \in server' : m.replyTo = "msgQue" => Wanted(m.id)'
      BY <1>1, <1>2, <1>3, <1>4, <1>5, <1>6, <2>1 DEF TypeOK, Messages, RepliesWanted, AtServer, Goto, rest
    <2>4. \A u \in Threads : pc'[u] = "put" => ~AtServer(want[u])' /\ ~Replied(want[u])'
      BY <1>1, <1>2, <1>3, <1>4, <1>5, <1>6, <1>14 DEF TypeOK, CallsOK, NumbersApart, RepliesWanted, AtServer, RepliesKept, Goto, rest
    <2> QED BY <2>2, <2>3, <2>4 DEF RepliesWanted
  <1> QED BY <1>7, <1>8, <1>9, <1>10, <1>11, <1>12, <1>13, <1>14, <1>15

-----------------------------------------------------------------------------
(* The invariant and what follows from it.                                 *)

\* No step of anybody breaks the invariant.
LEMMA InvStep == IInv /\ [Next]_vars => IInv'
  <1> SUFFICES ASSUME IInv, [Next]_vars PROVE IInv'
    OBVIOUS
  <1>1. ASSUME NEW t \in Threads, Send(t) PROVE IInv'
    <2>1. \A c \in {"exec", "noWait", "cmd"} : alloc(t, c) => IInv'
      BY AllocStep
    <2> QED BY <1>1, <2>1, PutStep, PutFailsStep, WaitStep, ErrorStep
      DEF Send, exec, execDpc, getSymbolIndex, acquireJobId, releaseJobId, execNoWait, execCmd
  <1>2. ASSUME NEW t \in Threads, LockMailbox(t) PROVE IInv'
    BY <1>2, TakeNewMailStep, BecomeMailmanStep, BecomeRecipientStep, WakeUpStep, RelockStep
    DEF LockMailbox
  <1>3. ASSUME NEW t \in Threads, Sort(t) PROVE IInv'
    BY <1>3, GetNextStep, QueueEmptyStep, GetBlockingStep, OwnMessageStep, DeliverStep
    DEF Sort
  <1>4. CASE UNCHANGED vars
    BY <1>4 DEF vars, IInv, Mailbox, TypeOK, OneMailman, ListOK, CallsOK, MailmanFollows,
       NumbersApart, RepliesOnce, RepliesWanted, Sorting, Asking, AtServer, InHand, Mailed,
       Replied, Wanted
  <1> QED BY <1>1, <1>2, <1>3, <1>4, AnswerStep DEF Next

\* Every variable stays in its set; a thread's want is a number or None.
THEOREM ClientTypeOK == Spec => []TypeOK
  <1>1. IInv => TypeOK
    BY DEF IInv, Mailbox
  <1> QED BY <1>1, InvInit, InvStep, PTL DEF Spec

\* While nobody empties the queue no thread is left waiting with no successor to the
\* mailman: what the last mailman decided in OwnMessage stays good until that thread runs.
THEOREM AlwaysAMailman == Spec => []MailmanFollows
  <1>1. IInv => MailmanFollows
    BY DEF IInv, Mailbox
  <1> QED BY <1>1, InvInit, InvStep, PTL DEF Spec

-----------------------------------------------------------------------------
(* The reply box.                                                          *)

\* What has arrived is what was answered and not collected.
LEMMA ArrivedAre == IInv => Arrived = {i \in MsgIds : Replied(i)}
  <1> SUFFICES ASSUME IInv PROVE Arrived = {i \in MsgIds : Replied(i)}
    OBVIOUS
  <1> USE NoneApart DEF IInv, Mailbox
  <1>1. \A i : i \in ToSet(msgQue) <=> i \in MsgIds /\ Contains(msgQue, i)
    BY ElementOfSeq DEF TypeOK, ToSet, Contains
  <1>2. \A i : i \in ToSet(newMail) <=> i \in MsgIds /\ Contains(newMail, i)
    BY ElementOfSeq DEF TypeOK, ToSet, Contains
  <1>3. \A i : i \in {hand[t] : t \in Threads} \ {None} <=> i \in MsgIds /\ InHand(i)
    BY DEF TypeOK, InHand
  <1>4. \A i : i \in {mail[t] : t \in Threads} \ {None} <=> i \in MsgIds /\ Mailed(i)
    BY DEF TypeOK, Mailed
  <1> QED BY <1>1, <1>2, <1>3, <1>4 DEF Arrived, Replied

\* A step that keeps the replies shows nothing of them, and one that adds or takes away
\* a reply changes what has arrived by that reply.
LEMMA ArrivedChanges ==
  ASSUME IInv, IInv'
  PROVE  /\ RepliesKept => Arrived' = Arrived
         /\ \A r \in MsgIds :
              /\ RepliesMore(r) => Arrived' = Arrived \cup {r}
              /\ RepliesLess(r) => Arrived' = Arrived \ {r}
              /\ r \in Arrived <=> Replied(r)
  <1>1. Arrived = {i \in MsgIds : Replied(i)}
    BY ArrivedAre
  <1>2. Arrived' = {i \in MsgIds : Replied(i)'}
    <2>1. IInv' => (Arrived = {i \in MsgIds : Replied(i)})'
      BY ArrivedAre, PTL
    <2> QED BY <2>1
  <1> QED BY <1>1, <1>2 DEF RepliesKept, RepliesMore, RepliesLess

\* A thread that asks and one that leaves show it; nobody else's question changes.
LEMMA AskedChanges ==
  ASSUME IInv, NEW t \in Threads
  PROVE  /\ \A c \in {"exec", "noWait", "cmd"} : alloc(t, c) => UNCHANGED Asked
         /\ PutFails(t) \/ checkForError(t) => UNCHANGED Asked
         /\ Put(t) => Asked[t] = None /\ (Asked' = Asked \/ \E i \in MsgIds : Asked' = [Asked EXCEPT ![t] = i])
         /\ waitUntilDone(t) => Asked[t] = None /\ \E i \in MsgIds : Asked' = [Asked EXCEPT ![t] = i]
         /\ BecomeMailman(t) \/ BecomeRecipient(t) \/ Relock(t) => UNCHANGED Asked
         /\ TakeNewMail(t) \/ OwnMessage(t) =>
              Asked[t] = want[t] /\ want[t] \in MsgIds /\ Asked' = [Asked EXCEPT ![t] = None]
         /\ WakeUp(t) => IF mail[t] = None
              THEN UNCHANGED Asked
              ELSE Asked[t] = want[t] /\ want[t] \in MsgIds /\ Asked' = [Asked EXCEPT ![t] = None]
         /\ GetNext(t) \/ QueueEmpty(t) \/ GetBlocking(t) \/ Deliver(t) => UNCHANGED Asked
  <1> USE DEF IInv, Mailbox, TypeOK, CallsOK, Asking, Asked, Goto, Return, mailVars, rest
  <1>1. \A c \in {"exec", "noWait", "cmd"} : alloc(t, c) => UNCHANGED Asked
    BY DEF alloc
  <1>2. PutFails(t) \/ checkForError(t) => UNCHANGED Asked
    BY DEF PutFails, checkForError
  <1>3. Put(t) => Asked[t] = None /\ (Asked' = Asked \/ \E i \in MsgIds : Asked' = [Asked EXCEPT ![t] = i])
    <2> SUFFICES ASSUME Put(t)
                 PROVE  Asked[t] = None /\ (Asked' = Asked \/ \E i \in MsgIds : Asked' = [Asked EXCEPT ![t] = i])
      OBVIOUS
    <2>1. PICK i \in MsgIds : i = want[t]
      BY DEF Put
    <2>2. call[t] = "exec" => Asked' = [Asked EXCEPT ![t] = i]
      BY <2>1 DEF Put
    <2>3. call[t] # "exec" => Asked' = Asked
      BY DEF Put
    <2>4. Asked[t] = None
      BY DEF Put
    <2> QED BY <2>2, <2>3, <2>4
  <1>4. waitUntilDone(t) => Asked[t] = None /\ \E i \in MsgIds : Asked' = [Asked EXCEPT ![t] = i]
    <2> SUFFICES ASSUME waitUntilDone(t)
                 PROVE  Asked[t] = None /\ \E i \in MsgIds : Asked' = [Asked EXCEPT ![t] = i]
      OBVIOUS
    <2>1. PICK i \in MsgIds : want' = [want EXCEPT ![t] = i]
      BY DEF waitUntilDone
    <2>2. Asked' = [Asked EXCEPT ![t] = i] /\ Asked[t] = None
      BY <2>1 DEF waitUntilDone
    <2> QED BY <2>2
  <1>5. BecomeMailman(t) \/ BecomeRecipient(t) \/ Relock(t) => UNCHANGED Asked
    BY DEF BecomeMailman, BecomeRecipient, Relock
  <1>6. TakeNewMail(t) \/ OwnMessage(t) =>
          Asked[t] = want[t] /\ want[t] \in MsgIds /\ Asked' = [Asked EXCEPT ![t] = None]
    BY DEF TakeNewMail, OwnMessage
  <1>7. WakeUp(t) => IF mail[t] = None
          THEN UNCHANGED Asked
          ELSE Asked[t] = want[t] /\ want[t] \in MsgIds /\ Asked' = [Asked EXCEPT ![t] = None]
    <2>1. ASSUME WakeUp(t), mail[t] = None PROVE UNCHANGED Asked
      BY <2>1 DEF WakeUp
    <2>2. ASSUME WakeUp(t), mail[t] # None
          PROVE  Asked[t] = want[t] /\ want[t] \in MsgIds /\ Asked' = [Asked EXCEPT ![t] = None]
      BY <2>2 DEF WakeUp
    <2> QED BY <2>1, <2>2
  <1>8. GetNext(t) \/ QueueEmpty(t) \/ GetBlocking(t) \/ Deliver(t) => UNCHANGED Asked
    BY DEF GetNext, QueueEmpty, GetBlocking, Deliver
  <1> HIDE DEF IInv, Mailbox, TypeOK, CallsOK, Asking, Asked, Goto, Return, mailVars, rest
  <1> QED BY <1>1, <1>2, <1>3, <1>4, <1>5, <1>6, <1>7, <1>8

\* A step of the client, a thread or the server is one of the reply box or none of its
\* business: Put of an exec and waitUntilDone ask, Answer brings a reply, and a thread
\* collects it from the list of new mail, from its own entry or as the mailman.
LEMMA BoxStep == IInv /\ IInv' /\ [Next]_vars => [Box!Next]_<<Asked, Arrived>>
  <1> SUFFICES ASSUME IInv, IInv', [Next]_vars PROVE [Box!Next]_<<Asked, Arrived>>
    OBVIOUS
  <1> DEFINE Silent == UNCHANGED <<Asked, Arrived>>
             Ask == \E t \in Threads, i \in MsgIds : Box!Ask(t, i)
             Arrive == \E i \in MsgIds : Box!Arrive(i)
             Collect == \E t \in Threads : Box!Collect(t)
             Shown == Silent \/ Ask \/ Arrive \/ Collect
  <1>1. RepliesKept /\ UNCHANGED Asked => Silent
    BY ArrivedChanges
  <1>2. ASSUME NEW t \in Threads, NEW i \in MsgIds, RepliesKept, Asked[t] = None,
               Asked' = [Asked EXCEPT ![t] = i]
        PROVE  Ask
    <2>1. Box!Ask(t, i)
      BY <1>2, ArrivedChanges DEF Box!Ask
    <2> QED BY <2>1
  <1>3. ASSUME NEW t \in Threads, RepliesLess(want[t]), Replied(want[t]), want[t] \in MsgIds,
               Asked[t] = want[t], Asked' = [Asked EXCEPT ![t] = None]
        PROVE  Collect
    <2>1. Box!Collect(t)
      BY <1>3, ArrivedChanges DEF Box!Collect
    <2> QED BY <2>1
  <1>4. CASE Answer
    <2>1. UNCHANGED Asked
      BY <1>4 DEF Answer, Asked, Asking
    <2>2. ASSUME NEW i \in MsgIds, ~Replied(i), RepliesMore(i) PROVE Arrive
      <3>1. Box!Arrive(i)
        BY <2>1, <2>2, ArrivedChanges DEF Box!Arrive
      <3> QED BY <3>1
    <2>3. Shown
      BY <1>1, <1>4, <2>1, <2>2, AnswerStep
    <2> QED BY <2>3 DEF Box!Next
  <1>5. ASSUME NEW t \in Threads, Send(t) PROVE Shown
    <2>1. ASSUME NEW c \in {"exec", "noWait", "cmd"}, alloc(t, c) PROVE Shown
      BY <1>1, <2>1, AllocStep, AskedChanges
    <2>2. CASE Put(t)
      BY <1>1, <1>2, <2>2, PutStep, AskedChanges
    <2>3. CASE waitUntilDone(t)
      BY <1>1, <1>2, <2>3, WaitStep, AskedChanges
    <2>4. CASE PutFails(t) \/ checkForError(t)
      BY <1>1, <2>4, PutFailsStep, ErrorStep, AskedChanges
    <2> HIDE DEF Shown
    <2> QED BY <1>5, <2>1, <2>2, <2>3, <2>4
      DEF Send, exec, execDpc, getSymbolIndex, acquireJobId, releaseJobId, execNoWait, execCmd
  <1>6. ASSUME NEW t \in Threads, LockMailbox(t) PROVE Shown
    <2>1. CASE BecomeMailman(t) \/ BecomeRecipient(t) \/ Relock(t)
      BY <1>1, <2>1, BecomeMailmanStep, BecomeRecipientStep, RelockStep, AskedChanges
    <2>2. CASE TakeNewMail(t)
      <3>1. Replied(want[t])
        BY <2>2 DEF TakeNewMail, Replied
      <3> QED BY <1>3, <2>2, <3>1, TakeNewMailStep, AskedChanges
    <2>3. CASE WakeUp(t) /\ mail[t] = None
      BY <1>1, <2>3, WakeUpStep, AskedChanges
    <2>4. CASE WakeUp(t) /\ mail[t] # None
      <3>1. Replied(want[t])
        BY <2>4 DEF Replied, Mailed, IInv, Mailbox, ListOK
      <3> QED BY <1>3, <2>4, <3>1, WakeUpStep, AskedChanges
    <2> HIDE DEF Shown
    <2> QED BY <1>6, <2>1, <2>2, <2>3, <2>4 DEF LockMailbox
  <1>7. ASSUME NEW t \in Threads, Sort(t) PROVE Shown
    <2>1. CASE GetNext(t) \/ QueueEmpty(t) \/ GetBlocking(t) \/ Deliver(t)
      BY <1>1, <2>1, GetNextStep, QueueEmptyStep, GetBlockingStep, DeliverStep, AskedChanges
    <2>2. CASE OwnMessage(t)
      <3>1. Replied(want[t])
        BY <2>2 DEF OwnMessage, Replied, InHand
      <3> QED BY <1>3, <2>2, <3>1, OwnMessageStep, AskedChanges
    <2> HIDE DEF Shown
    <2> QED BY <1>7, <2>1, <2>2 DEF Sort
  <1>8. CASE UNCHANGED vars
    BY <1>8 DEF vars, Asked, Asking, Arrived
  <1>9. Shown => [Box!Next]_<<Asked, Arrived>>
    BY DEF Box!Next
  <1> HIDE DEF Shown
  <1> QED BY <1>4, <1>5, <1>6, <1>7, <1>8, <1>9 DEF Next

\* Every caller gets the reply to its own message, each reply is collected once, and
\* none is lost or made up between the queue, the hand of the mailman, the list of new
\* mail and the entries of the waiting threads: getReturnMsg implements the reply box.
\* That a caller whose reply has arrived is not kept waiting is not part of it.
THEOREM ClientImplementsReplyBox == Spec => Box!Spec
  <1>1. Init => Box!Init
    <2> SUFFICES ASSUME Init PROVE Box!Init
      OBVIOUS
    <2>1. Asked = [t \in Threads |-> None]
      BY DEF Init, Asked, Asking
    <2>2. Arrived = {}
      BY DEF Init, Arrived, ToSet
    <2> QED BY <2>1, <2>2 DEF Box!Init
  <1>2. Spec => []IInv
    BY InvInit, InvStep, PTL DEF Spec
  <1> QED BY <1>1, <1>2, BoxStep, PTL DEF Spec, Box!Spec, Asked, Arrived
===============================================================================
