-------------------------- MODULE InterruptIpuProofs --------------------------
(***************************************************************************)
(* Proofs about InterruptIpu, for FIFOs of any size and any messages.      *)
(***************************************************************************)
EXTENDS InterruptIpu, SequenceTheorems, WellFoundedInduction, TLAPS

IInv == TypeOK /\ NoMessageWithoutInterrupt

\* What a step does to the places and the messages in hand, without the FIFOs.
HandsOK ==
  /\ interrupt1 \in BOOLEAN
  /\ pc \in [Cores -> Places]
  /\ pc[0] \in {"idle", "call", "trigger"}
  /\ pc[1] \in {"idle", "clear", "status", "again", "rearm", "call"}
  /\ arg \in [Cores -> Messages \cup {INVALIDPAYLOAD}]
  /\ arg[1] \in Core1Messages \cup {INVALIDPAYLOAD}
  /\ called \in Core1Messages \cup {INVALIDPAYLOAD}

FifosOK ==
  /\ sysm3Fifo \in Seq(Messages) /\ Len(sysm3Fifo) <= FifoSize
  /\ appm3Fifo \in Seq(Core1Messages) /\ Len(appm3Fifo) <= FifoSize

\* What the handlers hold is a message or nothing.
LEMMA HandsStep == TypeOK /\ [Next]_vars => HandsOK'
  <1> SUFFICES ASSUME HandsOK, FifosOK, [Next]_vars PROVE HandsOK'
    BY DEF TypeOK, HandsOK, FifosOK
  <1> USE DEF HandsOK, Cores, Goto, Places
  <1>1. ASSUME NEW m \in Messages, HostSend(m) PROVE HandsOK'
    BY <1>1 DEF HostSend
  <1>2. CASE Take0
    <2>1. Head(sysm3Fifo) \in Messages
      BY <1>2 DEF Take0, FifosOK
    <2> QED BY <1>2, <2>1 DEF Take0
  <1>3. CASE Keep0
    BY <1>3 DEF Keep0
  <1>4. CASE Forward0
    BY <1>4 DEF Forward0
  <1>5. CASE Trigger0
    BY <1>5 DEF Trigger0
  <1>6. CASE Interrupt1
    BY <1>6 DEF Interrupt1
  <1>7. CASE Clear1
    BY <1>7 DEF Clear1
  <1>8. CASE Nothing1
    BY <1>8 DEF Nothing1
  <1>9. CASE Take1
    <2>1. Head(appm3Fifo) \in Core1Messages
      BY <1>9 DEF Take1, FifosOK
    <2>2. Head(appm3Fifo) \in Messages
      BY <2>1 DEF Messages
    <2> QED BY <1>9, <2>1, <2>2 DEF Take1
  <1>10. CASE Again1
    BY <1>10 DEF Again1
  <1>11. CASE Rearm1
    BY <1>11 DEF Rearm1
  <1>12. CASE Call1
    BY <1>12 DEF Call1
  <1>13. CASE UNCHANGED vars
    BY <1>13 DEF vars
  <1> QED
    BY <1>1, <1>2, <1>3, <1>4, <1>5, <1>6, <1>7, <1>8, <1>9, <1>10, <1>11, <1>12, <1>13
    DEF Next, Core0Step, Core1Step

\* Neither FIFO is written when it is full.
LEMMA FifosStep == TypeOK /\ [Next]_vars => FifosOK'
  <1> SUFFICES ASSUME FifosOK, [Next]_vars PROVE FifosOK'
    BY DEF TypeOK, FifosOK
  <1> USE FifoAssumption DEF FifosOK
  <1>1. ASSUME NEW m \in Messages, HostSend(m) PROVE FifosOK'
    BY <1>1 DEF HostSend
  <1>2. CASE Take0
    BY <1>2 DEF Take0
  <1>3. CASE Forward0
    BY <1>3 DEF Forward0
  <1>4. CASE Take1
    BY <1>4 DEF Take1
  <1>5. CASE Keep0 \/ Trigger0
    BY <1>5 DEF Keep0, Trigger0
  <1>6. CASE Interrupt1 \/ Clear1 \/ Nothing1 \/ Again1 \/ Rearm1 \/ Call1
    BY <1>6 DEF Interrupt1, Clear1, Nothing1, Again1, Rearm1, Call1
  <1>7. CASE UNCHANGED vars
    BY <1>7 DEF vars
  <1> QED
    BY <1>1, <1>2, <1>3, <1>4, <1>5, <1>6, <1>7 DEF Next, Core0Step, Core1Step

\* The parts together.
LEMMA TypeStep == TypeOK /\ [Next]_vars => TypeOK'
  BY HandsStep, FifosStep DEF TypeOK, HandsOK, FifosOK

\* The handlers keep it for whatever reason the other core acts in between:
\* core 0 sets the bit after it wrote the FIFO, core 1 looks at the FIFO after it
\* cleared the bit.
LEMMA InterruptStep == IInv /\ [Next]_vars => NoMessageWithoutInterrupt'
  <1> SUFFICES ASSUME IInv, [Next]_vars PROVE NoMessageWithoutInterrupt'
    OBVIOUS
  <1> USE DEF IInv, TypeOK, Cores, Goto, NoMessageWithoutInterrupt
  <1>1. ASSUME NEW m \in Messages, HostSend(m) PROVE NoMessageWithoutInterrupt'
    BY <1>1 DEF HostSend
  <1>2. CASE Take0
    BY <1>2 DEF Take0
  <1>3. CASE Keep0
    BY <1>3 DEF Keep0
  <1>4. CASE Forward0
    BY <1>4 DEF Forward0
  <1>5. CASE Trigger0
    BY <1>5 DEF Trigger0
  <1>6. CASE Interrupt1
    BY <1>6 DEF Interrupt1
  <1>7. CASE Clear1
    BY <1>7 DEF Clear1
  <1>8. CASE Nothing1
    BY <1>8 DEF Nothing1
  <1>9. CASE Take1
    BY <1>9 DEF Take1
  <1>10. CASE Again1
    BY <1>10 DEF Again1
  <1>11. CASE Rearm1
    BY <1>11 DEF Rearm1
  <1>12. CASE Call1
    BY <1>12 DEF Call1
  <1>13. CASE UNCHANGED vars
    BY <1>13 DEF vars
  <1> QED
    BY <1>1, <1>2, <1>3, <1>4, <1>5, <1>6, <1>7, <1>8, <1>9, <1>10, <1>11, <1>12, <1>13
    DEF Next, Core0Step, Core1Step

\* Both FIFOs are empty at first.
LEMMA IInvInit == Init => IInv
  BY FifoAssumption, MessagesAssumption
  DEF Init, IInv, TypeOK, NoMessageWithoutInterrupt, Cores, Places

\* Both FIFOs stay within their size and hold what belongs there, whatever the
\* host sends and however the two cores interleave.
THEOREM TypeCorrect == Spec => []TypeOK
  <1>1. IInv /\ [Next]_vars => IInv'
    BY TypeStep, InterruptStep DEF IInv
  <1>2. IInv => TypeOK
    BY DEF IInv
  <1> QED BY IInvInit, <1>1, <1>2, PTL DEF Spec

\* One bit is enough for a FIFO of messages: InterruptIpu_intClear and
\* InterruptIpu_intSend never leave a message without an interrupt to come.
THEOREM InterruptComes == Spec => []NoMessageWithoutInterrupt
  <1>1. IInv /\ [Next]_vars => IInv'
    BY TypeStep, InterruptStep DEF IInv
  <1>2. IInv => NoMessageWithoutInterrupt
    BY DEF IInv
  <1> QED BY IInvInit, <1>1, <1>2, PTL DEF Spec

-----------------------------------------------------------------------------
(* The part of a FIFO that is for core 1.  ForCore1 is defined by          *)
(* recursion on the positions of the FIFO; each fact about it is proved at *)
(* the first position where it would fail.                                 *)

\* What is kept of the first i messages, from what is kept of one less.
KeptNext(q, f, i) ==
  IF i = 0 THEN <<>>
  ELSE IF q[i] \in Core1Messages THEN Append(f[i - 1], q[i]) ELSE f[i - 1]

KeptUpTo(q, f, n) ==
  f \in [0..n -> Seq(Core1Messages)] /\ \A i \in 0..n : f[i] = KeptNext(q, f, i)

\* Every set of natural numbers but the empty one has a least element.
LEMMA Least ==
  ASSUME NEW I \in SUBSET Nat, I # {}
  PROVE  \E x \in I : \A y \in I : x <= y
  <1>1. IsWellFoundedOn(OpToRel(<, Nat), Nat)
    BY NatLessThanWellFounded
  <1>2. PICK x \in I : \A y \in I : ~ (<<y, x>> \in OpToRel(<, Nat))
    BY <1>1, WFMin
  <1>3. \A y \in I : ~(y < x)
    BY <1>2 DEF OpToRel
  <1> QED BY <1>3

\* The recursion has a solution up to any position of the FIFO.
LEMMA KeptExists ==
  ASSUME NEW q \in Seq(Messages), NEW n \in 0..Len(q)
  PROVE  \E f : KeptUpTo(q, f, n)
  <1> DEFINE Bad == {k \in 0..Len(q) : ~\E f : KeptUpTo(q, f, k)}
  <1> SUFFICES ASSUME Bad # {} PROVE FALSE
    OBVIOUS
  <1>1. PICK k \in Bad : \A j \in Bad : k <= j
    <2>1. Bad \in SUBSET Nat
      OBVIOUS
    <2> HIDE DEF Bad
    <2> QED BY <2>1, Least
  <1>2. CASE k = 0
    <2>1. KeptUpTo(q, [i \in 0..0 |-> <<>>], 0)
      BY DEF KeptUpTo, KeptNext
    <2> QED BY <1>1, <1>2, <2>1
  <1>3. CASE k # 0
    <2>1. k \in Nat /\ k - 1 \in 0..Len(q) /\ k \in 1..Len(q) /\ k - 1 \notin Bad
      BY <1>1, <1>3
    <2>2. PICK f : KeptUpTo(q, f, k - 1)
      BY <2>1
    <2> DEFINE g == [i \in 0..k |-> IF i < k THEN f[i] ELSE KeptNext(q, f, k)]
    <2>3. f \in [0..(k - 1) -> Seq(Core1Messages)] /\ f[k - 1] \in Seq(Core1Messages)
      BY <2>1, <2>2 DEF KeptUpTo
    <2>4. KeptNext(q, f, k) \in Seq(Core1Messages)
      BY <2>1, <2>3, <1>3 DEF KeptNext
    <2>5. g \in [0..k -> Seq(Core1Messages)]
      BY <2>1, <2>3, <2>4
    <2>6. ASSUME NEW i \in 0..k PROVE g[i] = KeptNext(q, g, i)
      <3>1. i # 0 => i - 1 \in 0..k /\ i - 1 < k /\ g[i - 1] = f[i - 1]
        BY <2>1
      <3>2. KeptNext(q, g, i) = KeptNext(q, f, i)
        BY <3>1 DEF KeptNext
      <3>3. CASE i = k
        BY <2>1, <3>2, <3>3
      <3>4. CASE i # k
        <4>1. i \in 0..(k - 1) /\ i < k
          BY <2>1, <3>4
        <4> QED BY <2>2, <3>2, <4>1 DEF KeptUpTo
      <3> QED BY <3>3, <3>4
    <2>7. KeptUpTo(q, g, k)
      BY <2>5, <2>6 DEF KeptUpTo
    <2> QED BY <1>1, <2>7
  <1> QED BY <1>2, <1>3

\* ForCore1 is what that solution keeps of the whole FIFO.
LEMMA KeptOf ==
  ASSUME NEW q \in Seq(Messages)
  PROVE  \E f : KeptUpTo(q, f, Len(q)) /\ ForCore1(q) = f[Len(q)]
  <1> DEFINE Solves(f) == f = [n \in 0..Len(q) |->
               IF n = 0 THEN <<>>
               ELSE IF q[n] \in Core1Messages THEN Append(f[n - 1], q[n]) ELSE f[n - 1]]
             s == CHOOSE f : Solves(f)
  <1>1. ForCore1(q) = s[Len(q)]
    BY DEF ForCore1
  <1>2. Len(q) \in Nat /\ Len(q) \in 0..Len(q)
    OBVIOUS
  <1>3. PICK g : KeptUpTo(q, g, Len(q))
    BY <1>2, KeptExists
  <1>4. Solves(g)
    BY <1>3 DEF KeptUpTo, KeptNext
  <1>5. Solves(s)
    <2> HIDE DEF Solves
    <2> QED BY <1>4
  <1> HIDE DEF s
  <1>6. \A i \in 0..Len(q) : s[i] = KeptNext(q, s, i)
    BY <1>5 DEF KeptNext
  <1>7. s = g
    <2> DEFINE Bad == {i \in 0..Len(q) : s[i] # g[i]}
    <2>1. ASSUME Bad # {} PROVE FALSE
      <3>1. PICK k \in Bad : \A j \in Bad : k <= j
        <4>1. Bad \in SUBSET Nat
          OBVIOUS
        <4> HIDE DEF Bad
        <4> QED BY <2>1, <4>1, Least
      <3>2. k # 0 => k - 1 \in 0..Len(q) /\ s[k - 1] = g[k - 1]
        BY <3>1
      <3>3. KeptNext(q, s, k) = KeptNext(q, g, k)
        BY <3>2 DEF KeptNext
      <3> QED BY <1>3, <1>6, <3>1, <3>3 DEF KeptUpTo
    <2>2. g = [i \in 0..Len(q) |-> g[i]] /\ s = [i \in 0..Len(q) |-> s[i]]
      BY <1>3, <1>5 DEF KeptUpTo
    <2> QED BY <2>1, <2>2
  <1> QED BY <1>1, <1>3, <1>7

\* No more is kept than there is.
LEMMA ForCore1Bounded ==
  ASSUME NEW q \in Seq(Messages)
  PROVE  ForCore1(q) \in Seq(Core1Messages) /\ Len(ForCore1(q)) <= Len(q)
  <1>1. PICK f : KeptUpTo(q, f, Len(q)) /\ ForCore1(q) = f[Len(q)]
    BY KeptOf
  <1> DEFINE Bad == {i \in 0..Len(q) : ~(Len(f[i]) <= i)}
  <1>2. ASSUME Bad # {} PROVE FALSE
    <2>1. PICK k \in Bad : \A j \in Bad : k <= j
      <3>1. Bad \in SUBSET Nat
        OBVIOUS
      <3> HIDE DEF Bad
      <3> QED BY <1>2, <3>1, Least
    <2>2. f[k] = KeptNext(q, f, k)
      BY <1>1, <2>1 DEF KeptUpTo
    <2>3. CASE k = 0
      BY <2>1, <2>2, <2>3 DEF KeptNext
    <2>4. CASE k # 0
      <3>1. k - 1 \in 0..Len(q) /\ k - 1 \notin Bad /\ k \in Nat
        BY <2>1, <2>4
      <3>2. f[k - 1] \in Seq(Core1Messages) /\ Len(f[k - 1]) <= k - 1
        BY <1>1, <3>1 DEF KeptUpTo
      <3>3. Len(f[k]) <= k
        BY <2>2, <2>4, <3>1, <3>2 DEF KeptNext
      <3> QED BY <2>1, <3>3
    <2> QED BY <2>3, <2>4
  <1>3. Len(q) \in 0..Len(q) /\ Len(q) \notin Bad
    BY <1>2
  <1> QED BY <1>1, <1>3 DEF KeptUpTo

\* The solutions of two FIFOs agree as far as the FIFOs do.
LEMMA KeptAgree ==
  ASSUME NEW q, NEW p, NEW f, NEW g, NEW n \in Nat,
         KeptUpTo(q, f, n), KeptUpTo(p, g, n), \A i \in 1..n : q[i] = p[i]
  PROVE  \A i \in 0..n : f[i] = g[i]
  <1> DEFINE Bad == {i \in 0..n : f[i] # g[i]}
  <1> SUFFICES ASSUME Bad # {} PROVE FALSE
    OBVIOUS
  <1>1. PICK k \in Bad : \A j \in Bad : k <= j
    <2>1. Bad \in SUBSET Nat
      OBVIOUS
    <2> HIDE DEF Bad
    <2> QED BY <2>1, Least
  <1>2. k # 0 => k - 1 \in 0..n /\ f[k - 1] = g[k - 1] /\ q[k] = p[k]
    BY <1>1
  <1>3. KeptNext(q, f, k) = KeptNext(p, g, k)
    BY <1>2 DEF KeptNext
  <1> QED BY <1>1, <1>3 DEF KeptUpTo

\* Nothing is kept of an empty FIFO.
LEMMA ForCore1Empty == ForCore1(<<>>) = <<>>
  <1>1. <<>> \in Seq(Messages) /\ Len(<<>>) = 0
    OBVIOUS
  <1>2. PICK f : KeptUpTo(<<>>, f, 0) /\ ForCore1(<<>>) = f[0]
    <2>1. \E f : KeptUpTo(<<>>, f, Len(<<>>)) /\ ForCore1(<<>>) = f[Len(<<>>)]
      BY <1>1, KeptOf, Zenon
    <2> QED BY <1>1, <2>1
  <1> QED BY <1>2 DEF KeptUpTo, KeptNext

\* A message for core 1 joins those that wait for it, another one does not.
LEMMA ForCore1Append ==
  ASSUME NEW q \in Seq(Messages), NEW m \in Messages
  PROVE  ForCore1(Append(q, m)) =
           IF m \in Core1Messages THEN Append(ForCore1(q), m) ELSE ForCore1(q)
  <1> DEFINE p == Append(q, m)  n == Len(q)
  <1>1. /\ p \in Seq(Messages) /\ Len(p) = n + 1 /\ n \in Nat
        /\ p[n + 1] = m /\ \A i \in 1..n : p[i] = q[i]
    OBVIOUS
  <1> HIDE DEF p
  <1>2. PICK f : KeptUpTo(q, f, n) /\ ForCore1(q) = f[n]
    BY KeptOf
  <1>3. PICK g : KeptUpTo(p, g, n + 1) /\ ForCore1(p) = g[n + 1]
    BY <1>1, KeptOf
  <1> HIDE DEF n
  <1>4. \E h : KeptUpTo(p, h, n) /\ h[n] = g[n]
    <2> DEFINE h == [i \in 0..n |-> g[i]]
    <2>1. h \in [0..n -> Seq(Core1Messages)]
      BY <1>1, <1>3 DEF KeptUpTo
    <2>2. ASSUME NEW i \in 0..n PROVE h[i] = KeptNext(p, h, i)
      <3>1. i \in 0..(n + 1) /\ (i # 0 => i - 1 \in 0..n)
        BY <1>1
      <3>2. KeptNext(p, h, i) = KeptNext(p, g, i)
        BY <3>1 DEF KeptNext
      <3> QED BY <1>3, <3>1, <3>2 DEF KeptUpTo
    <2>3. h[n] = g[n]
      BY <1>1
    <2> HIDE DEF h
    <2> QED BY <2>1, <2>2, <2>3 DEF KeptUpTo
  <1>5. g[n] = f[n]
    <2>1. PICK h : KeptUpTo(p, h, n) /\ h[n] = g[n]
      BY <1>4
    <2>2. h[n] = f[n]
      BY <1>1, <1>2, <2>1, KeptAgree
    <2> QED BY <2>1, <2>2
  <1>6. g[n + 1] = KeptNext(p, g, n + 1)
    BY <1>1, <1>3 DEF KeptUpTo
  <1>7. ForCore1(p) = IF m \in Core1Messages THEN Append(ForCore1(q), m) ELSE ForCore1(q)
    BY <1>1, <1>2, <1>3, <1>5, <1>6 DEF KeptNext
  <1> QED BY <1>7 DEF p

\* Appending to the second part is appending to the whole.
LEMMA AppendToConcat ==
  ASSUME NEW a \in Seq(Core1Messages), NEW b \in Seq(Core1Messages), NEW x \in Core1Messages
  PROVE  Append(a \o b, x) = a \o Append(b, x)
  <1>1. a \o b \in Seq(Core1Messages) /\ <<x>> \in Seq(Core1Messages)
    BY ConcatProperties
  <1>2. Append(a \o b, x) = (a \o b) \o <<x>> /\ Append(b, x) = b \o <<x>>
    BY <1>1, AppendIsConcat
  <1>3. (a \o b) \o <<x>> = a \o (b \o <<x>>)
    BY <1>1, ConcatAssociative
  <1> QED BY <1>2, <1>3

\* The message as a sequence, if it is for core 1.
OnlyForCore1(m) == IF m \in Core1Messages THEN <<m>> ELSE <<>>

\* What is kept of a FIFO is what is kept of its first message, then of the others.
LEMMA ForCore1Taken ==
  ASSUME NEW q \in Seq(Messages), q # <<>>
  PROVE  ForCore1(q) = OnlyForCore1(Head(q)) \o ForCore1(Tail(q))
  <1> DEFINE p == Tail(q)  n == Len(p)  c == OnlyForCore1(q[1])
  <1>1. /\ p \in Seq(Messages) /\ Len(q) = n + 1 /\ n \in Nat /\ Head(q) = q[1]
        /\ q[1] \in Messages /\ \A i \in 1..n : p[i] = q[i + 1]
    OBVIOUS
  <1> HIDE DEF p
  <1>2. PICK f : KeptUpTo(q, f, n + 1) /\ ForCore1(q) = f[n + 1]
    BY <1>1, KeptOf
  <1>3. PICK g : KeptUpTo(p, g, n) /\ ForCore1(p) = g[n]
    BY <1>1, KeptOf
  <1> HIDE DEF n
  <1>4. c \in Seq(Core1Messages)
    BY DEF OnlyForCore1
  <1>5. f[1] = c /\ g[0] = <<>>
    <2>1. f[0] = KeptNext(q, f, 0) /\ f[1] = KeptNext(q, f, 1) /\ g[0] = KeptNext(p, g, 0)
      BY <1>1, <1>2, <1>3 DEF KeptUpTo
    <2>2. f[1] = IF q[1] \in Core1Messages THEN Append(f[0], q[1]) ELSE f[0]
      <3>1. 1 # 0 /\ 1 - 1 = 0
        OBVIOUS
      <3> QED BY <2>1, <3>1 DEF KeptNext
    <2>3. f[0] = <<>> /\ g[0] = <<>>
      BY <2>1 DEF KeptNext
    <2> QED BY <2>2, <2>3 DEF OnlyForCore1
  <1> HIDE DEF c
  <1> DEFINE Bad == {i \in 0..n : f[i + 1] # c \o g[i]}
  <1>6. ASSUME Bad # {} PROVE FALSE
    <2>1. PICK k \in Bad : \A j \in Bad : k <= j
      <3>1. Bad \in SUBSET Nat
        OBVIOUS
      <3> HIDE DEF Bad
      <3> QED BY <1>6, <3>1, Least
    <2>2. CASE k = 0
      BY <1>4, <1>5, <2>1, <2>2
    <2>3. CASE k # 0
      <3>1. k \in 1..n /\ k - 1 \in 0..n /\ f[k] = c \o g[k - 1] /\ p[k] = q[k + 1]
        BY <1>1, <2>1, <2>3
      <3>2. g[k - 1] \in Seq(Core1Messages) /\ k + 1 \in 0..(n + 1) /\ (k + 1) - 1 = k /\ k + 1 # 0
        BY <1>1, <1>3, <3>1 DEF KeptUpTo
      <3>3. f[k + 1] = KeptNext(q, f, k + 1) /\ g[k] = KeptNext(p, g, k)
        BY <1>1, <1>2, <1>3, <3>1, <3>2 DEF KeptUpTo
      <3>4. f[k + 1] = IF p[k] \in Core1Messages THEN Append(c \o g[k - 1], p[k]) ELSE c \o g[k - 1]
        BY <3>1, <3>2, <3>3 DEF KeptNext
      <3>5. g[k] = IF p[k] \in Core1Messages THEN Append(g[k - 1], p[k]) ELSE g[k - 1]
        BY <3>1, <3>3 DEF KeptNext
      <3>6. \A x \in Core1Messages : Append(c \o g[k - 1], x) = c \o Append(g[k - 1], x)
        <4>1. PICK a \in Seq(Core1Messages), b \in Seq(Core1Messages) : a = c /\ b = g[k - 1]
          BY <1>4, <3>2
        <4>2. \A x \in Core1Messages : Append(a \o b, x) = a \o Append(b, x)
          BY AppendToConcat
        <4> QED BY <4>1, <4>2
      <3>7. f[k + 1] = c \o g[k]
        BY <3>4, <3>5, <3>6
      <3> QED BY <2>1, <3>7
    <2> QED BY <2>2, <2>3
  <1>7. f[n + 1] = c \o g[n]
    <2>1. n \in 0..n
      BY <1>1
    <2>2. n \notin Bad
      <3> HIDE DEF Bad
      <3> QED BY <1>6
    <2> QED BY <2>1, <2>2
  <1> QED BY <1>1, <1>2, <1>3, <1>7 DEF c, p

-----------------------------------------------------------------------------
(* The refinement of Channel.                                              *)

\* The messages for core 1 on their way.
OnTheWay == InHand(1) \o appm3Fifo \o InHand(0) \o ForCore1(sysm3Fifo)

\* A handler holds a message from taking it to passing it on.
HoldsWhatItTook ==
  /\ pc[0] \in {"idle", "trigger"} => arg[0] = INVALIDPAYLOAD
  /\ pc[1] \in {"again", "rearm", "call"} => arg[1] \in Core1Messages
  /\ pc[1] \in {"idle", "clear", "status"} => arg[1] = INVALIDPAYLOAD

\* The parts of what is on its way, as sequences of messages for core 1.
LEMMA Parts ==
  ASSUME TypeOK
  PROVE  /\ InHand(0) \in Seq(Core1Messages) /\ Len(InHand(0)) <= 1
         /\ InHand(1) \in Seq(Core1Messages) /\ Len(InHand(1)) <= 1
         /\ appm3Fifo \in Seq(Core1Messages)
         /\ sysm3Fifo \in Seq(Messages)
         /\ ForCore1(sysm3Fifo) \in Seq(Core1Messages)
         /\ Len(ForCore1(sysm3Fifo)) <= Len(sysm3Fifo)
         /\ OnTheWay \in Seq(Core1Messages)
         /\ Len(OnTheWay) = Len(InHand(1)) + Len(appm3Fifo) + Len(InHand(0)) + Len(ForCore1(sysm3Fifo))
  <1>1. /\ InHand(0) \in Seq(Core1Messages) /\ Len(InHand(0)) <= 1
        /\ InHand(1) \in Seq(Core1Messages) /\ Len(InHand(1)) <= 1
    BY DEF InHand
  <1>2. appm3Fifo \in Seq(Core1Messages) /\ sysm3Fifo \in Seq(Messages)
    BY DEF TypeOK
  <1>3. ForCore1(sysm3Fifo) \in Seq(Core1Messages) /\ Len(ForCore1(sysm3Fifo)) <= Len(sysm3Fifo)
    BY <1>2, ForCore1Bounded
  <1>4. \A h, p, g, q \in Seq(Core1Messages) :
          h \o p \o g \o q \in Seq(Core1Messages)
          /\ Len(h \o p \o g \o q) = Len(h) + Len(p) + Len(g) + Len(q)
    OBVIOUS
  <1> QED BY <1>1, <1>2, <1>3, <1>4 DEF OnTheWay

\* The operators on sequences under names, for the provers to take as they are: what
\* they need to know of them is in Joins.
Part == Seq(Core1Messages)
Nil == <<>>
One(m) == <<m>>
Add(q, m) == Append(q, m)
Join(a, b) == a \o b

\* What is on its way, in parts.
Way(h, p, g, q) == Join(Join(Join(h, p), g), q)

\* The end of a concatenation, and the concatenation of three.
LEMMA Joins ==
  /\ Nil \in Part
  /\ \A a, b \in Part : Join(a, b) \in Part
  /\ \A a \in Part : Join(a, Nil) = a /\ Join(Nil, a) = a
  /\ \A a, b, c \in Part : Join(a, Join(b, c)) = Join(Join(a, b), c)
  /\ \A m \in Core1Messages : One(m) \in Part
  /\ \A a \in Part, m \in Core1Messages : Add(a, m) = Join(a, One(m))
  <1>1. \A a, b \in Part : Join(a, b) \in Part
    BY DEF Join, Part
  <1>2. Nil \in Part /\ \A a \in Part : Join(a, Nil) = a /\ Join(Nil, a) = a
    BY DEF Join, Part, Nil
  <1>3. ASSUME NEW a \in Seq(Core1Messages), NEW b \in Seq(Core1Messages), NEW c \in Seq(Core1Messages)
        PROVE  Join(a, Join(b, c)) = Join(Join(a, b), c)
    <2> DEFINE l == (a \o b) \o c  r == a \o (b \o c)
    <2>1. (a \o b) \in Seq(Core1Messages) /\ b \o c \in Seq(Core1Messages)
      OBVIOUS
    <2>2. l \in Seq(Core1Messages) /\ r \in Seq(Core1Messages) /\ Len(l) = Len(r)
      BY <2>1
    <2>3. \A i \in 1..Len(l) : l[i] = r[i]
      BY <2>1
    <2> HIDE DEF l, r
    <2>4. l = r
      BY <2>2, <2>3, SeqEqual
    <2> QED BY <2>4 DEF l, r, Join
  <1>4. \A a, b, c \in Part : Join(a, Join(b, c)) = Join(Join(a, b), c)
    BY <1>3 DEF Part
  <1>5. \A m \in Core1Messages : One(m) \in Part
    BY DEF One, Part
  <1>6. ASSUME NEW a \in Part, NEW m \in Core1Messages PROVE Add(a, m) = Join(a, One(m))
    <2>1. a \in Seq(Core1Messages)
      BY DEF Part
    <2> QED BY <2>1, AppendIsConcat DEF Add, One, Join
  <1> QED BY <1>1, <1>2, <1>4, <1>5, <1>6

\* A message that moves from the front of one part to the end of the part before it
\* stays where it is in the whole, and so does one that comes at the end.
LEMMA Moves ==
  ASSUME NEW h \in Part, NEW p \in Part, NEW g \in Part, NEW q \in Part
  PROVE  /\ Way(h, p, Nil, Join(g, q)) = Way(h, p, g, q)
         /\ \A m \in Core1Messages :
              /\ Way(h, p, g, Add(q, m)) = Add(Way(h, p, g, q), m)
              /\ Way(h, Add(p, m), Nil, q) = Way(h, p, One(m), q)
         /\ Way(h, p, g, q) = Join(h, Way(Nil, p, g, q)) /\ Way(Nil, p, g, q) \in Part
  <1>1. /\ Join(h, p) \in Part /\ Join(Join(h, p), g) \in Part /\ Join(p, g) \in Part
        /\ Join(Join(h, p), Nil) = Join(h, p) /\ Join(Nil, p) = p
        /\ Join(Join(Join(h, p), g), q) \in Part /\ Join(Join(p, g), q) \in Part
    BY Joins
  <1>2. Way(h, p, Nil, Join(g, q)) = Way(h, p, g, q)
    <2>1. Join(Join(h, p), Join(g, q)) = Join(Join(Join(h, p), g), q)
      BY <1>1, Joins
    <2> QED BY <1>1, <2>1 DEF Way
  <1>3. ASSUME NEW m \in Core1Messages
        PROVE  /\ Way(h, p, g, Add(q, m)) = Add(Way(h, p, g, q), m)
               /\ Way(h, Add(p, m), Nil, q) = Way(h, p, One(m), q)
    <2>1. /\ One(m) \in Part /\ Add(q, m) = Join(q, One(m)) /\ Add(p, m) = Join(p, One(m))
          /\ Add(Join(Join(Join(h, p), g), q), m) = Join(Join(Join(Join(h, p), g), q), One(m))
      BY <1>1, Joins
    <2>2. Join(Join(Join(h, p), g), Join(q, One(m))) = Join(Join(Join(Join(h, p), g), q), One(m))
      BY <1>1, <2>1, Joins
    <2>3. Join(Join(h, Join(p, One(m))), Nil) = Join(Join(h, p), One(m))
      <3>1. Join(h, Join(p, One(m))) = Join(Join(h, p), One(m))
        BY <2>1, Joins
      <3>2. Join(Join(h, p), One(m)) \in Part
        BY <1>1, <2>1, Joins
      <3>3. Join(Join(Join(h, p), One(m)), Nil) = Join(Join(h, p), One(m))
        BY <3>2, Joins
      <3> QED BY <3>1, <3>3
    <2> QED BY <2>1, <2>2, <2>3 DEF Way
  <1>4. Way(h, p, g, q) = Join(h, Way(Nil, p, g, q)) /\ Way(Nil, p, g, q) \in Part
    <2>1. Join(Join(h, p), g) = Join(h, Join(p, g))
      BY Joins
    <2>2. Join(Join(h, Join(p, g)), q) = Join(h, Join(Join(p, g), q))
      BY <1>1, Joins
    <2> QED BY <1>1, <2>1, <2>2 DEF Way
  <1> QED BY <1>2, <1>3, <1>4

\* The first message of a part, and the rest.
LEMMA First ==
  /\ \A m \in Core1Messages, r \in Part :
       Join(One(m), r) # Nil /\ Head(Join(One(m), r)) = m /\ Tail(Join(One(m), r)) = r
  /\ \A p \in Part : p # Nil => Tail(p) \in Part /\ Head(p) \in Core1Messages
                                /\ p = Join(One(Head(p)), Tail(p))
  <1>1. ASSUME NEW m \in Core1Messages, NEW r \in Seq(Core1Messages)
        PROVE  <<m>> \o r # <<>> /\ Head(<<m>> \o r) = m /\ Tail(<<m>> \o r) = r
    <2>0. <<m>> \in Seq(Core1Messages) /\ <<m>> \o r \in Seq(Core1Messages)
      OBVIOUS
    <2>1. PICK s \in Seq(Core1Messages) : s = <<m>> \o r
      BY <2>0
    <2>2. Len(s) = Len(r) + 1 /\ s[1] = m /\ \A i \in 1..Len(r) : s[i + 1] = r[i]
      BY <2>1
    <2>3. s # <<>> /\ Len(s) \in Nat /\ Len(r) \in Nat
      BY <2>2
    <2>4. /\ Head(s) = m /\ Tail(s) \in Seq(Core1Messages) /\ Len(Tail(s)) = Len(r)
          /\ \A i \in 1..Len(r) : Tail(s)[i] = r[i]
      BY <2>2, <2>3, HeadTailProperties
    <2>5. Tail(s) = r
      BY <2>4, SeqEqual
    <2> QED BY <2>1, <2>3, <2>4, <2>5
  <1>2. \A p \in Seq(Core1Messages) : p # <<>> =>
          Tail(p) \in Seq(Core1Messages) /\ Head(p) \in Core1Messages /\ p = <<Head(p)>> \o Tail(p)
    OBVIOUS
  <1>3. \A m \in Core1Messages, r \in Part :
          Join(One(m), r) # Nil /\ Head(Join(One(m), r)) = m /\ Tail(Join(One(m), r)) = r
    BY <1>1 DEF Part, Join, One, Nil
  <1>4. \A p \in Part : p # Nil => Tail(p) \in Part /\ Head(p) \in Core1Messages
                                   /\ p = Join(One(Head(p)), Tail(p))
    BY <1>2 DEF Part, Join, One, Nil
  <1> QED BY <1>3, <1>4

\* Every step puts a message for core 1 on its way, or delivers the one that is
\* longest on its way, or changes neither.
LEMMA ChannelStep ==
  TypeOK /\ TypeOK' /\ HoldsWhatItTook /\ [Next]_vars
    => HoldsWhatItTook' /\ [CH!Next]_<<OnTheWay, called>>
  <1> SUFFICES ASSUME TypeOK, TypeOK', HoldsWhatItTook, [Next]_vars
               PROVE  HoldsWhatItTook' /\ [CH!Next]_<<OnTheWay, called>>
    OBVIOUS
  <1> DEFINE Stays == OnTheWay' = OnTheWay /\ called' = called
             Comes == /\ Len(OnTheWay) < 2 * FifoSize + 2 /\ called' = called
                      /\ \E m \in Core1Messages : OnTheWay' = Append(OnTheWay, m)
             Goes == /\ OnTheWay # <<>> /\ called' = Head(OnTheWay)
                     /\ OnTheWay' = Tail(OnTheWay)
             Shown == HoldsWhatItTook' /\ (Stays \/ Comes \/ Goes)
  <1>0. /\ INVALIDPAYLOAD \notin Core1Messages
        /\ \A m \in Core0Messages : m \notin Core1Messages
    BY MessagesAssumption DEF Messages
  <1>a. pc \in [Cores -> Places] /\ arg \in [Cores -> Messages \cup {INVALIDPAYLOAD}]
    BY DEF TypeOK
  <1>b. /\ InHand(0) \in Seq(Core1Messages) /\ Len(InHand(0)) <= 1
        /\ InHand(1) \in Seq(Core1Messages) /\ Len(InHand(1)) <= 1
        /\ appm3Fifo \in Seq(Core1Messages) /\ Len(appm3Fifo) <= FifoSize
        /\ sysm3Fifo \in Seq(Messages)
        /\ ForCore1(sysm3Fifo) \in Seq(Core1Messages)
        /\ Len(ForCore1(sysm3Fifo)) <= Len(sysm3Fifo)
        /\ Len(OnTheWay) = Len(InHand(1)) + Len(appm3Fifo) + Len(InHand(0)) + Len(ForCore1(sysm3Fifo))
    BY Parts DEF TypeOK
  <1>c. ASSUME NEW c \in Cores, arg'[c] = arg[c] PROVE InHand(c)' = InHand(c)
    BY <1>c DEF InHand
  <1>d. PICK h \in Seq(Core1Messages), p \in Seq(Core1Messages),
             g \in Seq(Core1Messages), q \in Seq(Core1Messages) :
          /\ h = InHand(1) /\ p = appm3Fifo /\ g = InHand(0) /\ q = ForCore1(sysm3Fifo)
          /\ OnTheWay = h \o p \o g \o q
    BY <1>b DEF OnTheWay
  <1>e. h \in Part /\ p \in Part /\ g \in Part /\ q \in Part
    BY DEF Part
  <1>1. ASSUME NEW m \in Messages, HostSend(m) PROVE Shown
    <2>1. /\ Len(sysm3Fifo) < FifoSize /\ sysm3Fifo' = Append(sysm3Fifo, m)
          /\ UNCHANGED <<appm3Fifo, interrupt1, pc, arg, called>>
      BY <1>1 DEF HostSend
    <2>2. HoldsWhatItTook'
      BY <2>1 DEF HoldsWhatItTook
    <2>3. InHand(0)' = InHand(0) /\ InHand(1)' = InHand(1)
      BY <2>1 DEF InHand
    <2>4. ForCore1(sysm3Fifo)' = ForCore1(sysm3Fifo')
      BY DEF ForCore1
    <2>5. ForCore1(sysm3Fifo') =
            IF m \in Core1Messages THEN Append(q, m) ELSE q
      BY <1>b, <1>d, <2>1, ForCore1Append
    <2>6. OnTheWay' = h \o p \o g \o ForCore1(sysm3Fifo')
      BY <1>d, <2>1, <2>3, <2>4 DEF OnTheWay
    <2>7. CASE m \in Core1Messages
      <3>1. OnTheWay' = Append(OnTheWay, m)
        <4>1. Way(h, p, g, Add(q, m)) = Add(Way(h, p, g, q), m)
          BY <1>e, <2>7, Moves
        <4>2. h \o p \o g \o Append(q, m) = Append(h \o p \o g \o q, m)
          BY <4>1 DEF Way, Join, Add
        <4> QED BY <1>d, <2>5, <2>6, <2>7, <4>2
      <3>2. Len(OnTheWay) < 2 * FifoSize + 2
        <4> DEFINE a == Len(InHand(1)) b == Len(appm3Fifo) c == Len(InHand(0))
                   d == Len(ForCore1(sysm3Fifo)) e == Len(sysm3Fifo)
        <4>1. a \in Nat /\ b \in Nat /\ c \in Nat /\ d \in Nat /\ e \in Nat
          BY <1>b, LenProperties
        <4>2. a <= 1 /\ b <= FifoSize /\ c <= 1 /\ d <= e /\ e < FifoSize
              /\ Len(OnTheWay) = a + b + c + d
          BY <1>b, <2>1
        <4> HIDE DEF a, b, c, d, e
        <4> QED BY <4>1, <4>2, FifoAssumption
      <3> QED BY <2>1, <2>2, <2>7, <3>1, <3>2
    <2>8. CASE m \notin Core1Messages
      BY <1>d, <2>1, <2>2, <2>5, <2>6, <2>8
    <2> QED BY <2>7, <2>8
  <1>2. ASSUME Take0 PROVE Shown
    <2>1. /\ pc[0] = "idle" /\ sysm3Fifo # <<>>
          /\ arg' = [arg EXCEPT ![0] = Head(sysm3Fifo)]
          /\ sysm3Fifo' = Tail(sysm3Fifo) /\ pc' = [pc EXCEPT ![0] = "call"]
          /\ UNCHANGED <<appm3Fifo, interrupt1, called>>
      BY <1>2 DEF Take0, Goto
    <2>2. HoldsWhatItTook'
      BY <1>a, <2>1 DEF HoldsWhatItTook, Cores
    <2>3. /\ InHand(1)' = InHand(1) /\ InHand(0) = <<>>
          /\ InHand(0)' = OnlyForCore1(Head(sysm3Fifo))
      BY <1>0, <1>a, <2>1 DEF InHand, OnlyForCore1, HoldsWhatItTook, Cores
    <2>4. ForCore1(sysm3Fifo)' = ForCore1(sysm3Fifo')
      BY DEF ForCore1
    <2>5. PICK c \in Seq(Core1Messages), r \in Seq(Core1Messages) :
            c = OnlyForCore1(Head(sysm3Fifo)) /\ r = ForCore1(Tail(sysm3Fifo))
      <3>1. Tail(sysm3Fifo) \in Seq(Messages)
        BY <1>b, <2>1
      <3>2. OnlyForCore1(Head(sysm3Fifo)) \in Seq(Core1Messages)
        BY DEF OnlyForCore1
      <3>3. ForCore1(Tail(sysm3Fifo)) \in Seq(Core1Messages)
        BY <3>1, ForCore1Bounded
      <3> QED BY <3>2, <3>3
    <2>6. q = c \o r
      BY <1>b, <1>d, <2>1, <2>5, ForCore1Taken
    <2>7. OnTheWay' = h \o p \o c \o r
      BY <1>d, <2>1, <2>3, <2>4, <2>5 DEF OnTheWay
    <2>8. OnTheWay = h \o p \o <<>> \o (c \o r)
      BY <1>d, <2>3, <2>6
    <2>9. OnTheWay' = OnTheWay
      <3>1. c \in Part /\ r \in Part
        BY DEF Part
      <3>2. Way(h, p, Nil, Join(c, r)) = Way(h, p, c, r)
        BY <1>e, <3>1, Moves
      <3>3. h \o p \o <<>> \o (c \o r) = h \o p \o c \o r
        BY <3>2 DEF Way, Join, Nil
      <3> QED BY <2>7, <2>8, <3>3
    <2> QED BY <2>1, <2>2, <2>9
  <1>3. ASSUME Keep0 PROVE Shown
    <2>1. /\ pc[0] = "call" /\ arg[0] \in Core0Messages
          /\ arg' = [arg EXCEPT ![0] = INVALIDPAYLOAD] /\ pc' = [pc EXCEPT ![0] = "idle"]
          /\ UNCHANGED <<sysm3Fifo, appm3Fifo, interrupt1, called>>
      BY <1>3 DEF Keep0, Goto
    <2>2. HoldsWhatItTook'
      BY <1>a, <2>1 DEF HoldsWhatItTook, Cores
    <2>3. InHand(1)' = InHand(1) /\ InHand(0)' = InHand(0)
      BY <1>0, <1>a, <2>1 DEF InHand, Cores
    <2> QED BY <2>1, <2>2, <2>3 DEF OnTheWay, ForCore1
  <1>4. ASSUME Forward0 PROVE Shown
    <2>1. /\ pc[0] = "call" /\ arg[0] \in Core1Messages
          /\ appm3Fifo' = Append(appm3Fifo, arg[0])
          /\ arg' = [arg EXCEPT ![0] = INVALIDPAYLOAD] /\ pc' = [pc EXCEPT ![0] = "trigger"]
          /\ UNCHANGED <<sysm3Fifo, interrupt1, called>>
      BY <1>4 DEF Forward0, Goto
    <2>2. HoldsWhatItTook'
      BY <1>a, <2>1 DEF HoldsWhatItTook, Cores
    <2>3. InHand(1)' = InHand(1) /\ InHand(0) = <<arg[0]>> /\ InHand(0)' = <<>>
      BY <1>0, <1>a, <2>1 DEF InHand, Cores
    <2>4. ForCore1(sysm3Fifo)' = ForCore1(sysm3Fifo)
      BY <2>1 DEF ForCore1
    <2>5. PICK m \in Core1Messages : m = arg[0]
      BY <2>1
    <2>6. OnTheWay' = h \o Append(p, m) \o <<>> \o q
      BY <1>d, <2>1, <2>3, <2>4, <2>5 DEF OnTheWay
    <2>7. OnTheWay' = OnTheWay
      <3>1. Way(h, Add(p, m), Nil, q) = Way(h, p, One(m), q)
        BY <1>e, Moves
      <3>2. h \o Append(p, m) \o <<>> \o q = h \o p \o <<m>> \o q
        BY <3>1 DEF Way, Join, Add, Nil, One
      <3> QED BY <1>d, <2>3, <2>5, <2>6, <3>2
    <2> QED BY <2>1, <2>2, <2>7
  <1>5. ASSUME Take1 PROVE Shown
    <2>1. /\ pc[1] = "status" /\ appm3Fifo # <<>>
          /\ arg' = [arg EXCEPT ![1] = Head(appm3Fifo)]
          /\ appm3Fifo' = Tail(appm3Fifo) /\ pc' = [pc EXCEPT ![1] = "again"]
          /\ UNCHANGED <<sysm3Fifo, interrupt1, called>>
      BY <1>5 DEF Take1, Goto
    <2>2. Head(appm3Fifo) \in Core1Messages
      BY <1>b, <2>1, HeadTailProperties
    <2>3. HoldsWhatItTook'
      BY <1>a, <2>1, <2>2 DEF HoldsWhatItTook, Cores
    <2>4. InHand(0)' = InHand(0) /\ InHand(1) = <<>> /\ InHand(1)' = <<Head(appm3Fifo)>>
      BY <1>0, <1>a, <2>1, <2>2 DEF InHand, HoldsWhatItTook, Cores
    <2>5. ForCore1(sysm3Fifo)' = ForCore1(sysm3Fifo)
      BY <2>1 DEF ForCore1
    <2>6. OnTheWay' = <<Head(p)>> \o Tail(p) \o g \o q
      BY <1>d, <2>1, <2>4, <2>5 DEF OnTheWay
    <2>7. OnTheWay' = OnTheWay
      <3>1. p # Nil
        BY <1>d, <2>1 DEF Nil
      <3>2. Join(One(Head(p)), Tail(p)) = Join(Nil, p)
        BY <1>e, <3>1, First, Joins
      <3>3. <<Head(p)>> \o Tail(p) = <<>> \o p
        BY <3>2 DEF Join, One, Nil
      <3> QED BY <1>d, <2>4, <2>6, <3>3
    <2> QED BY <2>1, <2>3, <2>7
  <1>6. ASSUME Call1 PROVE Shown
    <2>1. /\ pc[1] = "call" /\ called' = arg[1]
          /\ arg' = [arg EXCEPT ![1] = INVALIDPAYLOAD] /\ pc' = [pc EXCEPT ![1] = "idle"]
          /\ UNCHANGED <<sysm3Fifo, appm3Fifo, interrupt1>>
      BY <1>6 DEF Call1, Goto
    <2>2. HoldsWhatItTook' /\ arg[1] \in Core1Messages
      BY <1>a, <2>1 DEF HoldsWhatItTook, Cores
    <2>3. InHand(0)' = InHand(0) /\ InHand(1) = <<arg[1]>> /\ InHand(1)' = <<>>
      BY <1>0, <1>a, <2>1, <2>2 DEF InHand, Cores
    <2>4. ForCore1(sysm3Fifo)' = ForCore1(sysm3Fifo)
      BY <2>1 DEF ForCore1
    <2>5. PICK m \in Core1Messages : m = arg[1]
      BY <2>2
    <2>6. OnTheWay' = <<>> \o p \o g \o q /\ OnTheWay = <<m>> \o p \o g \o q
      BY <1>d, <2>1, <2>3, <2>4, <2>5 DEF OnTheWay
    <2>7. /\ Head(<<m>> \o p \o g \o q) = m
          /\ Tail(<<m>> \o p \o g \o q) = <<>> \o p \o g \o q
          /\ <<m>> \o p \o g \o q # <<>>
      <3>1. One(m) \in Part
        BY Joins
      <3>2. Way(One(m), p, g, q) = Join(One(m), Way(Nil, p, g, q)) /\ Way(Nil, p, g, q) \in Part
        BY <1>e, <3>1, Moves
      <3>3. /\ Head(Way(One(m), p, g, q)) = m
            /\ Tail(Way(One(m), p, g, q)) = Way(Nil, p, g, q)
            /\ Way(One(m), p, g, q) # Nil
        BY <3>2, First
      <3> QED BY <3>3 DEF Way, Join, One, Nil
    <2>8. Goes
      BY <2>1, <2>5, <2>6, <2>7
    <2> QED BY <2>2, <2>8
  <1>7. ASSUME Trigger0 \/ Interrupt1 \/ Clear1 \/ Nothing1 \/ Again1 \/ Rearm1 \/ UNCHANGED vars PROVE Shown
    <2>1. UNCHANGED <<sysm3Fifo, appm3Fifo, arg, called>>
      BY <1>7 DEF Trigger0, Interrupt1, Clear1, Nothing1, Again1, Rearm1, vars
    <2>2. HoldsWhatItTook'
      BY <1>7, <1>a DEF Trigger0, Interrupt1, Clear1, Nothing1, Again1, Rearm1, vars,
                        HoldsWhatItTook, Goto, Cores
    <2> QED BY <2>1, <2>2 DEF OnTheWay, InHand, ForCore1
  <1>8. Shown
    <2> HIDE DEF Shown
    <2> QED BY <1>1, <1>2, <1>3, <1>4, <1>5, <1>6, <1>7 DEF Next, Core0Step, Core1Step
  <1>9. Comes \/ Goes => CH!Next
    BY DEF CH!Next, CH!Put, CH!Get, OnTheWay
  <1> QED BY <1>8, <1>9

\* What the host sends to core 1 gets to the handler of core 1 once each and in
\* order, through two FIFOs of any size, one of which it shares with what is for
\* core 0, and however the handlers of the two cores interleave.
THEOREM MailboxesImplementChannel == Spec => RefinesChannel
  <1>1. Init => CH!Init /\ HoldsWhatItTook
    <2> SUFFICES ASSUME Init PROVE CH!Init /\ HoldsWhatItTook
      OBVIOUS
    <2>1. HoldsWhatItTook
      BY DEF Init, HoldsWhatItTook, Cores
    <2>2. InHand(0) = <<>> /\ InHand(1) = <<>> /\ appm3Fifo = <<>>
      BY MessagesAssumption DEF Init, InHand, Cores, Messages
    <2>3. ForCore1(sysm3Fifo) = <<>>
      BY ForCore1Empty DEF Init
    <2>4. OnTheWay = <<>>
      BY <2>2, <2>3 DEF OnTheWay
    <2> QED BY <2>1, <2>4 DEF Init, CH!Init, OnTheWay
  <1>2. TypeOK /\ TypeOK' /\ HoldsWhatItTook /\ [Next]_vars
          => HoldsWhatItTook' /\ [CH!Next]_<<InHand(1) \o appm3Fifo \o InHand(0) \o ForCore1(sysm3Fifo), called>>
    BY ChannelStep DEF OnTheWay
  <1> QED BY <1>1, <1>2, TypeCorrect, PTL DEF Spec, RefinesChannel, CH!Spec
=============================================================================
