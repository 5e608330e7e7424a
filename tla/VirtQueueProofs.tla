--------------------------- MODULE VirtQueueProofs ----------------------------
(***************************************************************************)
(* Proofs about the two directions of the transport, RemoteSend and        *)
(* Arrivals, for any number of buffers and of tasks and any width of the   *)
(* indices: the two rings of a queue are FIFOs of descriptors however      *)
(* often their indices wrap, every descriptor is in one place, and each    *)
(* direction is the abstract channel.                                      *)
(***************************************************************************)
EXTENDS RemoteSend, Arrivals, FiniteSetTheorems, SequenceTheorems, TLAPS

-----------------------------------------------------------------------------
(* Remainders.                                                             *)

\* Quotient and remainder.
LEMMA Division ==
  ASSUME NEW n \in Nat \ {0}, NEW a \in Nat
  PROVE  \E q \in Nat, r \in 0..(n - 1) : a = n * q + r /\ a % n = r
  <1>1. a % n \in 0..(n - 1) /\ a \div n \in Nat
    OBVIOUS
  <1>2. PICK q \in Nat, r \in 0..(n - 1) : q = a \div n /\ r = a % n
    BY <1>1
  <1>3. a = n * q + r
    BY <1>2
  <1> QED BY <1>2, <1>3

\* The remainder is what is left over a multiple.
LEMMA Remainder ==
  ASSUME NEW n \in Nat \ {0}, NEW q \in Nat, NEW r \in 0..(n - 1)
  PROVE  (n * q + r) % n = r
  OBVIOUS

\* Multiples add up.
LEMMA Distributes ==
  ASSUME NEW n \in Nat, NEW q \in Nat, NEW x \in Nat, NEW y \in Nat
  PROVE  n * q + (n * x + y) = n * (q + x) + y
  OBVIOUS

\* A multiple of n does not change the remainder.
LEMMA AddMultiple ==
  ASSUME NEW n \in Nat \ {0}, NEW q \in Nat, NEW a \in Nat
  PROVE  (n * q + a) % n = a % n
  <1>1. PICK x \in Nat, r \in 0..(n - 1) : a = n * x + r /\ a % n = r
    BY Division
  <1>2. n * q + a = n * (q + x) + r
    BY <1>1, Distributes
  <1>3. q + x \in Nat
    OBVIOUS
  <1> QED BY <1>1, <1>2, <1>3, Remainder

\* Numbers less than n apart have different remainders.
LEMMA RemaindersDiffer ==
  ASSUME NEW n \in Nat \ {0}, NEW a \in Nat, NEW k \in 1..(n - 1)
  PROVE  (a + k) % n # a % n
  <1>1. PICK x \in Nat, r \in 0..(n - 1) : a = n * x + r /\ a % n = r
    BY Division
  <1>2. CASE r + k < n
    BY <1>1, <1>2, Remainder
  <1>3. CASE r + k >= n
    <2>1. a + k = n * (x + 1) + (r + k - n) /\ r + k - n \in 0..(n - 1)
      BY <1>1, <1>3
    <2>2. (a + k) % n = r + k - n
      BY <2>1, Remainder, x + 1 \in Nat
    <2> QED BY <1>1, <2>2
  <1> QED BY <1>2, <1>3

\* The distance of two indices, with or without a wrap between them.
LEMMA DistanceCases ==
  ASSUME NEW i \in Indices, NEW j \in Indices
  PROVE  Distance(i, j) = IF i <= j THEN j - i ELSE j + IdxMod - i
  <1> USE IdxAssumption, NumAssumption DEF Indices, Distance
  <1>1. CASE i <= j
    <2>1. (j + IdxMod) - i = IdxMod * 1 + (j - i) /\ j - i \in 0..(IdxMod - 1) /\ IdxMod \in Nat \ {0}
      BY <1>1
    <2> QED BY <1>1, <2>1, Remainder
  <1>2. CASE i > j
    <2>1. (j + IdxMod) - i = IdxMod * 0 + (j + IdxMod - i) /\ j + IdxMod - i \in 0..(IdxMod - 1) /\ IdxMod \in Nat \ {0}
      BY <1>2
    <2> QED BY <1>2, <2>1, Remainder
  <1> QED BY <1>1, <1>2

\* The next index, at the end of the range and before.
LEMMA IncCases ==
  ASSUME NEW i \in Indices
  PROVE  Inc(i) \in Indices /\ Inc(i) = IF i + 1 = IdxMod THEN 0 ELSE i + 1
  <1> USE IdxAssumption, NumAssumption DEF Indices, Inc
  <1>1. IdxMod \in Nat \ {0} /\ IdxMod = IdxMod * 1 + 0 /\ i + 1 = IdxMod * 0 + (i + 1)
    OBVIOUS
  <1>2. CASE i + 1 = IdxMod
    BY <1>1, <1>2, Remainder
  <1>3. CASE i + 1 < IdxMod
    BY <1>1, <1>3, Remainder
  <1> QED BY <1>2, <1>3

\* The number of slots divides that of the indices: slots go on when these wrap.
LEMMA SlotWraps ==
  ASSUME NEW k \in Nat
  PROVE  Slot(IdxMod + k) = Slot(k)
  <1>1. PICK q \in Nat, r \in 0..(Num - 1) : IdxMod = Num * q + r /\ IdxMod % Num = r
    BY Division, NumAssumption, IdxAssumption
  <1>2. IdxMod + k = Num * q + k
    BY <1>1, IdxAssumption, NumAssumption
  <1>3. Num \in Nat \ {0}
    BY NumAssumption
  <1>4. (Num * q + k) % Num = k % Num
    BY <1>3, AddMultiple
  <1> QED BY <1>2, <1>4 DEF Slot

\* The slots after the next index are those after this one but the first.
LEMMA SlotOfInc ==
  ASSUME NEW i \in Indices, NEW k \in Nat
  PROVE  Slot(Inc(i) + k) = Slot(i + 1 + k)
  <1>1. CASE i + 1 = IdxMod
    BY <1>1, IncCases, SlotWraps
  <1>2. CASE i + 1 # IdxMod
    BY <1>2, IncCases
  <1> QED BY <1>1, <1>2

\* Counting from one index by the distance leads to the slot of the other.
LEMMA SlotAtDistance ==
  ASSUME NEW i \in Indices, NEW j \in Indices
  PROVE  Slot(i + Distance(i, j)) = Slot(j)
  <1>1. CASE i <= j
    BY <1>1, DistanceCases DEF Indices
  <1>2. CASE i > j
    <2>1. i + Distance(i, j) = IdxMod + j
      BY <1>2, DistanceCases, IdxAssumption DEF Indices
    <2> QED BY <2>1, SlotWraps DEF Indices
  <1> QED BY <1>1, <1>2 DEF Indices

\* Fewer than Num entries on, the slot is another one.
LEMMA SlotsApart ==
  ASSUME NEW i \in Nat, NEW k \in Nat, NEW l \in Nat, k < l, l < k + Num
  PROVE  Slot(i + k) # Slot(i + l)
  <1>1. l - k \in 1..(Num - 1) /\ i + k \in Nat /\ i + l = (i + k) + (l - k) /\ Num \in Nat \ {0}
    BY NumAssumption
  <1>2. ((i + k) + (l - k)) % Num # (i + k) % Num
    BY <1>1, RemaindersDiffer
  <1> QED BY <1>1, <1>2 DEF Slot

\* A ring read from index i up to index j is a FIFO.
Ring(ring, i, j) == [k \in 1..Distance(i, j) |-> ring[Slot(i + k - 1)]]

\* The entries between two indices are a sequence of descriptors.
LEMMA RingSeq ==
  ASSUME NEW ring \in [Descs -> Descs], NEW i \in Indices, NEW j \in Indices
  PROVE  /\ Ring(ring, i, j) \in Seq(Descs)
         /\ Len(Ring(ring, i, j)) = Distance(i, j) /\ Distance(i, j) \in Nat
         /\ \A k \in 1..Distance(i, j) : Ring(ring, i, j)[k] = ring[Slot(i + k - 1)]
         /\ \A k \in Nat : Slot(k) \in Descs
         /\ i # j => Distance(i, j) > 0
  <1>1. Distance(i, j) \in Nat /\ (i # j => Distance(i, j) > 0)
    BY DistanceCases, IdxAssumption DEF Indices
  <1>2. \A k \in Nat : Slot(k) \in Descs
    BY NumAssumption DEF Slot, Descs
  <1>3. \A k \in 1..Distance(i, j) : i + k - 1 \in Nat
    BY <1>1 DEF Indices
  <1>4. \A k \in 1..Distance(i, j) : ring[Slot(i + k - 1)] \in Descs
    BY <1>2, <1>3
  <1> QED BY <1>1, <1>2, <1>4 DEF Ring

\* The entry at i leaves it when i is incremented.
LEMMA RingTakes ==
  ASSUME NEW ring \in [Descs -> Descs], NEW i \in Indices, NEW j \in Indices, i # j
  PROVE  /\ Ring(ring, i, j) # <<>>
         /\ Head(Ring(ring, i, j)) = ring[Slot(i)]
         /\ Ring(ring, Inc(i), j) = Tail(Ring(ring, i, j))
  <1> DEFINE D == Distance(i, j)
  <1>1. D \in Nat /\ D > 0 /\ Distance(Inc(i), j) = D - 1
    <2>1. D = IF i <= j THEN j - i ELSE j + IdxMod - i
      BY DistanceCases
    <2>2. Distance(Inc(i), j) = IF Inc(i) <= j THEN j - Inc(i) ELSE j + IdxMod - Inc(i)
      BY DistanceCases, IncCases
    <2>3. Inc(i) = IF i + 1 = IdxMod THEN 0 ELSE i + 1
      BY IncCases
    <2> HIDE DEF D
    <2> QED BY <2>1, <2>2, <2>3, IdxAssumption DEF Indices
  <1>2. Ring(ring, i, j) # <<>> /\ Len(Ring(ring, i, j)) = D
    BY <1>1, RingSeq
  <1>3. Head(Ring(ring, i, j)) = ring[Slot(i)]
    BY <1>1, <1>2, RingSeq DEF Indices
  <1>4. \A k \in 1..(D - 1) : Slot(Inc(i) + k - 1) = Slot(i + (k + 1) - 1)
    <2> TAKE k \in 1..(D - 1)
    <2>1. k - 1 \in Nat /\ Inc(i) + k - 1 = Inc(i) + (k - 1) /\ i + (k + 1) - 1 = i + 1 + (k - 1)
      BY <1>1, IncCases DEF Indices
    <2> QED BY <2>1, SlotOfInc
  <1>5. Ring(ring, Inc(i), j) = Tail(Ring(ring, i, j))
    <2> DEFINE s == Ring(ring, i, j)
               r == Ring(ring, Inc(i), j)
    <2>1. s \in Seq(Descs) /\ Len(s) = D /\ s # <<>> /\ \A k \in 1..D : s[k] = ring[Slot(i + k - 1)]
      BY <1>2, RingSeq
    <2>2. /\ r \in Seq(Descs) /\ Len(r) = D - 1
          /\ \A k \in 1..(D - 1) : r[k] = ring[Slot(Inc(i) + k - 1)]
      <3>1. Inc(i) \in Indices /\ Distance(Inc(i), j) = D - 1
        BY <1>1, IncCases
      <3>2. /\ r \in Seq(Descs) /\ Len(r) = Distance(Inc(i), j)
            /\ \A k \in 1..Distance(Inc(i), j) : r[k] = ring[Slot(Inc(i) + k - 1)]
        BY <3>1, RingSeq
      <3> HIDE DEF r, D
      <3> QED BY <3>1, <3>2
    <2>3. D \in Nat /\ D > 0
      BY <1>1
    <2>4. \A k \in 1..(D - 1) : Slot(Inc(i) + k - 1) = Slot(i + (k + 1) - 1)
      BY <1>4
    <2> HIDE DEF s, r, D
    <2>5. /\ Tail(s) \in Seq(Descs) /\ Len(Tail(s)) = D - 1
          /\ \A k \in 1..(D - 1) : Tail(s)[k] = s[k + 1]
      BY <2>1, <2>3, HeadTailProperties
    <2>6. \A k \in 1..(D - 1) : r[k] = Tail(s)[k]
      BY <2>1, <2>2, <2>3, <2>4, <2>5
    <2>7. r = Tail(s)
      BY <2>2, <2>5, <2>6, SeqEqual
    <2> QED BY <2>7 DEF r, s
  <1> QED BY <1>2, <1>3, <1>5

\* What is written at j while fewer than Num entries lie between is at no slot of
\* theirs, and joins them at the end when j is incremented.
LEMMA RingKeeps ==
  ASSUME NEW ring \in [Descs -> Descs], NEW i \in Indices, NEW j \in Indices,
         Distance(i, j) < Num,
         NEW other, \A k \in Descs : k # Slot(j) => other[k] = ring[k]
  PROVE  Ring(other, i, j) = Ring(ring, i, j)
  <1> DEFINE D == Distance(i, j)
  <1>1. D \in Nat /\ Slot(j) \in Descs
    BY RingSeq DEF Indices
  <1>2. ASSUME NEW k \in 1..D PROVE Slot(i + k - 1) # Slot(j) /\ Slot(i + k - 1) \in Descs
    <2>1. k - 1 \in Nat /\ k - 1 < D /\ D < (k - 1) + Num /\ i \in Nat /\ i + k - 1 = i + (k - 1)
      BY <1>1, NumAssumption DEF Indices
    <2>2. Slot(i + (k - 1)) # Slot(i + D)
      BY <1>1, <2>1, SlotsApart
    <2>3. Slot(i + D) = Slot(j)
      BY SlotAtDistance
    <2>4. Slot(i + k - 1) \in Descs
      BY <2>1, RingSeq
    <2> QED BY <2>1, <2>2, <2>3, <2>4
  <1> QED BY <1>1, <1>2 DEF Ring

\* If there is room, moving the second index adds the entry of its slot.
LEMMA RingAdds ==
  ASSUME NEW ring \in [Descs -> Descs], NEW i \in Indices, NEW j \in Indices,
         Distance(i, j) < Num
  PROVE  Ring(ring, i, Inc(j)) = Append(Ring(ring, i, j), ring[Slot(j)])
  <1> DEFINE D == Distance(i, j)
  <1>1. D \in Nat /\ Distance(i, Inc(j)) = D + 1
    <2>1. D = IF i <= j THEN j - i ELSE j + IdxMod - i
      BY DistanceCases
    <2>2. Distance(i, Inc(j)) = IF i <= Inc(j) THEN Inc(j) - i ELSE Inc(j) + IdxMod - i
      BY DistanceCases, IncCases
    <2>3. Inc(j) = IF j + 1 = IdxMod THEN 0 ELSE j + 1
      BY IncCases
    <2>4. D < Num
      OBVIOUS
    <2> HIDE DEF D
    <2> QED BY <2>1, <2>2, <2>3, <2>4, IdxAssumption, NumAssumption DEF Indices
  <1>2. ring[Slot(i + (D + 1) - 1)] = ring[Slot(j)]
    <2>1. i + (D + 1) - 1 = i + D
      BY <1>1 DEF Indices
    <2> QED BY <2>1, SlotAtDistance
  <1>3. Append(Ring(ring, i, j), ring[Slot(j)])
          = [k \in 1..(D + 1) |-> IF k = D + 1 THEN ring[Slot(j)] ELSE ring[Slot(i + k - 1)]]
    BY <1>1, RingSeq
  <1> QED BY <1>1, <1>2, <1>3 DEF Ring

-----------------------------------------------------------------------------
(* The inductive invariant.                                                *)

\* A sender that has the gate is inside it, and one that has a descriptor is
\* between taking it and showing it to the host.
SendersOK ==
  \A s \in Senders :
    /\ pc[s] \in {"compare", "notify", "bump", "kick"} <=> gate = s
    /\ pc[s] \in {"fill", "add", "bump"} <=> token[s] # NULL
    /\ pc[s] # "idle" /\ pc[s] # "kick" => msg[s] \in Messages
    /\ pc[s] = "bump" => usedRing[Slot(usedIdx)] = token[s]
    /\ pc[s] \in {"add", "bump"} => content[token[s]] = msg[s]

WaitingOK ==
  /\ \A i \in 1..Len(waiting) : pc[waiting[i]] = "blocked"
  /\ \A i, j \in 1..Len(waiting) : waiting[i] = waiting[j] => i = j

Holds(d) == \E s \in Senders : token[s] = d
InSeq(q, d) == \E i \in 1..Len(q) : q[i] = d
Injective(q) == \A i, j \in 1..Len(q) : q[i] = q[j] => i = j

\* No descriptor is in two places, ...
Apart ==
  /\ Injective(OnAvail) /\ Injective(OnUsed)
  /\ \A s, u \in Senders : token[s] = token[u] /\ token[s] # NULL => s = u
  /\ \A d \in Descs :
       /\ d \in hostFree => ~Holds(d) /\ ~InSeq(OnAvail, d) /\ ~InSeq(OnUsed, d)
       /\ Holds(d) => ~InSeq(OnAvail, d) /\ ~InSeq(OnUsed, d)
       /\ InSeq(OnAvail, d) => ~InSeq(OnUsed, d)

\* ... and none is in no place.
Somewhere ==
  \A d \in Descs : d \in hostFree \/ Holds(d) \/ InSeq(OnAvail, d) \/ InSeq(OnUsed, d)

Counted == Cardinality(hostFree) + Cardinality(Lent) + Len(OnAvail) + Len(OnUsed) = Num

\* What the host will take off the used ring is a message.
MessagesSent == \A i \in 1..Len(OnUsed) : content[OnUsed[i]] \in Messages

IInv ==
  TypeOK /\ SendersOK /\ WaitingOK /\ Apart /\ Somewhere /\ Counted /\ MessagesSent


-----------------------------------------------------------------------------
(* What each access to the vring does to the two FIFOs.                    *)

\* What is on the two rings.
LEMMA Rings ==
  ASSUME VirtQueueTypeOK
  PROVE  /\ OnAvail = Ring(availRing, lastAvail, availIdx)
         /\ OnUsed = Ring(usedRing, lastUsed, usedIdx)
         /\ OnAvail \in Seq(Descs) /\ OnUsed \in Seq(Descs)
         /\ Len(OnAvail) = Distance(lastAvail, availIdx)
         /\ Len(OnUsed) = Distance(lastUsed, usedIdx)
         /\ Slot(usedIdx) \in Descs /\ Slot(availIdx) \in Descs
         /\ Slot(lastUsed) \in Descs /\ Slot(lastAvail) \in Descs
  <1>1. /\ OnAvail = Ring(availRing, lastAvail, availIdx)
        /\ OnUsed = Ring(usedRing, lastUsed, usedIdx)
    BY DEF OnAvail, OnUsed, Ring
  <1>2. \A k \in Indices : Slot(k) \in Descs
    BY NumAssumption DEF Slot, Descs, Indices
  <1> QED BY <1>1, <1>2, RingSeq DEF VirtQueueTypeOK

\* The descriptors on the two rings together.
LEMMA RingsTogether ==
  ASSUME VirtQueueTypeOK
  PROVE  /\ Len(OnRings) = Len(OnAvail) + Len(OnUsed)
         /\ Len(OnAvail) \in Nat /\ Len(OnUsed) \in Nat
         /\ {OnRings[i] : i \in DOMAIN OnRings}
              = {d \in Descs : InSeq(OnAvail, d) \/ InSeq(OnUsed, d)}
  <1>1. OnAvail \in Seq(Descs) /\ OnUsed \in Seq(Descs)
    BY Rings
  <1>2. /\ Len(OnRings) = Len(OnAvail) + Len(OnUsed)
        /\ Len(OnAvail) \in Nat /\ Len(OnUsed) \in Nat /\ DOMAIN OnRings = 1..Len(OnRings)
        /\ \A i \in 1..Len(OnRings) :
             OnRings[i] = IF i <= Len(OnAvail) THEN OnAvail[i] ELSE OnUsed[i - Len(OnAvail)]
    BY <1>1 DEF OnRings
  <1>3. \A d : InSeq(OnRings, d) <=> InSeq(OnAvail, d) \/ InSeq(OnUsed, d)
    <2> TAKE d
    <2>1. \A i \in 1..Len(OnUsed) :
            i + Len(OnAvail) \in 1..Len(OnRings) /\ OnRings[i + Len(OnAvail)] = OnUsed[i]
      BY <1>2
    <2>2. \A i \in 1..Len(OnAvail) : i \in 1..Len(OnRings) /\ OnRings[i] = OnAvail[i]
      BY <1>2
    <2>3. \A i \in 1..Len(OnRings) :
            \/ i \in 1..Len(OnAvail) /\ OnRings[i] = OnAvail[i]
            \/ i - Len(OnAvail) \in 1..Len(OnUsed) /\ OnRings[i] = OnUsed[i - Len(OnAvail)]
      BY <1>2
    <2> HIDE DEF OnRings, OnAvail, OnUsed
    <2>4. InSeq(OnRings, d) => InSeq(OnAvail, d) \/ InSeq(OnUsed, d)
      BY <2>3 DEF InSeq
    <2>5. InSeq(OnAvail, d) \/ InSeq(OnUsed, d) => InSeq(OnRings, d)
      BY <2>1, <2>2 DEF InSeq
    <2> QED BY <2>4, <2>5
  <1>4. \A d : d \in {OnRings[i] : i \in DOMAIN OnRings} <=> InSeq(OnRings, d)
    BY <1>2 DEF InSeq
  <1>5. \A d : InSeq(OnAvail, d) \/ InSeq(OnUsed, d) => d \in Descs
    BY <1>1 DEF InSeq
  <1> QED BY <1>2, <1>3, <1>4, <1>5

\* getAvailBuf takes the first descriptor that is available.
LEMMA GetAvailBufTakes ==
  ASSUME VirtQueueTypeOK, GetAvailBuf
  PROVE  /\ OnAvail # <<>> /\ NextAvail = Head(OnAvail)
         /\ OnAvail' = Tail(OnAvail) /\ OnUsed' = OnUsed
         /\ VirtQueueTypeOK'
  <1>1. VirtQueueTypeOK'
    BY IncCases DEF VirtQueueTypeOK, GetAvailBuf, availVars, usedVars, hostVars, flagVars
  <1>2. OnAvail' = Ring(availRing, Inc(lastAvail), availIdx) /\ OnUsed' = OnUsed
    BY DEF GetAvailBuf, OnAvail, OnUsed, Ring, availVars, usedVars, hostVars
  <1>3. /\ availRing \in [Descs -> Descs] /\ lastAvail \in Indices /\ availIdx \in Indices
        /\ lastAvail # availIdx
    BY DEF VirtQueueTypeOK, GetAvailBuf, NothingAvail
  <1>4. /\ Ring(availRing, lastAvail, availIdx) # <<>>
        /\ Head(Ring(availRing, lastAvail, availIdx)) = availRing[Slot(lastAvail)]
        /\ Ring(availRing, Inc(lastAvail), availIdx) = Tail(Ring(availRing, lastAvail, availIdx))
    BY <1>3, RingTakes
  <1> QED BY <1>1, <1>2, <1>4, Rings DEF NextAvail

\* The host takes the first that was used.
LEMMA HostCollectTakes ==
  ASSUME VirtQueueTypeOK, HostCollect
  PROVE  /\ OnUsed # <<>> /\ NextUsed = Head(OnUsed)
         /\ OnUsed' = Tail(OnUsed) /\ OnAvail' = OnAvail
         /\ hostFree' = hostFree \cup {NextUsed} /\ content' = content
         /\ VirtQueueTypeOK'
  <1>1. NextUsed \in Descs
    BY Rings DEF VirtQueueTypeOK, NextUsed
  <1>2. VirtQueueTypeOK'
    BY <1>1, IncCases DEF VirtQueueTypeOK, HostCollect, availVars, usedVars, flagVars
  <1>3. OnUsed' = Ring(usedRing, Inc(lastUsed), usedIdx) /\ OnAvail' = OnAvail
    BY DEF HostCollect, OnAvail, OnUsed, Ring, availVars, usedVars
  <1>4. /\ usedRing \in [Descs -> Descs] /\ lastUsed \in Indices /\ usedIdx \in Indices
        /\ lastUsed # usedIdx
    BY DEF VirtQueueTypeOK, HostCollect, NothingUsed
  <1>5. /\ Ring(usedRing, lastUsed, usedIdx) # <<>>
        /\ Head(Ring(usedRing, lastUsed, usedIdx)) = usedRing[Slot(lastUsed)]
        /\ Ring(usedRing, Inc(lastUsed), usedIdx) = Tail(Ring(usedRing, lastUsed, usedIdx))
    BY <1>4, RingTakes
  <1>6. hostFree' = hostFree \cup {NextUsed} /\ content' = content
    BY DEF HostCollect
  <1> QED BY <1>2, <1>3, <1>5, <1>6, Rings DEF NextUsed

\* The host adds a descriptor behind those that are available.
LEMMA HostAddAdds ==
  ASSUME VirtQueueTypeOK, Len(OnAvail) < Num,
         NEW d \in Descs, NEW c \in Messages \cup {NULL}, HostAdd(d, c)
  PROVE  /\ OnAvail' = Append(OnAvail, d) /\ OnUsed' = OnUsed
         /\ VirtQueueTypeOK'
  <1> DEFINE ring == [availRing EXCEPT ![Slot(availIdx)] = d]
  <1>1. /\ ring \in [Descs -> Descs] /\ ring[Slot(availIdx)] = d
        /\ Ring(ring, lastAvail, availIdx) = OnAvail
    <2>1. /\ availRing \in [Descs -> Descs] /\ lastAvail \in Indices /\ availIdx \in Indices
          /\ Distance(lastAvail, availIdx) < Num /\ Slot(availIdx) \in Descs
      BY Rings DEF VirtQueueTypeOK
    <2>2. ring \in [Descs -> Descs] /\ \A k \in Descs : k # Slot(availIdx) => ring[k] = availRing[k]
      BY <2>1
    <2>3. Ring(ring, lastAvail, availIdx) = Ring(availRing, lastAvail, availIdx)
      <3> HIDE DEF ring
      <3> QED BY <2>1, <2>2, RingKeeps
    <2> QED BY <2>1, <2>2, <2>3, Rings
  <1>2. Ring(ring, lastAvail, Inc(availIdx)) = Append(OnAvail, d)
    <2>1. lastAvail \in Indices /\ availIdx \in Indices /\ Distance(lastAvail, availIdx) < Num
      BY Rings DEF VirtQueueTypeOK
    <2> HIDE DEF ring
    <2> QED BY <1>1, <2>1, RingAdds
  <1>3. VirtQueueTypeOK'
    BY <1>1, IncCases DEF VirtQueueTypeOK, HostAdd, usedVars, flagVars
  <1>4. OnAvail' = Ring(ring, lastAvail, Inc(availIdx)) /\ OnUsed' = OnUsed
    BY DEF HostAdd, OnAvail, OnUsed, Ring, usedVars
  <1> QED BY <1>2, <1>3, <1>4

\* An entry written shows nothing yet: the slot is none of those in use.
LEMMA WriteUsedKeeps ==
  ASSUME VirtQueueTypeOK, Len(OnUsed) < Num, NEW d \in Descs, WriteUsed(d)
  PROVE  /\ OnAvail' = OnAvail /\ OnUsed' = OnUsed
         /\ usedIdx' = usedIdx /\ usedRing'[Slot(usedIdx)] = d
         /\ VirtQueueTypeOK'
  <1> DEFINE ring == [usedRing EXCEPT ![Slot(usedIdx)] = d]
  <1>1. /\ ring \in [Descs -> Descs] /\ ring[Slot(usedIdx)] = d
        /\ Ring(ring, lastUsed, usedIdx) = OnUsed
    <2>1. /\ usedRing \in [Descs -> Descs] /\ lastUsed \in Indices /\ usedIdx \in Indices
          /\ Distance(lastUsed, usedIdx) < Num /\ Slot(usedIdx) \in Descs
      BY Rings DEF VirtQueueTypeOK
    <2>2. ring \in [Descs -> Descs] /\ \A k \in Descs : k # Slot(usedIdx) => ring[k] = usedRing[k]
      BY <2>1
    <2>3. Ring(ring, lastUsed, usedIdx) = Ring(usedRing, lastUsed, usedIdx)
      <3> HIDE DEF ring
      <3> QED BY <2>1, <2>2, RingKeeps
    <2> QED BY <2>1, <2>2, <2>3, Rings
  <1>2. VirtQueueTypeOK'
    BY <1>1 DEF VirtQueueTypeOK, WriteUsed, availVars, hostVars, flagVars
  <1>3. OnUsed' = Ring(ring, lastUsed, usedIdx) /\ OnAvail' = OnAvail
    BY DEF WriteUsed, OnAvail, OnUsed, Ring, availVars, hostVars
  <1> QED BY <1>1, <1>2, <1>3 DEF WriteUsed

\* The index makes it one of the used ones.
LEMMA BumpUsedAdds ==
  ASSUME VirtQueueTypeOK, Len(OnUsed) < Num, BumpUsed
  PROVE  /\ OnUsed' = Append(OnUsed, usedRing[Slot(usedIdx)]) /\ OnAvail' = OnAvail
         /\ VirtQueueTypeOK'
  <1>1. Ring(usedRing, lastUsed, Inc(usedIdx)) = Append(OnUsed, usedRing[Slot(usedIdx)])
    BY Rings, RingAdds DEF VirtQueueTypeOK
  <1>2. VirtQueueTypeOK'
    BY IncCases DEF VirtQueueTypeOK, BumpUsed, availVars, hostVars, flagVars
  <1>3. OnUsed' = Ring(usedRing, lastUsed, Inc(usedIdx)) /\ OnAvail' = OnAvail
    BY DEF BumpUsed, OnAvail, OnUsed, Ring, availVars, hostVars
  <1> QED BY <1>1, <1>2, <1>3

\* The other accesses leave indices and rings alone.
LEMMA RingsKept ==
  ASSUME VirtQueueTypeOK,
         \/ EnableNotify \/ Kick \/ TakeKick \/ HostNotify
         \/ UNCHANGED vringVars
  PROVE  /\ OnAvail' = OnAvail /\ OnUsed' = OnUsed
         /\ UNCHANGED <<usedIdx, usedRing, hostFree, content>>
         /\ VirtQueueTypeOK'
  <1> USE DEF availVars, usedVars, hostVars, flagVars, vringVars
  <1>1. UNCHANGED <<availIdx, availRing, lastAvail, usedIdx, usedRing, lastUsed, hostFree, content>>
    BY DEF EnableNotify, Kick, TakeKick, HostNotify
  <1>2. kicks' \in 0..FifoSize /\ hostKicks' \in 0..FifoSize
    BY FifoAssumption DEF VirtQueueTypeOK, EnableNotify, Kick, TakeKick, HostNotify
  <1>3. {noNotify', noInterrupt', owesKick'} \subseteq BOOLEAN
    BY DEF VirtQueueTypeOK, EnableNotify, Kick, TakeKick, HostNotify
  <1> QED BY <1>1, <1>2, <1>3 DEF VirtQueueTypeOK, OnAvail, OnUsed


-----------------------------------------------------------------------------
(* The steps of RemoteSend.                                                *)

Placed == Apart /\ Somewhere /\ Counted

\* Descriptors can be counted.
LEMMA CardinalitiesOK ==
  ASSUME hostFree \subseteq Descs
  PROVE  /\ IsFiniteSet(hostFree) /\ Cardinality(hostFree) \in Nat
         /\ IsFiniteSet(Lent) /\ Cardinality(Lent) \in Nat
  <1>1. IsFiniteSet(Descs)
    BY FS_Interval, NumAssumption DEF Descs
  <1>2. Lent \subseteq Senders
    BY DEF Lent
  <1> QED BY <1>1, <1>2, FS_Subset, FS_CardinalityType, SendersAssumption

\* While the host has a descriptor, or a sender does, there is room for it on the
\* rings.
LEMMA Room ==
  ASSUME VirtQueueTypeOK, Counted
  PROVE  /\ hostFree # {} => Len(OnAvail) < Num
         /\ Lent # {} => Len(OnUsed) < Num
         /\ Len(OnAvail) \in Nat /\ Len(OnUsed) \in Nat
         /\ Len(OnUsed) <= Num
  <1>1. Len(OnAvail) \in Nat /\ Len(OnUsed) \in Nat
    BY Rings, LenProperties
  <1>2. /\ IsFiniteSet(hostFree) /\ Cardinality(hostFree) \in Nat
        /\ IsFiniteSet(Lent) /\ Cardinality(Lent) \in Nat
    BY CardinalitiesOK DEF VirtQueueTypeOK
  <1>3. /\ hostFree # {} => Cardinality(hostFree) > 0
        /\ Lent # {} => Cardinality(Lent) > 0
    BY <1>2, FS_EmptySet
  <1> QED BY <1>1, <1>2, <1>3, NumAssumption DEF Counted

\* Descriptors stay where they are.
LEMMA PlacedKept ==
  ASSUME Placed, UNCHANGED token, OnAvail' = OnAvail, OnUsed' = OnUsed, hostFree' = hostFree
  PROVE  Placed'
  BY DEF Placed, Apart, Somewhere, Counted, Lent, Holds, InSeq, Injective

\* Taking the first element of a sequence without repetitions, and adding one to it.
LEMMA TailOf ==
  ASSUME NEW S, NEW q \in Seq(S), q # <<>>, Injective(q)
  PROVE  /\ Head(q) \in S /\ InSeq(q, Head(q))
         /\ Injective(Tail(q)) /\ Len(Tail(q)) = Len(q) - 1
         /\ \A c : InSeq(Tail(q), c) <=> InSeq(q, c) /\ c # Head(q)
  <1>1. /\ Head(q) = q[1] /\ Head(q) \in S /\ Len(q) \in Nat /\ Len(q) > 0
        /\ Len(Tail(q)) = Len(q) - 1 /\ \A i \in 1..Len(Tail(q)) : Tail(q)[i] = q[i + 1]
    OBVIOUS
  <1> HIDE DEF Injective
  <1>2. ASSUME NEW c PROVE InSeq(Tail(q), c) <=> InSeq(q, c) /\ c # Head(q)
    <2>1. \A i \in 1..Len(q) : q[i] = c /\ c # Head(q)
            => i - 1 \in 1..Len(Tail(q)) /\ Tail(q)[i - 1] = c
      BY <1>1
    <2>2. \A i \in 1..Len(Tail(q)) :
            Tail(q)[i] = q[i + 1] /\ i + 1 \in 1..Len(q) /\ q[i + 1] # Head(q)
      BY <1>1 DEF Injective
    <2> QED BY <2>1, <2>2 DEF InSeq
  <1>3. Injective(Tail(q))
    BY <1>1 DEF Injective
  <1>4. InSeq(q, Head(q))
    BY <1>1 DEF InSeq
  <1> QED BY <1>1, <1>2, <1>3, <1>4

\* A sequence without repetition to which something else is added.
LEMMA AppendOf ==
  ASSUME NEW S, NEW q \in Seq(S), NEW d \in S, Injective(q), ~InSeq(q, d)
  PROVE  /\ Injective(Append(q, d)) /\ Len(Append(q, d)) = Len(q) + 1
         /\ \A c : InSeq(Append(q, d), c) <=> InSeq(q, c) \/ c = d
  <1>1. /\ Len(q) \in Nat /\ Len(Append(q, d)) = Len(q) + 1
        /\ \A i \in 1..Len(q) : Append(q, d)[i] = q[i]
        /\ Append(q, d)[Len(q) + 1] = d
    OBVIOUS
  <1>2. ASSUME NEW c PROVE InSeq(Append(q, d), c) <=> InSeq(q, c) \/ c = d
    BY <1>1 DEF InSeq
  <1> QED BY <1>1, <1>2 DEF Injective, InSeq

\* The first descriptor of the avail ring goes to a sender that has none.
LEMMA PlacedByToken ==
  ASSUME TypeOK, Placed, OnAvail # <<>>, OnAvail' = Tail(OnAvail), OnUsed' = OnUsed,
         hostFree' = hostFree, NEW s \in Senders, token[s] = NULL,
         token' = [token EXCEPT ![s] = Head(OnAvail)]
  PROVE  Placed'
  <1> USE DEF Placed
  <1> DEFINE d == Head(OnAvail)
  <1>1. /\ OnAvail \in Seq(Descs) /\ d \in Descs /\ d # NULL
        /\ InSeq(OnAvail, d) /\ Injective(OnAvail)'
        /\ Len(OnAvail)' = Len(OnAvail) - 1
        /\ \A c : InSeq(OnAvail, c)' <=> InSeq(OnAvail, c) /\ c # d
    BY Rings, TailOf, DescsAssumption DEF TypeOK, Apart
  <1>2. \A c : InSeq(OnUsed, c)' <=> InSeq(OnUsed, c)
    BY DEF InSeq
  <1>3. \A u \in Senders : token'[u] = IF u = s THEN d ELSE token[u]
    BY DEF TypeOK
  <1>4. \A c \in Descs : Holds(c)' <=> Holds(c) \/ c = d
    BY <1>1, <1>3, DescsAssumption DEF Holds
  <1>5. \A u, v \in Senders : token'[u] = token'[v] /\ token'[u] # NULL => u = v
    BY <1>1, <1>3 DEF Apart, Holds
  <1>6. Apart'
    BY <1>1, <1>2, <1>4, <1>5 DEF Apart, Injective
  <1>7. Somewhere'
    BY <1>1, <1>2, <1>4 DEF Somewhere
  <1>8. Counted'
    <2>1. Lent' = Lent \cup {s} /\ s \notin Lent
      BY <1>1, <1>3 DEF Lent
    <2>2. Cardinality(Lent') = Cardinality(Lent) + 1
      BY <2>1, CardinalitiesOK, FS_AddElement DEF TypeOK, VirtQueueTypeOK
    <2>7. /\ Cardinality(hostFree) \in Nat /\ Cardinality(Lent) \in Nat
          /\ Len(OnAvail) \in Nat /\ Len(OnUsed) \in Nat /\ Num \in Nat
      BY CardinalitiesOK, Room, NumAssumption DEF TypeOK, VirtQueueTypeOK
    <2> QED BY <1>1, <2>2, <2>7 DEF Counted
  <1> QED BY <1>6, <1>7, <1>8

\* The descriptor of a sender joins the used ring.
LEMMA PlacedByBump ==
  ASSUME TypeOK, Placed, NEW s \in Senders, token[s] # NULL,
         OnUsed' = Append(OnUsed, token[s]), OnAvail' = OnAvail, hostFree' = hostFree,
         token' = [token EXCEPT ![s] = NULL]
  PROVE  Placed'
  <1> USE DEF Placed
  <1> DEFINE d == token[s]
  <1>1. d \in Descs /\ Holds(d) /\ OnUsed \in Seq(Descs) /\ ~InSeq(OnUsed, d) /\ Injective(OnUsed)
    BY Rings DEF TypeOK, Apart, Holds
  <1>2. /\ Injective(OnUsed)' /\ Len(OnUsed)' = Len(OnUsed) + 1
        /\ \A c : InSeq(OnUsed, c)' <=> InSeq(OnUsed, c) \/ c = d
    BY <1>1, AppendOf
  <1>3. \A c : InSeq(OnAvail, c)' <=> InSeq(OnAvail, c)
    BY DEF InSeq
  <1>4. \A u \in Senders : token'[u] = IF u = s THEN NULL ELSE token[u]
    BY DEF TypeOK
  <1>5. \A c \in Descs : Holds(c)' <=> Holds(c) /\ c # d
    BY <1>1, <1>4, DescsAssumption DEF Holds, Apart
  <1>6. Apart'
    BY <1>1, <1>2, <1>3, <1>4, <1>5 DEF Apart, Injective
  <1>7. Somewhere'
    BY <1>1, <1>2, <1>3, <1>5 DEF Somewhere
  <1>8. Counted'
    <2>1. Lent' = Lent \ {s} /\ s \in Lent
      BY <1>1, <1>4 DEF Lent
    <2>2. Cardinality(Lent') = Cardinality(Lent) - 1
      BY <2>1, CardinalitiesOK, FS_RemoveElement DEF TypeOK, VirtQueueTypeOK
    <2>3. /\ Cardinality(hostFree) \in Nat /\ Cardinality(Lent) \in Nat
          /\ Len(OnAvail) \in Nat /\ Len(OnUsed) \in Nat
      BY CardinalitiesOK, Room DEF TypeOK, VirtQueueTypeOK
    <2>4. Len(OnAvail)' = Len(OnAvail) /\ Cardinality(hostFree') = Cardinality(hostFree)
      OBVIOUS
    <2> QED BY <1>2, <2>2, <2>3, <2>4, NumAssumption DEF Counted
  <1> QED BY <1>6, <1>7, <1>8

\* The host takes the first descriptor of the used ring back.
LEMMA PlacedByCollect ==
  ASSUME TypeOK, Placed, OnUsed # <<>>, OnUsed' = Tail(OnUsed), OnAvail' = OnAvail,
         hostFree' = hostFree \cup {Head(OnUsed)}, token' = token
  PROVE  Placed'
  <1> USE DEF Placed
  <1> DEFINE d == Head(OnUsed)
  <1>1. /\ OnUsed \in Seq(Descs) /\ d \in Descs
        /\ InSeq(OnUsed, d) /\ Injective(OnUsed)'
        /\ Len(OnUsed)' = Len(OnUsed) - 1
        /\ \A c : InSeq(OnUsed, c)' <=> InSeq(OnUsed, c) /\ c # d
    BY Rings, TailOf DEF TypeOK, Apart
  <1>2. /\ \A c : InSeq(OnAvail, c)' <=> InSeq(OnAvail, c)
        /\ \A c : Holds(c)' <=> Holds(c)
    BY DEF InSeq, Holds
  <1>3. Apart'
    BY <1>1, <1>2 DEF Apart, Injective
  <1>4. Somewhere'
    BY <1>1, <1>2 DEF Somewhere
  <1>5. Counted'
    <2>1. d \notin hostFree
      BY <1>1 DEF Apart
    <2>2. Cardinality(hostFree') = Cardinality(hostFree) + 1
      BY <2>1, CardinalitiesOK, FS_AddElement DEF TypeOK, VirtQueueTypeOK
    <2>3. Lent' = Lent
      BY DEF Lent
    <2>7. /\ Cardinality(hostFree) \in Nat /\ Cardinality(Lent) \in Nat
          /\ Len(OnAvail) \in Nat /\ Len(OnUsed) \in Nat /\ Num \in Nat
      BY CardinalitiesOK, Room, NumAssumption DEF TypeOK, VirtQueueTypeOK
    <2> QED BY <1>1, <2>2, <2>3, <2>7 DEF Counted
  <1> QED BY <1>3, <1>4, <1>5

\* The host makes a descriptor available.
LEMMA PlacedByAdd ==
  ASSUME TypeOK, Placed, NEW d \in hostFree,
         OnAvail' = Append(OnAvail, d), OnUsed' = OnUsed,
         hostFree' = hostFree \ {d}, token' = token
  PROVE  Placed'
  <1> USE DEF Placed
  <1>1. d \in Descs /\ OnAvail \in Seq(Descs) /\ ~InSeq(OnAvail, d) /\ Injective(OnAvail)
    BY Rings DEF TypeOK, VirtQueueTypeOK, Apart
  <1>2. /\ Injective(OnAvail)' /\ Len(OnAvail)' = Len(OnAvail) + 1
        /\ \A c : InSeq(OnAvail, c)' <=> InSeq(OnAvail, c) \/ c = d
    BY <1>1, AppendOf
  <1>3. /\ \A c : InSeq(OnUsed, c)' <=> InSeq(OnUsed, c)
        /\ \A c : Holds(c)' <=> Holds(c)
    BY DEF InSeq, Holds
  <1>4. Apart'
    BY <1>1, <1>2, <1>3 DEF Apart, Injective
  <1>5. Somewhere'
    BY <1>1, <1>2, <1>3 DEF Somewhere
  <1>6. Counted'
    <2>1. Cardinality(hostFree') = Cardinality(hostFree) - 1
      BY CardinalitiesOK, FS_RemoveElement DEF TypeOK, VirtQueueTypeOK
    <2>2. Lent' = Lent
      BY DEF Lent
    <2>7. /\ Cardinality(hostFree) \in Nat /\ Cardinality(Lent) \in Nat
          /\ Len(OnAvail) \in Nat /\ Len(OnUsed) \in Nat /\ Num \in Nat
      BY CardinalitiesOK, Room, NumAssumption DEF TypeOK, VirtQueueTypeOK
    <2>8. Len(OnAvail)' = Len(OnAvail) + 1 /\ Len(OnUsed)' = Len(OnUsed)
      BY <1>2
    <2>9. Cardinality(hostFree)' + Cardinality(Lent)' + Len(OnAvail)' + Len(OnUsed)'
            = Cardinality(hostFree) + Cardinality(Lent) + Len(OnAvail) + Len(OnUsed)
      BY <2>1, <2>2, <2>7, <2>8
    <2> QED BY <2>9 DEF Counted
  <1> QED BY <1>4, <1>5, <1>6


\* The host has put the first n descriptors on the avail ring.
LEMMA InvInit == Init => IInv
  <1> SUFFICES ASSUME Init PROVE IInv
    OBVIOUS
  <1>1. PICK n \in 0..Num : VirtQueueInit(n)
    BY DEF Init
  <1>2. VirtQueueTypeOK
    <2>1. {availIdx, lastAvail, usedIdx, lastUsed} \subseteq Indices /\ hostFree \subseteq Descs
      BY <1>1, NumAssumption, IdxAssumption DEF VirtQueueInit, Indices, Descs
    <2>2. availRing \in [Descs -> Descs] /\ usedRing \in [Descs -> Descs]
      BY <1>1, NumAssumption DEF VirtQueueInit, Descs
    <2>3. content \in [Descs -> Messages \cup {NULL}]
      BY <1>1 DEF VirtQueueInit
    <2>4. kicks \in 0..FifoSize /\ hostKicks \in 0..FifoSize
      BY <1>1, FifoAssumption DEF VirtQueueInit
    <2>5. {noNotify, noInterrupt, owesKick} \subseteq BOOLEAN
      BY <1>1 DEF VirtQueueInit
    <2> QED BY <2>1, <2>2, <2>3, <2>4, <2>5 DEF VirtQueueTypeOK
  <1>3. /\ Len(OnAvail) = n /\ Len(OnUsed) = 0
        /\ \A i \in 1..n : OnAvail[i] = i - 1
    <2>1. Distance(0, n) = n /\ Distance(0, 0) = 0
      BY DistanceCases, NumAssumption, IdxAssumption DEF Indices
    <2>2. \A i \in 1..n : Slot(0 + i - 1) = i - 1
      <3> TAKE i \in 1..n
      <3>1. Num \in Nat \ {0} /\ i - 1 \in 0..(Num - 1) /\ 0 + i - 1 = Num * 0 + (i - 1)
        BY NumAssumption
      <3> QED BY <3>1, Remainder DEF Slot
    <2> QED BY <1>1, <2>1, <2>2, NumAssumption DEF VirtQueueInit, OnAvail, OnUsed, Descs
  <1>4. TypeOK
    BY <1>2 DEF Init, TypeOK, Pcs
  <1>5. SendersOK /\ WaitingOK /\ MessagesSent
    BY <1>3, SendersAssumption DEF Init, SendersOK, WaitingOK, MessagesSent
  <1>6. hostFree = n..(Num - 1) /\ \A d \in Descs : ~Holds(d)
    BY <1>1, DescsAssumption DEF Init, VirtQueueInit, Holds
  <1>7. Apart
    BY <1>3, <1>6 DEF Apart, Init, InSeq, Injective
  <1>8. Somewhere
    <2>1. ASSUME NEW d \in Descs, d \notin hostFree PROVE InSeq(OnAvail, d)
      <3>1. d + 1 \in 1..n /\ OnAvail[d + 1] = d
        BY <1>3, <1>6, <2>1, NumAssumption DEF Descs
      <3> QED BY <1>3, <3>1 DEF InSeq
    <2> QED BY <2>1 DEF Somewhere
  <1>9. Counted
    <2>1. Lent = {} /\ Cardinality(Lent) = 0
      BY FS_EmptySet DEF Init, Lent
    <2>2. Cardinality(hostFree) = Num - n
      BY <1>6, FS_Interval, NumAssumption
    <2> QED BY <1>3, <2>1, <2>2, NumAssumption DEF Counted
  <1> QED BY <1>4, <1>5, <1>7, <1>8, <1>9 DEF IInv

\* The steps that move no descriptor.
LEMMA QuietSteps ==
  ASSUME IInv,
         \/ \E s \in Senders :
              \/ \E m \in Messages : Send(s, m)
              \/ SendReset(s) \/ SendNothing(s) \/ SendNotify(s) \/ SendPend(s) \/ SendKick(s)
         \/ Isr \/ HostDone \/ HostReturned \/ UNCHANGED vars
  PROVE  IInv'
  <1> USE DEF IInv, Placed, sendVars, semVars
  <1>1. ASSUME NEW s \in Senders, NEW m \in Messages, Send(s, m) PROVE IInv'
    <2>1. /\ OnAvail' = OnAvail /\ OnUsed' = OnUsed
          /\ UNCHANGED <<usedIdx, usedRing, hostFree, content>>
          /\ VirtQueueTypeOK'
      BY <1>1, RingsKept DEF Send, TypeOK
    <2>2. Placed'
      BY <1>1, <2>1, PlacedKept DEF Send
    <2>3. TypeOK'
      BY <1>1, <2>1 DEF Send, TypeOK, Pcs, Goto
    <2>4. SendersOK'
      BY <1>1, <2>1 DEF Send, TypeOK, SendersOK, WaitingOK, Goto
    <2>5. WaitingOK'
      BY <1>1 DEF Send, TypeOK, WaitingOK, Goto
    <2>6. MessagesSent'
      BY <2>1 DEF MessagesSent
    <2> QED BY <2>2, <2>3, <2>4, <2>5, <2>6 DEF IInv, Placed
  <1>2. ASSUME NEW s \in Senders, SendReset(s) PROVE IInv'
    <2>1. /\ OnAvail' = OnAvail /\ OnUsed' = OnUsed
          /\ UNCHANGED <<usedIdx, usedRing, hostFree, content>>
          /\ VirtQueueTypeOK'
      BY <1>2, RingsKept DEF SendReset, TypeOK
    <2>2. Placed'
      BY <1>2, <2>1, PlacedKept DEF SendReset
    <2>3. TypeOK'
      BY <1>2, <2>1 DEF SendReset, TypeOK, Pcs, Goto
    <2>4. SendersOK'
      BY <1>2, <2>1, SendersAssumption DEF SendReset, TypeOK, SendersOK, Goto
    <2>5. WaitingOK'
      BY <1>2 DEF SendReset, TypeOK, WaitingOK, Goto
    <2>6. MessagesSent'
      BY <2>1 DEF MessagesSent
    <2> QED BY <2>2, <2>3, <2>4, <2>5, <2>6 DEF IInv, Placed
  <1>3. ASSUME NEW s \in Senders, SendNothing(s) PROVE IInv'
    <2>1. /\ OnAvail' = OnAvail /\ OnUsed' = OnUsed
          /\ UNCHANGED <<usedIdx, usedRing, hostFree, content>>
          /\ VirtQueueTypeOK'
      BY <1>3, RingsKept DEF SendNothing, TypeOK
    <2>2. Placed'
      BY <1>3, <2>1, PlacedKept DEF SendNothing
    <2>3. TypeOK'
      BY <1>3, <2>1 DEF SendNothing, TypeOK, Pcs, Goto
    <2>4. SendersOK'
      BY <1>3, <2>1 DEF SendNothing, TypeOK, SendersOK, WaitingOK, Goto
    <2>5. WaitingOK'
      BY <1>3 DEF SendNothing, TypeOK, WaitingOK, Goto
    <2>6. MessagesSent'
      BY <2>1 DEF MessagesSent
    <2> QED BY <2>2, <2>3, <2>4, <2>5, <2>6 DEF IInv, Placed
  <1>4. ASSUME NEW s \in Senders, SendNotify(s) PROVE IInv'
    <2>1. /\ OnAvail' = OnAvail /\ OnUsed' = OnUsed
          /\ UNCHANGED <<usedIdx, usedRing, hostFree, content>>
          /\ VirtQueueTypeOK'
      BY <1>4, RingsKept DEF SendNotify, TypeOK
    <2>2. Placed'
      BY <1>4, <2>1, PlacedKept DEF SendNotify
    <2>3. TypeOK'
      BY <1>4, <2>1 DEF SendNotify, TypeOK, Pcs, Goto
    <2>4. SendersOK'
      BY <1>4, <2>1, SendersAssumption DEF SendNotify, TypeOK, SendersOK, Goto
    <2>5. WaitingOK'
      BY <1>4 DEF SendNotify, TypeOK, WaitingOK, Goto
    <2>6. MessagesSent'
      BY <2>1 DEF MessagesSent
    <2> QED BY <2>2, <2>3, <2>4, <2>5, <2>6 DEF IInv, Placed
  <1>5. ASSUME NEW s \in Senders, SendPend(s) PROVE IInv'
    <2>1. /\ OnAvail' = OnAvail /\ OnUsed' = OnUsed
          /\ UNCHANGED <<usedIdx, usedRing, hostFree, content>>
          /\ VirtQueueTypeOK'
      BY <1>5, RingsKept DEF SendPend, TypeOK
    <2>2. Placed'
      BY <1>5, <2>1, PlacedKept DEF SendPend
    <2>3. TypeOK'
      <3>1. CASE sem > 0
        BY <1>5, <2>1, <3>1 DEF SendPend, TypeOK, Pcs, Goto
      <3>2. CASE ~(sem > 0)
        BY <1>5, <2>1, <3>2 DEF SendPend, TypeOK, Pcs, Goto
      <3> QED BY <3>1, <3>2
    <2>4. SendersOK'
      BY <1>5, <2>1 DEF SendPend, TypeOK, SendersOK, WaitingOK, Goto
    <2>5. WaitingOK'
      <3>1. CASE sem > 0
        BY <1>5, <3>1 DEF SendPend, TypeOK, WaitingOK, Goto
      <3>2. CASE ~(sem > 0)
        <4>1. /\ waiting \in Seq(Senders) /\ waiting' = Append(waiting, s)
              /\ pc' = [pc EXCEPT ![s] = "blocked"] /\ pc[s] = "pend"
              /\ pc \in [Senders -> Pcs]
          BY <1>5, <3>2 DEF SendPend, TypeOK, Goto
        <4>2. /\ Len(waiting') = Len(waiting) + 1 /\ Len(waiting) \in Nat
              /\ \A i \in 1..Len(waiting) : waiting'[i] = waiting[i] /\ waiting[i] \in Senders
              /\ waiting'[Len(waiting) + 1] = s
          BY <4>1
        <4> QED BY <4>1, <4>2 DEF WaitingOK
      <3> QED BY <3>1, <3>2
    <2>6. MessagesSent'
      BY <2>1 DEF MessagesSent
    <2> QED BY <2>2, <2>3, <2>4, <2>5, <2>6 DEF IInv, Placed
  <1>6. ASSUME NEW s \in Senders, SendKick(s) PROVE IInv'
    <2>1. /\ OnAvail' = OnAvail /\ OnUsed' = OnUsed
          /\ UNCHANGED <<usedIdx, usedRing, hostFree, content>>
          /\ VirtQueueTypeOK'
      BY <1>6, RingsKept DEF SendKick, TypeOK
    <2>2. Placed'
      BY <1>6, <2>1, PlacedKept DEF SendKick
    <2>3. TypeOK'
      BY <1>6, <2>1 DEF SendKick, TypeOK, Pcs, Goto
    <2>4. SendersOK'
      BY <1>6, <2>1, SendersAssumption DEF SendKick, TypeOK, SendersOK, Goto
    <2>5. WaitingOK'
      BY <1>6 DEF SendKick, TypeOK, WaitingOK, Goto
    <2>6. MessagesSent'
      BY <2>1 DEF MessagesSent
    <2> QED BY <2>2, <2>3, <2>4, <2>5, <2>6 DEF IInv, Placed
  <1>7. ASSUME Isr PROVE IInv'
    <2>1. /\ OnAvail' = OnAvail /\ OnUsed' = OnUsed
          /\ UNCHANGED <<usedIdx, usedRing, hostFree, content>>
          /\ VirtQueueTypeOK'
      BY <1>7, RingsKept DEF Isr, TypeOK
    <2>2. Placed'
      BY <1>7, <2>1, PlacedKept DEF Isr
    <2>3. TypeOK'
      BY <1>7, <2>1 DEF Isr, TypeOK, Pcs, Goto
    <2>4. SendersOK'
      BY <1>7, <2>1 DEF Isr, TypeOK, SendersOK, WaitingOK, Goto
    <2>5. WaitingOK'
      <3>1. CASE waiting = <<>>
        BY <1>7, <3>1 DEF Isr, TypeOK, WaitingOK
      <3>2. CASE waiting # <<>>
        <4>1. /\ waiting \in Seq(Senders) /\ waiting' = Tail(waiting)
              /\ pc' = [pc EXCEPT ![Head(waiting)] = "enter"]
              /\ pc \in [Senders -> Pcs]
          BY <1>7, <3>2 DEF Isr, TypeOK, Goto
        <4>2. /\ Len(waiting') = Len(waiting) - 1 /\ Len(waiting) \in Nat
              /\ \A i \in 1..Len(waiting') : waiting'[i] = waiting[i + 1]
              /\ \A i \in 1..Len(waiting) : waiting[i] \in Senders
              /\ Head(waiting) = waiting[1] /\ Len(waiting) > 0
          BY <3>2, <4>1
        <4> QED BY <4>1, <4>2 DEF WaitingOK
      <3> QED BY <3>1, <3>2
    <2>6. MessagesSent'
      BY <2>1 DEF MessagesSent
    <2> QED BY <2>2, <2>3, <2>4, <2>5, <2>6 DEF IInv, Placed
  <1>8. ASSUME HostDone PROVE IInv'
    <2>1. /\ OnAvail' = OnAvail /\ OnUsed' = OnUsed
          /\ UNCHANGED <<usedIdx, usedRing, hostFree, content>>
          /\ VirtQueueTypeOK'
      BY <1>8, FifoAssumption DEF HostDone, TypeOK, VirtQueueTypeOK, OnAvail, OnUsed, availVars, usedVars,
        hostVars, flagVars
    <2>2. Placed'
      BY <1>8, <2>1, PlacedKept DEF HostDone
    <2>3. TypeOK'
      BY <1>8, <2>1 DEF HostDone, TypeOK, Pcs, Goto
    <2>4. SendersOK'
      BY <1>8, <2>1 DEF HostDone, TypeOK, SendersOK, WaitingOK, Goto
    <2>5. WaitingOK'
      BY <1>8 DEF HostDone, TypeOK, WaitingOK, Goto
    <2>6. MessagesSent'
      BY <2>1 DEF MessagesSent
    <2> QED BY <2>2, <2>3, <2>4, <2>5, <2>6 DEF IInv, Placed
  <1>9. ASSUME HostReturned PROVE IInv'
    <2>1. /\ OnAvail' = OnAvail /\ OnUsed' = OnUsed
          /\ UNCHANGED <<usedIdx, usedRing, hostFree, content>>
          /\ VirtQueueTypeOK'
      BY <1>9, RingsKept DEF HostReturned, TypeOK
    <2>2. Placed'
      BY <1>9, <2>1, PlacedKept DEF HostReturned
    <2>3. TypeOK'
      BY <1>9, <2>1 DEF HostReturned, TypeOK, Pcs, Goto
    <2>4. SendersOK'
      BY <1>9, <2>1 DEF HostReturned, TypeOK, SendersOK, WaitingOK, Goto
    <2>5. WaitingOK'
      BY <1>9 DEF HostReturned, TypeOK, WaitingOK, Goto
    <2>6. MessagesSent'
      BY <2>1 DEF MessagesSent
    <2> QED BY <2>2, <2>3, <2>4, <2>5, <2>6 DEF IInv, Placed
  <1>10. ASSUME UNCHANGED vars PROVE IInv'
    <2>1. /\ OnAvail' = OnAvail /\ OnUsed' = OnUsed
          /\ UNCHANGED <<usedIdx, usedRing, hostFree, content>>
          /\ VirtQueueTypeOK'
      BY <1>10, RingsKept DEF vars, TypeOK
    <2>2. Placed'
      BY <1>10, <2>1, PlacedKept DEF vars
    <2>3. TypeOK'
      BY <1>10, <2>1 DEF vars, TypeOK, Pcs, Goto
    <2>4. SendersOK'
      BY <1>10, <2>1 DEF vars, TypeOK, SendersOK, WaitingOK, Goto
    <2>5. WaitingOK'
      BY <1>10 DEF vars, TypeOK, WaitingOK, Goto
    <2>6. MessagesSent'
      BY <2>1 DEF MessagesSent
    <2> QED BY <2>2, <2>3, <2>4, <2>5, <2>6 DEF IInv, Placed
  <1> QED BY <1>1, <1>2, <1>3, <1>4, <1>5, <1>6, <1>7, <1>8, <1>9, <1>10


\* A sender takes the first descriptor that is available.
LEMMA SendTokenStep ==
  ASSUME IInv, NEW s \in Senders, SendToken(s)
  PROVE  IInv'
  <1> USE DEF IInv, Placed
  <1>1. /\ OnAvail # <<>> /\ NextAvail = Head(OnAvail) /\ OnAvail' = Tail(OnAvail)
        /\ OnUsed' = OnUsed /\ VirtQueueTypeOK' /\ NextAvail \in Descs
    BY GetAvailBufTakes, Rings DEF SendToken, TypeOK
  <1>2. UNCHANGED <<hostFree, usedIdx, usedRing, content>>
    BY DEF SendToken, GetAvailBuf, usedVars, hostVars
  <1>3. token[s] = NULL /\ token' = [token EXCEPT ![s] = NextAvail] /\ pc' = [pc EXCEPT ![s] = "fill"]
    BY DEF SendToken, SendersOK, Goto
  <1>4. Placed'
    BY <1>1, <1>2, <1>3, PlacedByToken
  <1>5. TypeOK'
    BY <1>1 DEF SendToken, TypeOK, Pcs, Goto, semVars
  <1>6. SendersOK'
    BY <1>1, <1>2, <1>3, SendersAssumption, DescsAssumption DEF SendToken, TypeOK, SendersOK
  <1>7. WaitingOK'
    BY DEF SendToken, TypeOK, WaitingOK, Goto, semVars
  <1>8. MessagesSent'
    BY <1>1, <1>2 DEF MessagesSent
  <1> QED BY <1>4, <1>5, <1>6, <1>7, <1>8

\* A buffer that a sender fills is on no ring and is no other sender's.
LEMMA SendFillStep ==
  ASSUME IInv, NEW s \in Senders, SendFill(s)
  PROVE  IInv'
  <1> USE DEF IInv, Placed
  <1>1. token[s] \in Descs /\ Holds(token[s]) /\ msg[s] \in Messages
    BY DEF SendFill, TypeOK, SendersOK, Holds
  <1>2. /\ UNCHANGED <<availVars, usedVars, hostVars, lastAvail, flagVars, kicks, hostKicks, token, msg, gate>>
        /\ content' = [content EXCEPT ![token[s]] = msg[s]] /\ pc' = [pc EXCEPT ![s] = "add"]
        /\ content \in [Descs -> Messages \cup {NULL}] /\ pc[s] = "fill"
    BY DEF SendFill, TypeOK, VirtQueueTypeOK, Goto
  <1>3. OnAvail' = OnAvail /\ OnUsed' = OnUsed /\ hostFree' = hostFree
    BY <1>2 DEF OnAvail, OnUsed, availVars, usedVars, hostVars
  <1>4. Placed'
    BY <1>2, <1>3, PlacedKept
  <1>5. TypeOK'
    BY <1>1, <1>2 DEF SendFill, TypeOK, VirtQueueTypeOK, Pcs, Goto, availVars, usedVars,
      hostVars, flagVars, semVars
  <1>6. SendersOK'
    <2>1. usedIdx' = usedIdx /\ usedRing' = usedRing
      BY <1>2 DEF usedVars
    <2>2. ASSUME NEW u \in Senders, u # s, token[u] # NULL PROVE content'[token[u]] = content[token[u]]
      BY <1>1, <1>2, <2>2 DEF Apart, TypeOK
    <2>3. content'[token[s]] = msg[s]
      BY <1>1, <1>2
    <2> QED BY <1>1, <1>2, <2>1, <2>2, <2>3 DEF TypeOK, SendersOK
  <1>7. WaitingOK'
    BY DEF SendFill, TypeOK, WaitingOK, Goto, semVars
  <1>8. MessagesSent'
    <2>1. \A i \in 1..Len(OnUsed) : OnUsed[i] # token[s] /\ OnUsed[i] \in Descs
      BY <1>1, Rings DEF Apart, InSeq, TypeOK
    <2> QED BY <1>2, <1>3, <2>1 DEF MessagesSent
  <1> QED BY <1>4, <1>5, <1>6, <1>7, <1>8

\* It writes the used entry, inside the gate.
LEMMA SendAddStep ==
  ASSUME IInv, NEW s \in Senders, SendAdd(s)
  PROVE  IInv'
  <1> USE DEF IInv, Placed
  <1>1. token[s] \in Descs /\ Len(OnUsed) < Num
    <2>1. token[s] \in Descs /\ s \in Lent
      BY DEF SendAdd, TypeOK, SendersOK, Lent
    <2> QED BY <2>1, Room DEF TypeOK
  <1>2. /\ OnAvail' = OnAvail /\ OnUsed' = OnUsed /\ usedIdx' = usedIdx
        /\ usedRing'[Slot(usedIdx)] = token[s] /\ VirtQueueTypeOK'
    BY <1>1, WriteUsedKeeps DEF SendAdd, TypeOK
  <1>3. UNCHANGED <<hostFree, content, token, msg>>
    BY DEF SendAdd, WriteUsed, hostVars
  <1>4. Placed'
    BY <1>2, <1>3, PlacedKept
  <1>5. TypeOK'
    BY <1>2 DEF SendAdd, TypeOK, Pcs, Goto, semVars
  <1>6. SendersOK'
    BY <1>2, <1>3, SendersAssumption DEF SendAdd, TypeOK, SendersOK, Goto
  <1>7. WaitingOK'
    BY DEF SendAdd, TypeOK, WaitingOK, Goto, semVars
  <1>8. MessagesSent'
    BY <1>2, <1>3 DEF MessagesSent
  <1> QED BY <1>4, <1>5, <1>6, <1>7, <1>8

\* The descriptor is the one the entry was written for: the gate kept others off it.
LEMMA BumpShows ==
  ASSUME IInv, NEW s \in Senders, SendBump(s)
  PROVE  /\ token[s] \in Descs /\ content[token[s]] = msg[s] /\ msg[s] \in Messages
         /\ Len(OnUsed) < Num /\ OnUsed \in Seq(Descs)
         /\ OnUsed' = Append(OnUsed, token[s]) /\ OnAvail' = OnAvail
         /\ VirtQueueTypeOK' /\ hostFree' = hostFree /\ content' = content
  <1> USE DEF IInv, Placed
  <1>1. /\ token[s] \in Descs /\ usedRing[Slot(usedIdx)] = token[s] /\ s \in Lent
        /\ content[token[s]] = msg[s] /\ msg[s] \in Messages
    BY DEF SendBump, TypeOK, SendersOK, Lent
  <1>2. Len(OnUsed) < Num /\ OnUsed \in Seq(Descs)
    BY <1>1, Room, Rings DEF TypeOK
  <1>3. OnUsed' = Append(OnUsed, token[s]) /\ OnAvail' = OnAvail /\ VirtQueueTypeOK'
    BY <1>1, <1>2, BumpUsedAdds DEF SendBump, TypeOK
  <1> QED BY <1>1, <1>2, <1>3 DEF SendBump, BumpUsed, hostVars

\* It moves the index, and the descriptor goes from its hand to the ring.
LEMMA SendBumpStep ==
  ASSUME IInv, NEW s \in Senders, SendBump(s)
  PROVE  IInv'
  <1> USE DEF IInv, Placed
  <1>1. /\ token[s] \in Descs /\ content[token[s]] \in Messages /\ OnUsed \in Seq(Descs)
        /\ OnUsed' = Append(OnUsed, token[s]) /\ OnAvail' = OnAvail
        /\ VirtQueueTypeOK' /\ hostFree' = hostFree /\ content' = content
    BY BumpShows
  <1>2. /\ token' = [token EXCEPT ![s] = NULL] /\ msg' = [msg EXCEPT ![s] = NULL]
        /\ pc' = [pc EXCEPT ![s] = "kick"] /\ pc[s] = "bump" /\ gate' = gate
    BY DEF SendBump, Goto
  <1>3. Placed'
    BY <1>1, <1>2, PlacedByBump, DescsAssumption
  <1>4. TypeOK'
    BY <1>1 DEF SendBump, TypeOK, Pcs, Goto, semVars
  <1>5. SendersOK'
    <2>1. \A u \in Senders : u # s => pc[u] # "bump"
      BY <1>2 DEF SendersOK
    <2> QED BY <1>1, <1>2, <2>1 DEF TypeOK, SendersOK
  <1>6. WaitingOK'
    BY DEF SendBump, TypeOK, WaitingOK, Goto, semVars
  <1>7. MessagesSent'
    BY <1>1 DEF MessagesSent
  <1> QED BY <1>3, <1>4, <1>5, <1>6, <1>7

\* The host takes a descriptor off the used ring.
LEMMA HostReceiveStep ==
  ASSUME IInv, HostReceive
  PROVE  IInv'
  <1> USE DEF IInv, Placed
  <1>1. /\ OnUsed # <<>> /\ NextUsed = Head(OnUsed) /\ OnUsed' = Tail(OnUsed)
        /\ OnAvail' = OnAvail /\ hostFree' = hostFree \cup {NextUsed}
        /\ content' = content /\ VirtQueueTypeOK' /\ OnUsed \in Seq(Descs)
    BY HostCollectTakes, Rings DEF HostReceive, TypeOK
  <1>2. UNCHANGED <<usedVars, sendVars, semVars>> /\ received' = content[NextUsed]
    BY DEF HostReceive, HostCollect
  <1>3. Placed'
    BY <1>1, <1>2, PlacedByCollect DEF sendVars
  <1>4. content[NextUsed] \in Messages
    BY <1>1 DEF MessagesSent
  <1>5. TypeOK'
    BY <1>1, <1>2, <1>4 DEF TypeOK, sendVars, semVars
  <1>6. SendersOK' /\ WaitingOK'
    BY <1>1, <1>2 DEF SendersOK, WaitingOK, sendVars, semVars, usedVars
  <1>7. MessagesSent'
    BY <1>1 DEF MessagesSent
  <1> QED BY <1>3, <1>5, <1>6, <1>7

\* The host makes one available again.
LEMMA HostReturnStep ==
  ASSUME IInv, HostReturn
  PROVE  IInv'
  <1> USE DEF IInv, Placed
  <1>1. PICK d \in Descs : HostAdd(d, NULL)
    BY DEF HostReturn
  <1>2. d \in hostFree /\ Len(OnAvail) < Num
    BY <1>1, Room DEF HostAdd, TypeOK
  <1>3. OnAvail' = Append(OnAvail, d) /\ OnUsed' = OnUsed /\ VirtQueueTypeOK'
    BY <1>1, <1>2, HostAddAdds DEF TypeOK
  <1>4. /\ UNCHANGED <<usedVars, sendVars, semVars, received>> /\ hostFree' = hostFree \ {d}
        /\ content' = [content EXCEPT ![d] = NULL] /\ content \in [Descs -> Messages \cup {NULL}]
    BY <1>1 DEF HostReturn, HostAdd, TypeOK, VirtQueueTypeOK
  <1>5. Placed'
    BY <1>2, <1>3, <1>4, PlacedByAdd DEF sendVars
  <1>6. TypeOK'
    BY <1>3, <1>4 DEF TypeOK, sendVars, semVars
  <1>7. SendersOK' /\ WaitingOK'
    <2>1. \A s \in Senders : token[s] # NULL => token[s] # d /\ token[s] \in Descs
      BY <1>2 DEF Apart, Holds, TypeOK
    <2>2. \A s \in Senders : token[s] # NULL => content'[token[s]] = content[token[s]]
      BY <1>4, <2>1
    <2> QED BY <1>4, <2>2 DEF SendersOK, WaitingOK, sendVars, semVars, usedVars
  <1>8. MessagesSent'
    <2>1. \A i \in 1..Len(OnUsed) : OnUsed[i] # d /\ OnUsed[i] \in Descs
      BY <1>2, Rings DEF Apart, InSeq, TypeOK
    <2> QED BY <1>3, <1>4, <2>1 DEF MessagesSent
  <1> QED BY <1>5, <1>6, <1>7, <1>8

\* Every step keeps the invariant.
LEMMA InvStep == IInv /\ [Next]_vars => IInv'
  <1> HIDE DEF IInv
  <1> SUFFICES ASSUME IInv, [Next]_vars PROVE IInv'
    OBVIOUS
  <1> QED
    BY QuietSteps, SendTokenStep, SendFillStep, SendAddStep, SendBumpStep, HostReceiveStep, HostReturnStep
    DEF Next, SendStep, Host

\* At any moment indices, rings, flags, mailboxes, senders and the semaphore are as
\* VirtQueue.c and MessageQCopy_send leave them, for indices of any width.
THEOREM SendTypeOK == Spec => []TypeOK
  <1>1. IInv => TypeOK
    BY DEF IInv
  <1> QED BY InvInit, InvStep, <1>1, PTL DEF Spec

\* Every descriptor is in one place, through all wraps of the indices: no buffer is
\* written by two senders, sent twice or leaked.
THEOREM SendersOwnDescriptorsOnce == Spec => []DescriptorsOwnedOnce
  <1>1. IInv => DescriptorsOwnedOnce
    <2> SUFFICES ASSUME IInv PROVE DescriptorsOwnedOnce
      OBVIOUS
    <2>4. Cardinality(hostFree) + Cardinality(Lent) + Len(OnRings) = Num
      BY RingsTogether, CardinalitiesOK, NumAssumption DEF IInv, TypeOK, VirtQueueTypeOK, Counted
    <2>5. {OnRings[i] : i \in DOMAIN OnRings} = {d \in Descs : InSeq(OnAvail, d) \/ InSeq(OnUsed, d)}
      BY RingsTogether DEF IInv, TypeOK
    <2>6. {token[s] : s \in Lent} = {d \in Descs : Holds(d)}
      BY DescsAssumption DEF IInv, TypeOK, Lent, Holds
    <2> QED BY <2>4, <2>5, <2>6 DEF IInv, TypeOK, VirtQueueTypeOK, Somewhere, DescriptorsOwnedOnce
  <1> QED BY InvInit, InvStep, <1>1, PTL DEF Spec


-----------------------------------------------------------------------------
(* The abstract channel.                                                   *)

Chan == [i \in DOMAIN OnUsed |-> content[OnUsed[i]]]

ChanIsSeq ==
  /\ Chan \in Seq(Messages) /\ Len(Chan) = Len(OnUsed) /\ Len(OnUsed) \in Nat
  /\ \A i \in 1..Len(OnUsed) : Chan[i] = content[OnUsed[i]] /\ OnUsed[i] \in Descs

\* What is in the channel is a sequence of messages.
LEMMA ChanOK == IInv => ChanIsSeq
  <1> SUFFICES ASSUME IInv PROVE ChanIsSeq
    OBVIOUS
  <1>1. OnUsed \in Seq(Descs)
    BY Rings DEF IInv, TypeOK
  <1>2. DOMAIN OnUsed = 1..Len(OnUsed) /\ Len(OnUsed) \in Nat
    BY <1>1
  <1>3. \A i \in 1..Len(OnUsed) : content[OnUsed[i]] \in Messages
    BY DEF IInv, MessagesSent
  <1> QED BY <1>1, <1>2, <1>3 DEF Chan, ChanIsSeq

\* Entries stay, and so does what is in their buffers.
LEMMA ChanKept ==
  ASSUME IInv, IInv', OnUsed' = OnUsed,
         \A i \in 1..Len(OnUsed) : content'[OnUsed[i]] = content[OnUsed[i]]
  PROVE  Chan' = Chan
  BY ChanOK DEF Chan, ChanIsSeq

\* SendBump puts the message of its sender in the channel, which is not full.
LEMMA BumpPuts ==
  ASSUME IInv, IInv', NEW s \in Senders, SendBump(s)
  PROVE  msg[s] \in Messages /\ Len(Chan) < Num /\ Chan' = Append(Chan, msg[s]) /\ received' = received
  <1>1. /\ token[s] \in Descs /\ content[token[s]] = msg[s] /\ msg[s] \in Messages
        /\ Len(OnUsed) < Num /\ OnUsed \in Seq(Descs)
        /\ OnUsed' = Append(OnUsed, token[s]) /\ content' = content
    BY BumpShows
  <1>2. /\ Chan \in Seq(Messages) /\ Len(Chan) = Len(OnUsed) /\ Len(OnUsed) \in Nat
        /\ \A i \in 1..Len(OnUsed) : Chan[i] = content[OnUsed[i]]
    BY ChanOK DEF ChanIsSeq
  <1>3. /\ Chan' \in Seq(Messages) /\ Len(Chan') = Len(OnUsed') /\ Len(OnUsed') = Len(OnUsed) + 1
        /\ \A i \in 1..Len(OnUsed') : Chan'[i] = content[OnUsed'[i]]
    <2>1. ChanIsSeq'
      BY ChanOK, PTL
    <2> QED BY <1>1, <2>1 DEF ChanIsSeq
  <1>4. \A i \in 1..(Len(OnUsed) + 1) : Chan'[i] = Append(Chan, msg[s])[i]
    BY <1>1, <1>2, <1>3
  <1>5. Append(Chan, msg[s]) \in Seq(Messages) /\ Len(Append(Chan, msg[s])) = Len(OnUsed) + 1
    BY <1>1, <1>2
  <1>6. Chan' = Append(Chan, msg[s])
    BY <1>3, <1>4, <1>5, SeqEqual
  <1> QED BY <1>1, <1>2, <1>6 DEF SendBump

\* HostReceive gets the first message of the channel.
LEMMA ReceiveGets ==
  ASSUME IInv, IInv', HostReceive
  PROVE  Chan # <<>> /\ Chan' = Tail(Chan) /\ received' = Head(Chan)
  <1>1. /\ OnUsed # <<>> /\ NextUsed = Head(OnUsed) /\ OnUsed' = Tail(OnUsed)
        /\ content' = content /\ OnUsed \in Seq(Descs) /\ received' = content[NextUsed]
    BY HostCollectTakes, Rings DEF HostReceive, IInv, TypeOK
  <1>2. /\ Chan \in Seq(Messages) /\ Len(Chan) = Len(OnUsed) /\ Len(OnUsed) \in Nat
        /\ \A i \in 1..Len(OnUsed) : Chan[i] = content[OnUsed[i]]
    BY ChanOK DEF ChanIsSeq
  <1>3. /\ Chan' \in Seq(Messages) /\ Len(Chan') = Len(OnUsed') /\ Len(OnUsed') = Len(OnUsed) - 1
        /\ \A i \in 1..Len(OnUsed') : Chan'[i] = content[OnUsed'[i]]
        /\ Len(OnUsed) > 0
    <2>1. ChanIsSeq'
      BY ChanOK, PTL
    <2> QED BY <1>1, <2>1 DEF ChanIsSeq
  <1>4. /\ Chan # <<>> /\ Head(Chan) = content[NextUsed]
        /\ Tail(Chan) \in Seq(Messages) /\ Len(Tail(Chan)) = Len(OnUsed) - 1
        /\ \A i \in 1..(Len(OnUsed) - 1) : Tail(Chan)[i] = content[OnUsed[i + 1]]
    BY <1>1, <1>2, <1>3
  <1>5. \A i \in 1..(Len(OnUsed) - 1) : Chan'[i] = Tail(Chan)[i]
    BY <1>1, <1>2, <1>3, <1>4
  <1>6. Chan' = Tail(Chan)
    BY <1>3, <1>4, <1>5, SeqEqual
  <1> QED BY <1>1, <1>4, <1>6

\* No other step changes what is in the channel.
LEMMA OtherStepsKeep ==
  ASSUME IInv, IInv', [Next]_vars
  PROVE  \/ \E s \in Senders : SendBump(s)
         \/ HostReceive
         \/ UNCHANGED <<Chan, received>>
  <1> USE DEF sendVars, semVars
  <1>1. VirtQueueTypeOK
    BY DEF IInv, TypeOK
  <1> DEFINE Kept == OnUsed' = OnUsed /\ received' = received
                       /\ \A i \in 1..Len(OnUsed) : content'[OnUsed[i]] = content[OnUsed[i]]
  <1>2. ASSUME NEW s \in Senders,
               \/ \E m \in Messages : Send(s, m)
               \/ SendReset(s) \/ SendNothing(s) \/ SendNotify(s) \/ SendPend(s) \/ SendKick(s)
        PROVE  Kept
    <2>1. EnableNotify \/ Kick \/ UNCHANGED vringVars
      BY <1>2 DEF Send, SendReset, SendNothing, SendNotify, SendPend, SendKick
    <2>2. OnUsed' = OnUsed /\ content' = content
      BY <1>1, <2>1, RingsKept
    <2> QED BY <1>2, <2>2 DEF Send, SendReset, SendNothing, SendNotify, SendPend, SendKick
  <1>3. ASSUME NEW s \in Senders, SendToken(s) PROVE Kept
    BY <1>1, <1>3, GetAvailBufTakes DEF SendToken, GetAvailBuf
  <1>4. ASSUME NEW s \in Senders, SendFill(s) PROVE Kept
    <2>1. token[s] \in Descs /\ Holds(token[s]) /\ OnUsed' = OnUsed
      BY <1>4 DEF IInv, SendFill, TypeOK, SendersOK, Holds, OnUsed, usedVars, hostVars
    <2>2. \A i \in 1..Len(OnUsed) : OnUsed[i] # token[s]
      BY <2>1 DEF IInv, Apart, InSeq
    <2>3. content' = [content EXCEPT ![token[s]] = msg[s]] /\ content \in [Descs -> Messages \cup {NULL}]
      BY <1>1, <1>4 DEF SendFill, VirtQueueTypeOK
    <2>4. \A i \in 1..Len(OnUsed) : OnUsed[i] \in Descs
      BY <1>1, Rings
    <2> QED BY <1>4, <2>1, <2>2, <2>3, <2>4 DEF SendFill
  <1>5. ASSUME NEW s \in Senders, SendAdd(s) PROVE Kept
    <2>1. token[s] \in Descs /\ Len(OnUsed) < Num
      <3>1. token[s] \in Descs /\ s \in Lent
        BY <1>5 DEF IInv, SendAdd, TypeOK, SendersOK, Lent
      <3> QED BY <1>1, <3>1, Room DEF IInv
    <2> QED BY <1>1, <1>5, <2>1, WriteUsedKeeps DEF SendAdd, WriteUsed
  <1>6. ASSUME Isr \/ HostReturned \/ UNCHANGED vars PROVE Kept
    <2>1. TakeKick \/ HostNotify \/ UNCHANGED vringVars
      BY <1>6 DEF Isr, HostReturned, vars
    <2>2. OnUsed' = OnUsed /\ content' = content
      BY <1>1, <2>1, RingsKept
    <2> QED BY <1>6, <2>2 DEF Isr, HostReturned, vars
  <1>7. ASSUME HostDone PROVE Kept
    BY <1>7 DEF HostDone, OnUsed, usedVars, hostVars
  <1>8. ASSUME HostReturn PROVE Kept
    <2>1. PICK d \in Descs : HostAdd(d, NULL)
      BY <1>8 DEF HostReturn
    <2>2. d \in hostFree /\ OnUsed' = OnUsed /\ content' = [content EXCEPT ![d] = NULL]
      BY <2>1 DEF HostAdd, OnUsed, usedVars
    <2>3. \A i \in 1..Len(OnUsed) : OnUsed[i] # d /\ OnUsed[i] \in Descs
      BY <1>1, <2>2, Rings DEF IInv, Apart, InSeq
    <2>4. content \in [Descs -> Messages \cup {NULL}]
      BY <1>1 DEF VirtQueueTypeOK
    <2> QED BY <1>8, <2>2, <2>3, <2>4 DEF HostReturn
  <1>9. Kept => UNCHANGED <<Chan, received>>
    BY ChanKept
  <1> HIDE DEF Kept, IInv, Chan
  <1> QED BY <1>2, <1>3, <1>4, <1>5, <1>6, <1>7, <1>8, <1>9 DEF Next, SendStep, Host

\* The host gets what the tasks sent, once each, unaltered and in order, and never
\* more than there are buffers lie in between: SendBump puts a message in the
\* abstract channel, HostReceive gets it, and no other step shows.
THEOREM SendImplementsChannel == Spec => RefinesChannel
  <1>1. Init => CH!Init
    <2> SUFFICES ASSUME Init PROVE CH!Init
      OBVIOUS
    <2>1. Chan \in Seq(Messages) /\ Len(Chan) = Len(OnUsed)
      BY InvInit, ChanOK DEF ChanIsSeq
    <2>2. PICK n \in 0..Num : VirtQueueInit(n)
      BY DEF Init
    <2>3. Distance(0, 0) = 0
      BY DistanceCases, IdxAssumption, NumAssumption DEF Indices
    <2>4. Len(OnUsed) = 0
      BY <2>2, <2>3 DEF VirtQueueInit, OnUsed
    <2>5. Chan = <<>>
      BY <2>1, <2>4
    <2> QED BY <2>5 DEF CH!Init, Init, Chan
  <1>2. IInv /\ IInv' /\ [Next]_vars => [CH!Next]_<<Chan, received>>
    <2> HIDE DEF IInv, Chan
    <2> SUFFICES ASSUME IInv, IInv', [Next]_vars PROVE [CH!Next]_<<Chan, received>>
      OBVIOUS
    <2>1. ASSUME NEW s \in Senders, SendBump(s) PROVE \E m \in Messages : CH!Put(m)
      <3>1. PICK m \in Messages : m = msg[s]
        BY <2>1, BumpPuts
      <3>2. Len(Chan) < Num /\ Chan' = Append(Chan, m) /\ received' = received
        BY <2>1, <3>1, BumpPuts
      <3>3. CH!Put(m)
        BY <3>2 DEF CH!Put, Chan
      <3> QED BY <3>3
    <2>2. ASSUME HostReceive PROVE CH!Get
      <3>1. Chan # <<>> /\ Chan' = Tail(Chan) /\ received' = Head(Chan)
        BY <2>2, ReceiveGets
      <3> QED BY <2>2, <3>1 DEF CH!Get, Chan
    <2>3. \/ \E m \in Messages : CH!Put(m)
          \/ CH!Get
          \/ UNCHANGED <<Chan, received>>
      BY <2>1, <2>2, OtherStepsKeep
    <2> QED BY <2>3, Zenon DEF CH!Next
  <1>3. Spec => []IInv
    BY InvInit, InvStep, PTL DEF Spec
  <1> QED BY <1>1, <1>2, <1>3, PTL DEF RefinesChannel, CH!Spec, Spec, Chan

-----------------------------------------------------------------------------
(* Arrivals: the inductive invariant.                                      *)

\* The Swi has a descriptor between taking it and showing it to the host.
SwiOK ==
  /\ swi \in {"deliver", "add", "bump"} <=> swiToken # NULL
  /\ swi = "bump" => usedRing[Slot(usedIdx)] = swiToken

\* No descriptor is in two places, ...
InboundApart ==
  /\ Injective(OnAvail) /\ Injective(OnUsed)
  /\ \A d \in Descs :
       /\ d \in hostFree => swiToken # d /\ ~InSeq(OnAvail, d) /\ ~InSeq(OnUsed, d)
       /\ swiToken = d => ~InSeq(OnAvail, d) /\ ~InSeq(OnUsed, d)
       /\ InSeq(OnAvail, d) => ~InSeq(OnUsed, d)

\* ... and none is in no place.
InboundSomewhere ==
  \A d \in Descs : d \in hostFree \/ swiToken = d \/ InSeq(OnAvail, d) \/ InSeq(OnUsed, d)

InHand == IF swiToken = NULL THEN 0 ELSE 1
InboundCounted == Cardinality(hostFree) + InHand + Len(OnAvail) + Len(OnUsed) = Num

InboundPlaced == InboundApart /\ InboundSomewhere /\ InboundCounted

\* What the Swi will deliver is a message.
MessagesWait ==
  /\ \A i \in 1..Len(OnAvail) : content[OnAvail[i]] \in Messages
  /\ swi = "deliver" => content[swiToken] \in Messages

AInv == ArrivalsTypeOK /\ SwiOK /\ InboundPlaced /\ MessagesWait

-----------------------------------------------------------------------------
(* Arrivals: where descriptors are.                                        *)

\* The free descriptors can be counted.
LEMMA FreeCounted ==
  ASSUME VirtQueueTypeOK
  PROVE  /\ IsFiniteSet(hostFree) /\ Cardinality(hostFree) \in Nat
         /\ hostFree # {} => Cardinality(hostFree) > 0
  <1>1. IsFiniteSet(Descs)
    BY FS_Interval, NumAssumption DEF Descs
  <1>2. IsFiniteSet(hostFree) /\ Cardinality(hostFree) \in Nat
    BY <1>1, FS_Subset, FS_CardinalityType DEF VirtQueueTypeOK
  <1> QED BY <1>2, FS_EmptySet

\* While the host has a descriptor, or the Swi does, there is room for it on the rings.
LEMMA InboundRoom ==
  ASSUME VirtQueueTypeOK, InboundCounted
  PROVE  /\ Len(OnAvail) \in Nat /\ Len(OnUsed) \in Nat /\ InHand \in Nat
         /\ Cardinality(hostFree) \in Nat
         /\ hostFree # {} => InHand + Len(OnAvail) < Num
         /\ swiToken # NULL => Len(OnUsed) < Num
  <1>1. Len(OnAvail) \in Nat /\ Len(OnUsed) \in Nat
    BY Rings, LenProperties
  <1>2. InHand \in Nat /\ (swiToken # NULL => InHand = 1)
    BY DEF InHand
  <1>3. Cardinality(hostFree) \in Nat /\ (hostFree # {} => Cardinality(hostFree) > 0)
    BY FreeCounted
  <1> QED BY <1>1, <1>2, <1>3, NumAssumption DEF InboundCounted

\* Descriptors stay where they are.
LEMMA InboundKept ==
  ASSUME InboundPlaced, swiToken' = swiToken, OnAvail' = OnAvail, OnUsed' = OnUsed,
         hostFree' = hostFree
  PROVE  InboundPlaced'
  BY DEF InboundPlaced, InboundApart, InboundSomewhere, InboundCounted, InHand, InSeq, Injective

\* The first descriptor of the avail ring goes to the Swi, which has none.
LEMMA InboundByToken ==
  ASSUME VirtQueueTypeOK, InboundPlaced, OnAvail # <<>>, OnAvail' = Tail(OnAvail),
         OnUsed' = OnUsed, hostFree' = hostFree, swiToken = NULL, swiToken' = Head(OnAvail)
  PROVE  InboundPlaced'
  <1> USE DEF InboundPlaced
  <1>1. PICK d \in Descs :
          /\ d = swiToken' /\ d # NULL /\ InSeq(OnAvail, d) /\ Injective(OnAvail)'
          /\ Len(OnAvail)' = Len(OnAvail) - 1
          /\ \A c : InSeq(OnAvail, c)' <=> InSeq(OnAvail, c) /\ c # d
    BY Rings, TailOf, DescsAssumption DEF InboundApart
  <1>2. \A c : InSeq(OnUsed, c)' <=> InSeq(OnUsed, c)
    BY DEF InSeq
  <1>3. InboundApart'
    BY <1>1, <1>2 DEF InboundApart, Injective
  <1>4. InboundSomewhere'
    BY <1>1, <1>2, DescsAssumption DEF InboundSomewhere
  <1>5. InboundCounted'
    <2>1. InHand = 0 /\ InHand' = 1
      BY <1>1 DEF InHand
    <2> QED BY <1>1, <2>1, InboundRoom DEF InboundCounted
  <1> QED BY <1>3, <1>4, <1>5

\* One less in the hand and one more on the ring.
LEMMA Moved ==
  ASSUME NEW f \in Nat, NEW a \in Nat, NEW u \in Nat, f + 1 + a + u = Num
  PROVE  f + 0 + a + (u + 1) = Num
  BY NumAssumption

\* The descriptor of the Swi joins the used ring.
LEMMA InboundByBump ==
  ASSUME VirtQueueTypeOK, InboundPlaced, NEW d \in Descs, d = swiToken,
         OnUsed' = Append(OnUsed, d), OnAvail' = OnAvail, hostFree' = hostFree,
         swiToken' = NULL
  PROVE  InboundPlaced'
  <1> USE DEF InboundPlaced
  <1>1. d # NULL /\ OnUsed \in Seq(Descs) /\ ~InSeq(OnUsed, d) /\ Injective(OnUsed)
    BY Rings, DescsAssumption DEF InboundApart
  <1>2. /\ Injective(OnUsed)' /\ Len(OnUsed)' = Len(OnUsed) + 1
        /\ \A c : InSeq(OnUsed, c)' <=> InSeq(OnUsed, c) \/ c = d
    BY <1>1, AppendOf
  <1>3. \A c : InSeq(OnAvail, c)' <=> InSeq(OnAvail, c)
    BY DEF InSeq
  <1>4. InboundApart'
    BY <1>2, <1>3, DescsAssumption DEF InboundApart, Injective
  <1>5. InboundSomewhere'
    BY <1>2, <1>3 DEF InboundSomewhere
  <1>6. InboundCounted'
    <2>1. InHand = 1 /\ InHand' = 0
      BY <1>1 DEF InHand
    <2>2. PICK f \in Nat, a \in Nat, u \in Nat :
            /\ f = Cardinality(hostFree) /\ a = Len(OnAvail) /\ u = Len(OnUsed)
            /\ f + 1 + a + u = Num
      BY <2>1, InboundRoom DEF InboundCounted
    <2>3. Cardinality(hostFree)' = f /\ Len(OnAvail)' = a
      BY <2>2
    <2>4. Len(OnUsed)' = u + 1
      BY <1>2, <2>2
    <2>5. Cardinality(hostFree)' + InHand' + Len(OnAvail)' + Len(OnUsed)' = f + 0 + a + (u + 1)
      BY <2>1, <2>3, <2>4
    <2>6. f + 0 + a + (u + 1) = Num
      BY <2>2, Moved
    <2> QED BY <2>5, <2>6 DEF InboundCounted
  <1> QED BY <1>4, <1>5, <1>6

\* The host takes the first descriptor of the used ring back.
LEMMA InboundByCollect ==
  ASSUME VirtQueueTypeOK, InboundPlaced, OnUsed # <<>>, OnUsed' = Tail(OnUsed),
         OnAvail' = OnAvail, hostFree' = hostFree \cup {Head(OnUsed)}, swiToken' = swiToken
  PROVE  InboundPlaced'
  <1> USE DEF InboundPlaced
  <1>1. PICK d \in Descs :
          /\ hostFree' = hostFree \cup {d} /\ InSeq(OnUsed, d) /\ Injective(OnUsed)'
          /\ Len(OnUsed)' = Len(OnUsed) - 1
          /\ \A c : InSeq(OnUsed, c)' <=> InSeq(OnUsed, c) /\ c # d
    BY Rings, TailOf DEF InboundApart
  <1>2. \A c : InSeq(OnAvail, c)' <=> InSeq(OnAvail, c)
    BY DEF InSeq
  <1>3. InboundApart'
    BY <1>1, <1>2 DEF InboundApart, Injective
  <1>4. InboundSomewhere'
    BY <1>1, <1>2 DEF InboundSomewhere
  <1>5. InboundCounted'
    <2>1. d \notin hostFree
      BY <1>1 DEF InboundApart
    <2>2. Cardinality(hostFree') = Cardinality(hostFree) + 1
      BY <1>1, <2>1, FreeCounted, FS_AddElement
    <2>3. InHand' = InHand /\ Len(OnAvail)' = Len(OnAvail)
      BY DEF InHand
    <2> QED BY <1>1, <2>2, <2>3, InboundRoom DEF InboundCounted
  <1> QED BY <1>3, <1>4, <1>5

\* The host makes a descriptor available.
LEMMA InboundByAdd ==
  ASSUME VirtQueueTypeOK, InboundPlaced, NEW d \in hostFree,
         OnAvail' = Append(OnAvail, d), OnUsed' = OnUsed,
         hostFree' = hostFree \ {d}, swiToken' = swiToken
  PROVE  InboundPlaced'
  <1> USE DEF InboundPlaced
  <1>1. d \in Descs /\ OnAvail \in Seq(Descs) /\ ~InSeq(OnAvail, d) /\ Injective(OnAvail)
    BY Rings DEF VirtQueueTypeOK, InboundApart
  <1>2. /\ Injective(OnAvail)' /\ Len(OnAvail)' = Len(OnAvail) + 1
        /\ \A c : InSeq(OnAvail, c)' <=> InSeq(OnAvail, c) \/ c = d
    BY <1>1, AppendOf
  <1>3. \A c : InSeq(OnUsed, c)' <=> InSeq(OnUsed, c)
    BY DEF InSeq
  <1>4. InboundApart'
    BY <1>1, <1>2, <1>3 DEF InboundApart, Injective
  <1>5. InboundSomewhere'
    BY <1>1, <1>2, <1>3 DEF InboundSomewhere
  <1>6. InboundCounted'
    <2>1. Cardinality(hostFree') = Cardinality(hostFree) - 1
      BY FreeCounted, FS_RemoveElement
    <2>2. InHand' = InHand /\ Len(OnUsed)' = Len(OnUsed)
      BY DEF InHand
    <2> QED BY <1>2, <2>1, <2>2, InboundRoom DEF InboundCounted
  <1> QED BY <1>4, <1>5, <1>6

\* The host's flag and its mailbox are apart from the rings.
LEMMA HostFlagKeeps ==
  ASSUME VirtQueueTypeOK,
         UNCHANGED <<availVars, usedVars, hostVars, noNotify, lastAvail, content, kicks>>,
         noInterrupt' \in BOOLEAN, hostKicks' \in 0..FifoSize
  PROVE  /\ OnAvail' = OnAvail /\ OnUsed' = OnUsed
         /\ UNCHANGED <<usedIdx, usedRing, hostFree, content>>
         /\ VirtQueueTypeOK'
  BY DEF VirtQueueTypeOK, OnAvail, OnUsed, availVars, usedVars, hostVars

-----------------------------------------------------------------------------
(* Arrivals: the steps.                                                    *)

\* At first the host has all descriptors.
LEMMA AInvInit == ArrivalsInit => AInv
  <1> SUFFICES ASSUME ArrivalsInit PROVE AInv
    OBVIOUS
  <1>1. VirtQueueInit(0) /\ swi = "idle" /\ swiToken = NULL
    BY DEF ArrivalsInit
  <1>2. VirtQueueTypeOK
    <2>1. {availIdx, lastAvail, usedIdx, lastUsed} \subseteq Indices /\ hostFree \subseteq Descs
      BY <1>1, NumAssumption, IdxAssumption DEF VirtQueueInit, Indices, Descs
    <2>2. availRing \in [Descs -> Descs] /\ usedRing \in [Descs -> Descs]
      BY <1>1, NumAssumption DEF VirtQueueInit, Descs
    <2>3. content \in [Descs -> Messages \cup {NULL}]
      BY <1>1 DEF VirtQueueInit
    <2>4. kicks \in 0..FifoSize /\ hostKicks \in 0..FifoSize
      BY <1>1, FifoAssumption DEF VirtQueueInit
    <2>5. {noNotify, noInterrupt, owesKick} \subseteq BOOLEAN
      BY <1>1 DEF VirtQueueInit
    <2> QED BY <2>1, <2>2, <2>3, <2>4, <2>5 DEF VirtQueueTypeOK
  <1>3. Len(OnAvail) = 0 /\ Len(OnUsed) = 0
    <2>1. Distance(0, 0) = 0
      BY DistanceCases, NumAssumption, IdxAssumption DEF Indices
    <2> QED BY <1>1, <2>1 DEF VirtQueueInit, OnAvail, OnUsed
  <1>4. ArrivalsTypeOK
    BY <1>2 DEF ArrivalsInit, ArrivalsTypeOK
  <1>5. hostFree = Descs
    BY <1>1 DEF VirtQueueInit, Descs
  <1>6. InboundApart /\ InboundSomewhere
    BY <1>1, <1>3, <1>5, DescsAssumption DEF InboundApart, InboundSomewhere, InSeq, Injective
  <1>7. InboundCounted
    <2>1. Cardinality(hostFree) = Num
      BY <1>5, FS_Interval, NumAssumption DEF Descs
    <2> QED BY <1>1, <1>3, <2>1, NumAssumption DEF InboundCounted, InHand
  <1>8. SwiOK /\ MessagesWait
    BY <1>1, <1>3 DEF SwiOK, MessagesWait
  <1> QED BY <1>4, <1>6, <1>7, <1>8 DEF AInv, InboundPlaced

\* What the steps that move no descriptor and write no ring have in common.
Quiet ==
  /\ OnAvail' = OnAvail /\ OnUsed' = OnUsed
  /\ UNCHANGED <<usedIdx, usedRing, hostFree, content, swiToken>>
  /\ ArrivalsTypeOK'
  /\ swi' \in {"deliver", "add", "bump"} <=> swi \in {"deliver", "add", "bump"}
  /\ swi' \in {"deliver", "bump"} => swi' = swi

\* They keep the invariant.
LEMMA QuietKeeps ==
  ASSUME AInv, Quiet
  PROVE  AInv'
  <1>1. InboundPlaced'
    BY InboundKept DEF AInv, Quiet
  <1>2. SwiOK'
    BY DEF AInv, Quiet, SwiOK
  <1>3. MessagesWait'
    BY DEF AInv, Quiet, MessagesWait
  <1> QED BY <1>1, <1>2, <1>3 DEF AInv, Quiet

\* These steps are such.
LEMMA QuietArrivals ==
  ASSUME AInv,
         \/ SwiRun \/ SwiDeliver \/ SwiNothing \/ SwiNotify \/ SwiKick \/ SwiPost \/ RecvPost
         \/ HostSent \/ HostMute \/ HostWait \/ HostLook \/ HostInterrupt
         \/ UNCHANGED arrivalsVars
  PROVE  Quiet
  <1> USE DEF swiVars
  <1>1. VirtQueueTypeOK /\ ArrivalsTypeOK
    BY DEF AInv, ArrivalsTypeOK
  <1>2. ASSUME SwiDeliver PROVE delivered' \in Messages \cup {NULL}
    BY <1>2 DEF SwiDeliver, AInv, MessagesWait
  <1>3. ASSUME \/ SwiRun \/ SwiDeliver \/ SwiNothing \/ SwiNotify \/ SwiKick \/ SwiPost \/ RecvPost
               \/ HostSent \/ HostLook \/ UNCHANGED arrivalsVars
        PROVE  Quiet
    <2>1. EnableNotify \/ Kick \/ TakeKick \/ HostNotify \/ UNCHANGED vringVars
      BY <1>3 DEF SwiRun, SwiDeliver, SwiNothing, SwiNotify, SwiKick, SwiPost, RecvPost,
         HostSent, HostLook, arrivalsVars
    <2>2. /\ OnAvail' = OnAvail /\ OnUsed' = OnUsed
          /\ UNCHANGED <<usedIdx, usedRing, hostFree, content>>
          /\ VirtQueueTypeOK'
      BY <1>1, <2>1, RingsKept
    <2>3. /\ swiToken' = swiToken
          /\ swi' \in {"deliver", "add", "bump"} <=> swi \in {"deliver", "add", "bump"}
          /\ swi' \in {"deliver", "bump"} => swi' = swi
          /\ swi' \in {"idle", "compare", "deliver", "add", "bump", "notify", "kick"}
      BY <1>1, <1>3 DEF ArrivalsTypeOK, SwiRun, SwiDeliver, SwiNothing, SwiNotify, SwiKick, SwiPost,
         RecvPost, HostSent, HostLook, arrivalsVars
    <2>4. /\ {posted', usedBufAdded'} \subseteq BOOLEAN
          /\ host' \in {"running", "looking", "asleep"}
      BY <1>1, <1>3 DEF ArrivalsTypeOK, SwiRun, SwiDeliver, SwiNothing, SwiNotify, SwiKick, SwiPost,
         RecvPost, HostSent, HostLook, arrivalsVars
    <2>5. delivered' \in Messages \cup {NULL}
      BY <1>1, <1>2, <1>3 DEF ArrivalsTypeOK, SwiRun, SwiNothing, SwiNotify, SwiKick, SwiPost,
         RecvPost, HostSent, HostLook, arrivalsVars
    <2> QED BY <1>1, <2>2, <2>3, <2>4, <2>5 DEF Quiet, ArrivalsTypeOK
  <1>4. ASSUME HostMute \/ HostWait \/ HostInterrupt PROVE Quiet
    <2>1. /\ UNCHANGED <<availVars, usedVars, hostVars, noNotify, lastAvail, content, kicks, swiVars>>
          /\ host' \in {"running", "looking", "asleep"}
      BY <1>1, <1>4 DEF ArrivalsTypeOK, HostMute, HostWait, HostInterrupt, flagVars
    <2>2. noInterrupt' \in BOOLEAN /\ hostKicks' \in 0..FifoSize
      <3>1. hostKicks \in 0..FifoSize /\ noInterrupt \in BOOLEAN
        BY <1>1 DEF VirtQueueTypeOK
      <3>2. CASE HostMute \/ HostWait
        BY <3>1, <3>2 DEF HostMute, HostWait
      <3>3. CASE HostInterrupt
        BY <3>1, <3>3, FifoAssumption DEF HostInterrupt, flagVars
      <3> QED BY <1>4, <3>2, <3>3
    <2>3. /\ OnAvail' = OnAvail /\ OnUsed' = OnUsed
          /\ UNCHANGED <<usedIdx, usedRing, hostFree, content>>
          /\ VirtQueueTypeOK'
      BY <1>1, <2>1, <2>2, HostFlagKeeps
    <2> QED BY <1>1, <2>1, <2>3 DEF Quiet, ArrivalsTypeOK
  <1> QED BY <1>3, <1>4

\* The Swi takes a descriptor off the avail ring.
LEMMA SwiTokenStep ==
  ASSUME AInv, SwiToken
  PROVE  AInv'
  <1> USE DEF AInv
  <1>1. swi = "compare" /\ swiToken = NULL /\ VirtQueueTypeOK /\ InboundPlaced
    BY DEF SwiToken, SwiOK, ArrivalsTypeOK
  <1>2. /\ OnAvail # <<>> /\ NextAvail = Head(OnAvail)
        /\ OnAvail' = Tail(OnAvail) /\ OnUsed' = OnUsed
        /\ VirtQueueTypeOK' /\ hostFree' = hostFree /\ content' = content
    BY <1>1, GetAvailBufTakes DEF SwiToken, GetAvailBuf, hostVars
  <1>3. /\ swiToken' = Head(OnAvail) /\ swi' = "deliver"
        /\ UNCHANGED <<posted, usedBufAdded, delivered, host>>
    BY <1>2 DEF SwiToken
  <1>4. InboundPlaced'
    BY <1>1, <1>2, <1>3, InboundByToken
  <1>5. PICK q \in Seq(Descs) : q = OnAvail
    BY <1>1, Rings
  <1>6. /\ Head(q) \in Descs /\ Len(q) > 0 /\ Head(q) = q[1] /\ Len(Tail(q)) = Len(q) - 1
        /\ \A i \in 1..Len(Tail(q)) : Tail(q)[i] = q[i + 1] /\ i + 1 \in 1..Len(q)
    BY <1>2, <1>5
  <1>7. ArrivalsTypeOK'
    BY <1>2, <1>3, <1>5, <1>6 DEF ArrivalsTypeOK
  <1>8. SwiOK'
    BY <1>3, <1>5, <1>6, DescsAssumption DEF SwiOK
  <1>9. MessagesWait'
    <2>1. \A i \in 1..Len(q) : content[q[i]] \in Messages
      BY <1>5 DEF MessagesWait
    <2>2. content[Head(q)] \in Messages /\ \A i \in 1..Len(Tail(q)) : content[Tail(q)[i]] \in Messages
      BY <1>6, <2>1
    <2> QED BY <1>2, <1>3, <1>5, <2>2 DEF MessagesWait
  <1> QED BY <1>4, <1>7, <1>8, <1>9

\* The Swi writes its descriptor on the used ring, not to be seen yet.
LEMMA SwiAddStep ==
  ASSUME AInv, SwiAdd
  PROVE  AInv'
  <1> USE DEF AInv
  <1>1. swi = "add" /\ swiToken \in Descs /\ Len(OnUsed) < Num /\ VirtQueueTypeOK
    BY InboundRoom DEF SwiAdd, SwiOK, ArrivalsTypeOK, InboundPlaced
  <1>2. /\ OnAvail' = OnAvail /\ OnUsed' = OnUsed
        /\ usedIdx' = usedIdx /\ usedRing'[Slot(usedIdx)] = swiToken
        /\ VirtQueueTypeOK' /\ hostFree' = hostFree /\ content' = content
    BY <1>1, WriteUsedKeeps DEF SwiAdd, WriteUsed, hostVars
  <1>3. /\ swiToken' = swiToken /\ swi' = "bump"
        /\ UNCHANGED <<posted, usedBufAdded, delivered, host>>
    BY DEF SwiAdd
  <1>4. InboundPlaced'
    BY <1>2, <1>3, InboundKept
  <1>5. ArrivalsTypeOK'
    BY <1>2, <1>3 DEF ArrivalsTypeOK
  <1>6. SwiOK'
    BY <1>1, <1>2, <1>3 DEF SwiOK
  <1>7. MessagesWait'
    BY <1>2, <1>3 DEF MessagesWait
  <1> QED BY <1>4, <1>5, <1>6, <1>7

\* It moves the index, and the descriptor goes from its hand to the ring.
LEMMA SwiBumpStep ==
  ASSUME AInv, SwiBump
  PROVE  AInv'
  <1> USE DEF AInv
  <1>1. PICK d \in Descs :
          /\ d = swiToken /\ d = usedRing[Slot(usedIdx)] /\ swi = "bump"
          /\ Len(OnUsed) < Num /\ VirtQueueTypeOK
    BY InboundRoom DEF SwiBump, SwiOK, ArrivalsTypeOK, InboundPlaced
  <1>2. /\ OnUsed' = Append(OnUsed, d) /\ OnAvail' = OnAvail
        /\ VirtQueueTypeOK' /\ hostFree' = hostFree /\ content' = content
    BY <1>1, BumpUsedAdds DEF SwiBump, BumpUsed, hostVars
  <1>3. /\ swiToken' = NULL /\ swi' = "compare" /\ usedBufAdded' = TRUE
        /\ UNCHANGED <<posted, delivered, host>>
    BY DEF SwiBump
  <1>4. InboundPlaced'
    BY <1>1, <1>2, <1>3, InboundByBump
  <1>5. ArrivalsTypeOK'
    BY <1>2, <1>3 DEF ArrivalsTypeOK
  <1>6. SwiOK'
    BY <1>3 DEF SwiOK
  <1>7. MessagesWait'
    BY <1>2, <1>3 DEF MessagesWait
  <1> QED BY <1>4, <1>5, <1>6, <1>7

\* The host sends a message: it writes a free buffer and makes it available.
LEMMA HostSendStep ==
  ASSUME AInv, NEW m \in Messages, HostSend(m)
  PROVE  AInv'
  <1> USE DEF AInv
  <1>1. PICK d \in Descs : HostAdd(d, m)
    BY DEF HostSend
  <1>2. d \in hostFree /\ VirtQueueTypeOK /\ InboundPlaced /\ Len(OnAvail) < Num
    <2>1. d \in hostFree /\ VirtQueueTypeOK /\ InboundPlaced /\ InboundCounted
      BY <1>1 DEF HostAdd, ArrivalsTypeOK, InboundPlaced
    <2>2. InHand + Len(OnAvail) < Num /\ InHand \in Nat /\ Len(OnAvail) \in Nat
      BY <2>1, InboundRoom
    <2> QED BY <2>1, <2>2, NumAssumption
  <1>3. OnAvail' = Append(OnAvail, d) /\ OnUsed' = OnUsed /\ VirtQueueTypeOK'
    BY <1>1, <1>2, HostAddAdds
  <1>4. /\ UNCHANGED <<usedVars, swiVars, host>> /\ hostFree' = hostFree \ {d}
        /\ content' = [content EXCEPT ![d] = m] /\ content \in [Descs -> Messages \cup {NULL}]
    BY <1>1, <1>2 DEF HostSend, HostAdd, VirtQueueTypeOK
  <1>5. InboundPlaced'
    BY <1>2, <1>3, <1>4, InboundByAdd DEF swiVars
  <1>6. ArrivalsTypeOK'
    BY <1>3, <1>4 DEF ArrivalsTypeOK, swiVars
  <1>7. SwiOK'
    BY <1>4 DEF SwiOK, swiVars, usedVars
  <1>8. MessagesWait'
    <2>1. PICK q \in Seq(Descs) : q = OnAvail
      BY <1>2, Rings
    <2>2. \A i \in 1..Len(Append(q, d)) :
            \/ i \in 1..Len(q) /\ Append(q, d)[i] = q[i] /\ q[i] \in Descs
            \/ Append(q, d)[i] = d
      OBVIOUS
    <2>3. \A i \in 1..Len(q) : content[q[i]] \in Messages
      BY <2>1 DEF MessagesWait
    <2>4. \A c \in Descs : content[c] \in Messages => content'[c] \in Messages
      BY <1>4
    <2>5. content'[d] \in Messages
      BY <1>4
    <2>6. \A i \in 1..Len(Append(q, d)) : content'[Append(q, d)[i]] \in Messages
      BY <2>2, <2>3, <2>4, <2>5
    <2>7. swi = "deliver" => swiToken \in Descs /\ content[swiToken] \in Messages
      BY DEF MessagesWait, SwiOK, ArrivalsTypeOK
    <2> QED BY <1>3, <1>4, <2>1, <2>4, <2>6, <2>7 DEF MessagesWait, swiVars
  <1> QED BY <1>5, <1>6, <1>7, <1>8

\* The host takes a buffer back.
LEMMA HostReclaimStep ==
  ASSUME AInv, HostReclaim
  PROVE  AInv'
  <1> USE DEF AInv
  <1>1. VirtQueueTypeOK /\ InboundPlaced
    BY DEF ArrivalsTypeOK
  <1>2. /\ OnUsed # <<>> /\ OnUsed' = Tail(OnUsed) /\ OnAvail' = OnAvail
        /\ hostFree' = hostFree \cup {Head(OnUsed)} /\ content' = content /\ VirtQueueTypeOK'
    BY <1>1, HostCollectTakes DEF HostReclaim
  <1>3. UNCHANGED <<usedVars, swiVars, host>>
    BY DEF HostReclaim, HostCollect
  <1>4. InboundPlaced'
    BY <1>1, <1>2, <1>3, InboundByCollect DEF swiVars
  <1>5. ArrivalsTypeOK'
    BY <1>2, <1>3 DEF ArrivalsTypeOK, swiVars
  <1>6. SwiOK' /\ MessagesWait'
    BY <1>2, <1>3 DEF SwiOK, MessagesWait, swiVars, usedVars
  <1> QED BY <1>4, <1>5, <1>6

\* Every step keeps the invariant.
LEMMA AInvStep == AInv /\ [ArrivalsNext]_arrivalsVars => AInv'
  <1> SUFFICES ASSUME AInv, [ArrivalsNext]_arrivalsVars PROVE AInv'
    OBVIOUS
  <1>1. Quiet => AInv'
    BY QuietKeeps
  <1> QED
    BY <1>1, QuietArrivals, SwiTokenStep, SwiAddStep, SwiBumpStep, HostSendStep, HostReclaimStep
    DEF ArrivalsNext, SwiStep

\* At any moment indices, rings, flags, mailboxes and the Swi are as VirtQueue.c and
\* MessageQCopy_swiFxn leave them, for indices of any width.
THEOREM ArrivalsTypeCorrect == ArrivalsSpec => []ArrivalsTypeOK
  <1>1. AInv => ArrivalsTypeOK
    BY DEF AInv
  <1> QED BY AInvInit, AInvStep, <1>1, PTL DEF ArrivalsSpec

\* Every descriptor is in one place, through all wraps of the indices: no buffer that
\* comes from the host is delivered twice, given back twice or leaked.
THEOREM ArrivalsOwned == ArrivalsSpec => []ArrivalsOwnedOnce
  <1>1. ASSUME AInv PROVE ArrivalsOwnedOnce
    <2> USE <1>1 DEF AInv, InboundPlaced
    <2>1. VirtQueueTypeOK /\ swiToken \in Descs \cup {NULL}
      BY DEF ArrivalsTypeOK
    <2>2. /\ Len(OnRings) = Len(OnAvail) + Len(OnUsed)
          /\ {OnRings[i] : i \in DOMAIN OnRings} = {d \in Descs : InSeq(OnAvail, d) \/ InSeq(OnUsed, d)}
      BY <2>1, RingsTogether
    <2>3. Cardinality({swiToken} \ {NULL}) = InHand
      <3>1. CASE swiToken = NULL
        <4>1. {swiToken} \ {NULL} = {}
          BY <3>1
        <4> QED BY <3>1, <4>1, FS_EmptySet DEF InHand
      <3>2. CASE swiToken # NULL
        <4>1. {swiToken} \ {NULL} = {swiToken}
          BY <3>2
        <4> QED BY <3>2, <4>1, FS_Singleton DEF InHand
      <3> QED BY <3>1, <3>2
    <2>4. Cardinality(hostFree) + Cardinality({swiToken} \ {NULL}) + Len(OnRings) = Num
      BY <2>1, <2>2, <2>3, InboundRoom, NumAssumption DEF InboundCounted
    <2>5. hostFree \cup ({swiToken} \ {NULL}) \cup {OnRings[i] : i \in DOMAIN OnRings} = Descs
      BY <2>1, <2>2, DescsAssumption DEF InboundSomewhere, VirtQueueTypeOK
    <2> QED BY <2>4, <2>5 DEF ArrivalsOwnedOnce
  <1> QED BY AInvInit, AInvStep, <1>1, PTL DEF ArrivalsSpec

-----------------------------------------------------------------------------
(* Arrivals: the abstract channel.                                         *)

InChan == [i \in DOMAIN Undelivered |-> content[Undelivered[i]]]

\* What the Swi has and what waits for it.
LEMMA UndeliveredIs ==
  ASSUME NEW t \in Descs, NEW q \in Seq(Descs)
  PROVE  /\ <<>> \o q = q
         /\ <<t>> \o q \in Seq(Descs) /\ <<t>> \o q # <<>> /\ Len(<<t>> \o q) = Len(q) + 1
         /\ Head(<<t>> \o q) = t /\ Tail(<<t>> \o q) = q
         /\ \A d \in Descs : <<t>> \o Append(q, d) = Append(<<t>> \o q, d)
         /\ q # <<>> => <<Head(q)>> \o Tail(q) = q
  <1>1. <<>> \o q = q
    OBVIOUS
  <1>2. /\ <<t>> \o q \in Seq(Descs) /\ <<t>> \o q # <<>> /\ Len(<<t>> \o q) = Len(q) + 1
        /\ Len(q) \in Nat /\ (<<t>> \o q)[1] = t
        /\ \A i \in 1..Len(q) : (<<t>> \o q)[i + 1] = q[i]
    OBVIOUS
  <1>3. PICK r \in Seq(Descs) : r = <<t>> \o q
    BY <1>2
  <1>4. Head(r) = t
    BY <1>2, <1>3
  <1>5. Tail(r) = q
    <2>1. Tail(r) \in Seq(Descs) /\ Len(Tail(r)) = Len(q) /\ \A i \in 1..Len(q) : Tail(r)[i] = r[i + 1]
      BY <1>2, <1>3
    <2>2. \A i \in 1..Len(q) : Tail(r)[i] = q[i]
      BY <1>2, <1>3, <2>1
    <2> QED BY <2>1, <2>2, SeqEqual
  <1>6. ASSUME NEW d \in Descs PROVE <<t>> \o Append(q, d) = Append(<<t>> \o q, d)
    OBVIOUS
  <1>7. ASSUME q # <<>> PROVE <<Head(q)>> \o Tail(q) = q
    BY <1>7
  <1> QED BY <1>1, <1>2, <1>3, <1>4, <1>5, <1>6, <1>7

\* What is in the channel is a sequence of messages, in buffers the host does not write.
LEMMA InChanOK ==
  ASSUME AInv
  PROVE  /\ Undelivered \in Seq(Descs)
         /\ swi = "deliver" =>
              /\ swiToken \in Descs /\ Undelivered # <<>> /\ Len(Undelivered) = 1 + Len(OnAvail)
              /\ Head(Undelivered) = swiToken /\ Tail(Undelivered) = OnAvail
         /\ swi # "deliver" => Undelivered = OnAvail
         /\ InChan \in Seq(Messages) /\ Len(InChan) = Len(Undelivered)
         /\ \A i \in 1..Len(Undelivered) :
              InChan[i] = content[Undelivered[i]] /\ Undelivered[i] \notin hostFree
  <1> USE DEF AInv, InboundPlaced
  <1>1. PICK q \in Seq(Descs) : q = OnAvail
    BY Rings DEF ArrivalsTypeOK
  <1>2. /\ \A i \in 1..Len(q) : content[q[i]] \in Messages /\ q[i] \notin hostFree /\ q[i] \in Descs
        /\ Len(q) \in Nat
    <2>1. \A i \in 1..Len(q) : q[i] \in Descs /\ InSeq(q, q[i])
      BY DEF InSeq
    <2>2. \A i \in 1..Len(q) : q[i] \notin hostFree
      BY <1>1, <2>1 DEF InboundApart
    <2> QED BY <1>1, <2>1, <2>2 DEF MessagesWait
  <1>3. CASE swi = "deliver"
    <2>1. PICK t \in Descs : t = swiToken /\ content[t] \in Messages /\ t \notin hostFree
      BY <1>3 DEF SwiOK, ArrivalsTypeOK, MessagesWait, InboundApart
    <2>6. Undelivered = <<t>> \o q
      BY <1>1, <1>3, <2>1 DEF Undelivered
    <2>2. PICK u \in Seq(Descs) :
            /\ u = Undelivered /\ u # <<>> /\ Len(u) = Len(q) + 1
            /\ Head(u) = t /\ Tail(u) = q
      BY <2>6, UndeliveredIs
    <2>3. \A i \in 1..Len(u) : u[i] = t \/ \E j \in 1..Len(q) : u[i] = q[j]
      <3> TAKE i \in 1..Len(u)
      <3>1. CASE i = 1
        BY <2>2, <3>1
      <3>2. CASE i # 1
        <4>1. i - 1 \in 1..Len(q) /\ Tail(u)[i - 1] = u[i]
          BY <1>2, <2>2, <3>2
        <4> QED BY <2>2, <4>1
      <3> QED BY <3>1, <3>2
    <2>4. \A i \in 1..Len(u) : content[u[i]] \in Messages /\ u[i] \notin hostFree
      BY <1>2, <2>1, <2>3
    <2>5. InChan = [i \in 1..Len(u) |-> content[u[i]]] /\ Len(u) \in Nat
      BY <2>2 DEF InChan
    <2> HIDE DEF AInv
    <2> QED BY <1>1, <1>2, <1>3, <2>1, <2>2, <2>4, <2>5
  <1>4. CASE swi # "deliver"
    <2>1. Undelivered = q
      BY <1>1, <1>4, UndeliveredIs DEF Undelivered
    <2>2. InChan = [i \in 1..Len(q) |-> content[q[i]]] /\ Len(q) \in Nat
      BY <2>1 DEF InChan
    <2> HIDE DEF AInv
    <2> QED BY <1>1, <1>2, <1>4, <2>1, <2>2
  <1> QED BY <1>3, <1>4

InChanIsSeq ==
  /\ InChan \in Seq(Messages) /\ Len(InChan) = Len(Undelivered)
  /\ \A i \in 1..Len(Undelivered) : InChan[i] = content[Undelivered[i]]

\* The same in a form that holds in the next state as well.
LEMMA InChanSeq == AInv => InChanIsSeq
  BY InChanOK DEF InChanIsSeq

\* HostSend puts its message in the channel, which is not full.
LEMMA SendPuts ==
  ASSUME AInv, AInv', NEW m \in Messages, HostSend(m)
  PROVE  Len(InChan) < Num /\ InChan' = Append(InChan, m) /\ delivered' = delivered
  <1>1. PICK d \in Descs : HostAdd(d, m)
    BY DEF HostSend
  <1>2. /\ d \in hostFree /\ VirtQueueTypeOK /\ InboundCounted
        /\ InHand + Len(OnAvail) < Num /\ InHand \in Nat /\ Len(OnAvail) \in Nat
    BY <1>1, InboundRoom DEF AInv, ArrivalsTypeOK, InboundPlaced, HostAdd
  <1>3. /\ OnAvail' = Append(OnAvail, d) /\ content' = [content EXCEPT ![d] = m]
        /\ content \in [Descs -> Messages \cup {NULL}] /\ OnAvail \in Seq(Descs)
        /\ swi' = swi /\ swiToken' = swiToken /\ delivered' = delivered
    <2>1. Len(OnAvail) < Num
      BY <1>2, NumAssumption
    <2>2. OnAvail' = Append(OnAvail, d)
      BY <1>1, <1>2, <2>1, HostAddAdds
    <2> QED BY <1>1, <1>2, <2>2, Rings DEF HostSend, HostAdd, swiVars, VirtQueueTypeOK
  <1>4. PICK u \in Seq(Descs) : u = Undelivered
    BY InChanOK
  <1>5. Undelivered' = Append(u, d)
    <2>1. CASE swi = "deliver"
      <3>1. swiToken \in Descs
        BY <2>1, InChanOK
      <3>2. PICK t \in Descs, q \in Seq(Descs) : t = swiToken /\ q = OnAvail
        BY <1>3, <3>1
      <3>3. <<t>> \o Append(q, d) = Append(<<t>> \o q, d)
        BY UndeliveredIs
      <3> QED BY <1>3, <1>4, <2>1, <3>2, <3>3 DEF Undelivered
    <2>2. CASE swi # "deliver"
      <3>1. Undelivered' = OnAvail' /\ Undelivered = OnAvail
        <4>1. (swi # "deliver" => Undelivered = OnAvail)'
          BY InChanOK, PTL
        <4> QED BY <1>3, <2>2, <4>1, InChanOK
      <3> QED BY <1>3, <1>4, <3>1
    <2> QED BY <2>1, <2>2
  <1>6. Len(InChan) = Len(u) /\ Len(u) \in Nat /\ Len(u) < Num
    <2>1. swi = "deliver" => InHand = 1
      BY DEF AInv, SwiOK, InHand
    <2> QED BY <1>2, <1>4, <2>1, InChanOK, NumAssumption
  <1>7. /\ InChan \in Seq(Messages) /\ InChan' \in Seq(Messages)
        /\ Len(InChan') = Len(u) + 1
        /\ \A i \in 1..Len(u) : InChan[i] = content[u[i]] /\ u[i] # d /\ u[i] \in Descs
        /\ \A i \in 1..(Len(u) + 1) : InChan'[i] = content'[Append(u, d)[i]]
    <2>1. /\ InChan' \in Seq(Messages) /\ Len(InChan') = Len(Undelivered')
          /\ \A i \in 1..Len(Undelivered') : InChan'[i] = content'[Undelivered'[i]]
      <3>1. InChanIsSeq'
        BY InChanSeq, PTL
      <3> QED BY <3>1 DEF InChanIsSeq
    <2>2. Len(Append(u, d)) = Len(u) + 1
      OBVIOUS
    <2>3. /\ InChan \in Seq(Messages)
          /\ \A i \in 1..Len(u) : InChan[i] = content[u[i]] /\ u[i] # d /\ u[i] \in Descs
      BY <1>2, <1>4, InChanOK
    <2> QED BY <1>5, <2>1, <2>2, <2>3
  <1>8. ASSUME NEW i \in 1..(Len(u) + 1) PROVE InChan'[i] = Append(InChan, m)[i]
    <2>1. CASE i <= Len(u)
      <3>1. Append(u, d)[i] = u[i] /\ Append(InChan, m)[i] = InChan[i] /\ i \in 1..Len(u)
        BY <1>6, <1>7, <2>1
      <3> QED BY <1>3, <1>7, <3>1
    <2>2. CASE i = Len(u) + 1
      <3>1. Append(u, d)[i] = d /\ Append(InChan, m)[i] = m
        BY <1>6, <1>7, <2>2
      <3> QED BY <1>3, <1>7, <3>1
    <2> QED BY <1>6, <2>1, <2>2
  <1>9. Append(InChan, m) \in Seq(Messages) /\ Len(Append(InChan, m)) = Len(u) + 1
    BY <1>6, <1>7
  <1>10. InChan' = Append(InChan, m)
    BY <1>7, <1>8, <1>9, SeqEqual
  <1> QED BY <1>3, <1>6, <1>10

\* SwiDeliver gets the first message of the channel.
LEMMA DeliverGets ==
  ASSUME AInv, AInv', SwiDeliver
  PROVE  InChan # <<>> /\ InChan' = Tail(InChan) /\ delivered' = Head(InChan)
  <1>1. /\ swi = "deliver" /\ swi' = "add" /\ delivered' = content[swiToken]
        /\ UNCHANGED vringVars
    BY DEF SwiDeliver
  <1>2. OnAvail' = OnAvail /\ content' = content
    BY <1>1, RingsKept DEF AInv, ArrivalsTypeOK
  <1>3. PICK u \in Seq(Descs) :
          u = Undelivered /\ u # <<>> /\ Head(u) = swiToken /\ Tail(u) = OnAvail
    BY <1>1, InChanOK
  <1>4. Undelivered' = Tail(u)
    <2>1. (swi # "deliver" => Undelivered = OnAvail)'
      BY InChanOK, PTL
    <2> QED BY <1>1, <1>2, <1>3, <2>1
  <1>5. /\ Len(u) \in Nat /\ Len(u) > 0 /\ u[1] = Head(u) /\ Len(Tail(u)) = Len(u) - 1
        /\ \A i \in 1..(Len(u) - 1) : Tail(u)[i] = u[i + 1]
    BY <1>3
  <1>6. /\ InChan \in Seq(Messages) /\ Len(InChan) = Len(u)
        /\ \A i \in 1..Len(u) : InChan[i] = content[u[i]]
    BY <1>3, InChanOK
  <1>7. /\ InChan' \in Seq(Messages) /\ Len(InChan') = Len(u) - 1
        /\ \A i \in 1..(Len(u) - 1) : InChan'[i] = content[Tail(u)[i]]
    <2>1. /\ InChan' \in Seq(Messages) /\ Len(InChan') = Len(Undelivered')
          /\ \A i \in 1..Len(Undelivered') : InChan'[i] = content'[Undelivered'[i]]
      <3>1. InChanIsSeq'
        BY InChanSeq, PTL
      <3> QED BY <3>1 DEF InChanIsSeq
    <2> QED BY <1>2, <1>4, <1>5, <2>1
  <1>8. /\ InChan # <<>> /\ Head(InChan) = InChan[1]
        /\ Tail(InChan) \in Seq(Messages) /\ Len(Tail(InChan)) = Len(u) - 1
        /\ \A i \in 1..(Len(u) - 1) : Tail(InChan)[i] = InChan[i + 1]
    BY <1>5, <1>6
  <1>9. \A i \in 1..(Len(u) - 1) : InChan'[i] = Tail(InChan)[i]
    BY <1>5, <1>6, <1>7, <1>8
  <1>10. InChan' = Tail(InChan)
    BY <1>7, <1>8, <1>9, SeqEqual
  <1> QED BY <1>1, <1>3, <1>5, <1>6, <1>8, <1>10

\* No other step changes what is in the channel.
LEMMA InChanKept ==
  ASSUME AInv, AInv', [ArrivalsNext]_arrivalsVars
  PROVE  \/ \E m \in Messages : HostSend(m)
         \/ SwiDeliver
         \/ UNCHANGED <<InChan, delivered>>
  <1>1. VirtQueueTypeOK
    BY DEF AInv, ArrivalsTypeOK
  <1>2. ASSUME Undelivered' = Undelivered, content' = content PROVE InChan' = InChan
    BY <1>2 DEF InChan
  <1>3. ASSUME OnAvail' = OnAvail, content' = content, swiToken' = swiToken \/ swi # "deliver",
               swi' = "deliver" <=> swi = "deliver"
        PROVE  InChan' = InChan
    BY <1>2, <1>3 DEF Undelivered
  <1>4. ASSUME SwiToken PROVE UNCHANGED <<InChan, delivered>>
    <2>1. /\ OnAvail # <<>> /\ OnAvail' = Tail(OnAvail) /\ content' = content
          /\ swiToken' = Head(OnAvail) /\ swi = "compare" /\ swi' = "deliver" /\ delivered' = delivered
      BY <1>1, <1>4, GetAvailBufTakes DEF SwiToken, GetAvailBuf
    <2>2. PICK q \in Seq(Descs) : q = OnAvail
      BY <1>1, Rings
    <2>3. Undelivered = q
      BY <2>1, <2>2, InChanOK
    <2>4. Undelivered' = <<Head(q)>> \o Tail(q)
      BY <2>1, <2>2 DEF Undelivered
    <2>5. Head(q) \in Descs /\ <<Head(q)>> \o Tail(q) = q
      BY <2>1, <2>2, UndeliveredIs
    <2> QED BY <1>2, <2>1, <2>3, <2>4, <2>5
  <1>5. ASSUME SwiAdd PROVE UNCHANGED <<InChan, delivered>>
    <2>1. swi = "add" /\ swi' = "bump" /\ swiToken' = swiToken /\ delivered' = delivered
      BY <1>5 DEF SwiAdd
    <2>2. OnAvail' = OnAvail /\ content' = content
      BY <1>5 DEF SwiAdd, WriteUsed, OnAvail, availVars
    <2> QED BY <1>3, <2>1, <2>2
  <1>6. ASSUME SwiBump PROVE UNCHANGED <<InChan, delivered>>
    <2>1. swi = "bump" /\ swi' = "compare" /\ delivered' = delivered
      BY <1>6 DEF SwiBump
    <2>2. OnAvail' = OnAvail /\ content' = content
      BY <1>6 DEF SwiBump, BumpUsed, OnAvail, availVars
    <2> QED BY <1>3, <2>1, <2>2
  <1>7. ASSUME HostReclaim PROVE UNCHANGED <<InChan, delivered>>
    <2>1. swi' = swi /\ swiToken' = swiToken /\ delivered' = delivered
      BY <1>7 DEF HostReclaim, swiVars
    <2>2. OnAvail' = OnAvail /\ content' = content
      BY <1>7 DEF HostReclaim, HostCollect, OnAvail, availVars
    <2> QED BY <1>3, <2>1, <2>2
  <1>8. ASSUME \/ SwiRun \/ SwiNothing \/ SwiNotify \/ SwiKick \/ SwiPost \/ RecvPost
               \/ HostSent \/ HostMute \/ HostWait \/ HostLook \/ HostInterrupt
               \/ UNCHANGED arrivalsVars
        PROVE  UNCHANGED <<InChan, delivered>>
    <2>1. Quiet
      BY <1>8, QuietArrivals
    <2>2. /\ swi = "deliver" => swi' = "deliver"
          /\ delivered' = delivered
      BY <1>8 DEF SwiRun, SwiNothing, SwiNotify, SwiKick, SwiPost, RecvPost,
         HostSent, HostMute, HostWait, HostLook, HostInterrupt, arrivalsVars, swiVars
    <2> QED BY <1>3, <2>1, <2>2 DEF Quiet
  <1> HIDE DEF AInv, InChan
  <1> QED BY <1>4, <1>5, <1>6, <1>7, <1>8 DEF ArrivalsNext, SwiStep

\* The Swi delivers what the host sent, once each, unaltered and in order, and gives no
\* buffer back before its message was copied: HostSend puts a message in the abstract
\* channel, SwiDeliver gets it, and no other step shows.
THEOREM ArrivalsImplementChannel == ArrivalsSpec => ArrivalsRefineChannel
  <1>1. ArrivalsInit => Inbound!Init
    <2> SUFFICES ASSUME ArrivalsInit PROVE Inbound!Init
      OBVIOUS
    <2>1. AInv /\ VirtQueueInit(0) /\ swi = "idle" /\ delivered = NULL
      BY AInvInit DEF ArrivalsInit
    <2>2. Distance(0, 0) = 0
      BY DistanceCases, IdxAssumption, NumAssumption DEF Indices
    <2>3. Len(OnAvail) = 0
      BY <2>1, <2>2 DEF VirtQueueInit, OnAvail
    <2>4. InChan \in Seq(Messages) /\ Len(InChan) = 0
      BY <2>1, <2>3, InChanOK
    <2>5. InChan = <<>>
      BY <2>4
    <2> QED BY <2>1, <2>5 DEF Inbound!Init, InChan
  <1>2. AInv /\ AInv' /\ [ArrivalsNext]_arrivalsVars => [Inbound!Next]_<<InChan, delivered>>
    <2> HIDE DEF AInv, InChan
    <2> SUFFICES ASSUME AInv, AInv', [ArrivalsNext]_arrivalsVars
                 PROVE  [Inbound!Next]_<<InChan, delivered>>
      OBVIOUS
    <2>1. ASSUME NEW m \in Messages, HostSend(m) PROVE Inbound!Put(m)
      <3>1. Len(InChan) < Num /\ InChan' = Append(InChan, m) /\ delivered' = delivered
        BY <2>1, SendPuts
      <3> QED BY <3>1 DEF Inbound!Put, InChan
    <2>2. ASSUME SwiDeliver PROVE Inbound!Get
      <3>1. InChan # <<>> /\ InChan' = Tail(InChan) /\ delivered' = Head(InChan)
        BY <2>2, DeliverGets
      <3> QED BY <3>1 DEF Inbound!Get, InChan
    <2>3. \/ \E m \in Messages : Inbound!Put(m)
          \/ Inbound!Get
          \/ UNCHANGED <<InChan, delivered>>
      BY <2>1, <2>2, InChanKept
    <2> QED BY <2>3, Zenon DEF Inbound!Next
  <1>3. ArrivalsSpec => []AInv
    BY AInvInit, AInvStep, PTL DEF ArrivalsSpec
  <1> QED BY <1>1, <1>2, <1>3, PTL DEF ArrivalsRefineChannel, Inbound!Spec, ArrivalsSpec, InChan
===============================================================================
