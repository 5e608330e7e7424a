--------------------------- MODULE HwSpinlockProofs ---------------------------
(***************************************************************************)
(* Proofs about HwSpinlock, for any number of cores, tasks and spinlocks:  *)
(* one holder, and a word from which the host can tell what is held.       *)
(***************************************************************************)
EXTENDS HwSpinlock, FiniteSetTheorems, TLAPS

InMutex == {"try", "undo"} \cup Holding \cup Leaving
InGate == {"set", "or", "in", "free", "and", "ungate"}
Pcs == {"out", "enter", "try", "undo", "late"} \cup Holding \cup Leaving

Typed ==
  /\ baseAddr \in [Locks -> BOOLEAN]
  /\ mutex \in [Cores -> [Locks -> Tasks \cup {None}]]
  /\ state \in [Cores -> [Locks -> {"FREE", "TAKEN"}]]
  /\ sharedState \in [Cores -> SUBSET Locks]
  /\ gate \in [Cores -> Tasks \cup {None}]
  /\ mine \in [Tasks -> SUBSET Locks]
  /\ pc \in [Tasks -> Pcs]
  /\ lock \in [Tasks -> Locks \cup {None}]
  /\ pType \in [Tasks -> {"NONE", "TASK"}]
  /\ valid \in [Tasks -> BOOLEAN]
  /\ word \in [Tasks -> SUBSET Locks]
  /\ enters \in [Tasks -> 0..MaxEnters]
  /\ bare \in BOOLEAN

\* A task uses a handle that it created and has not deleted.
HandleInUse ==
  \A t \in Tasks : IF pc[t] = "out" THEN lock[t] = None ELSE lock[t] \in mine[t]

\* The count of a handle is that of its users.
HandlesCounted ==
  locks = [c \in Cores |-> [l \in Locks |-> Cardinality(Users(c, l))]]

\* The mutex of a handle is held from before the spinlock is read until after
\* it is given back.
MutexHeld ==
  \A t \in Tasks : pc[t] \in InMutex => mutex[CoreOf[t]][lock[t]] = t

\* A spinlock that has a holder reads as taken, and a task that timed out has no
\* key with which it could give back that of another.
TakenWhileHeld ==
  \A t \in Tasks :
    /\ pc[t] \in Holding => baseAddr[lock[t]]
    /\ pc[t] = "late" => ~valid[t]

\* The gate that a holder entered is still its own.
GateHeld ==
  \A t \in Tasks : pc[t] \in InGate /\ pType[t] = "TASK" => gate[CoreOf[t]] = t

\* What a task read of the word is still there when it writes it.
WordKept ==
  ~bare => \A t \in Tasks :
    /\ pc[t] \in {"or", "in", "free", "and"} => pType[t] = "TASK"
    /\ pc[t] \in {"or", "and"} => word[t] = sharedState[CoreOf[t]]

IInv ==
  /\ Typed /\ HandleInUse /\ HandlesCounted
  /\ MutexHeld /\ TakenWhileHeld /\ OneHolder
  /\ GateHeld /\ WordKept /\ BitsTell

\* Nobody is inside a call at first, and nothing is taken.
LEMMA InvInit == Init => IInv
  <1> SUFFICES ASSUME Init PROVE IInv
    OBVIOUS
  <1> USE LocksAssumption DEF Init
  <1>1. Typed
    <2>1. 0 \in 0..MaxEnters
      OBVIOUS
    <2> QED BY <2>1 DEF Typed, Pcs
  <1>2. HandleInUse
    BY DEF HandleInUse
  <1>3. HandlesCounted
    <2>1. \A c \in Cores, l \in Locks : Users(c, l) = {}
      BY DEF Users
    <2> QED BY <2>1, FS_EmptySet DEF HandlesCounted
  <1>4. MutexHeld /\ TakenWhileHeld /\ OneHolder /\ GateHeld /\ WordKept /\ BitsTell
    BY DEF MutexHeld, TakenWhileHeld, OneHolder, GateHeld, WordKept, BitsTell,
           InMutex, InGate, Holding, Leaving, Cores
  <1> QED BY <1>1, <1>2, <1>3, <1>4 DEF IInv

\* No step takes a variable out of its set, or a task off a handle of its own.
LEMMA TypedStep == IInv /\ [Next]_vars => (Typed /\ HandleInUse)'
  <1> SUFFICES ASSUME IInv, [Next]_vars PROVE (Typed /\ HandleInUse)'
    OBVIOUS
  <1> USE LocksAssumption DEF Runs, At, Goto, LeaveMutex, ReadWord, WriteWord,
          handle, call, vars, Cores, Pcs, Holding, Leaving, InMutex, InGate, Typed, HandleInUse, IInv
  <1>1. ASSUME NEW t \in Tasks, EnterMutex(t) PROVE (Typed /\ HandleInUse)'
    BY <1>1 DEF EnterMutex
  <1>2. ASSUME NEW t \in Tasks, Try(t) PROVE (Typed /\ HandleInUse)'
    BY <1>2 DEF Try
  <1>3. ASSUME NEW t \in Tasks, TryAgain(t) PROVE (Typed /\ HandleInUse)'
    BY <1>3 DEF TryAgain
  <1>4. ASSUME NEW t \in Tasks, TimesOut(t) PROVE (Typed /\ HandleInUse)'
    BY <1>4 DEF TimesOut
  <1>5. ASSUME NEW t \in Tasks, Take(t) PROVE (Typed /\ HandleInUse)'
    BY <1>5 DEF Take
  <1>6. ASSUME NEW t \in Tasks, Set(t) PROVE (Typed /\ HandleInUse)'
    <2>1. bare' \in BOOLEAN
      BY <1>6, Zenon DEF Set
    <2>2. sharedState[CoreOf[t]] \in SUBSET Locks
      OBVIOUS
    <2>3. Typed'
      BY <1>6, <2>1, <2>2 DEF Set
    <2>4. HandleInUse'
      BY <1>6 DEF Set
    <2> QED BY <2>3, <2>4
  <1>7. ASSUME NEW t \in Tasks, SetBit(t) PROVE (Typed /\ HandleInUse)'
    BY <1>7 DEF SetBit
  <1>8. ASSUME NEW t \in Tasks, LeaveNothing(t) PROVE (Typed /\ HandleInUse)'
    BY <1>8 DEF LeaveNothing
  <1>9. ASSUME NEW t \in Tasks, Leave(t) PROVE (Typed /\ HandleInUse)'
    BY <1>9 DEF Leave
  <1>10. ASSUME NEW t \in Tasks, Clear(t) PROVE (Typed /\ HandleInUse)'
    <2>1. bare' \in BOOLEAN
      BY <1>10, Zenon DEF Clear
    <2>2. sharedState[CoreOf[t]] \in SUBSET Locks
      OBVIOUS
    <2>3. Typed'
      BY <1>10, <2>1, <2>2 DEF Clear
    <2>4. HandleInUse'
      BY <1>10 DEF Clear
    <2> QED BY <2>3, <2>4
  <1>11. ASSUME NEW t \in Tasks, ClearBit(t) PROVE (Typed /\ HandleInUse)'
    BY <1>11 DEF ClearBit
  <1>12. ASSUME NEW t \in Tasks, LeaveGate(t) PROVE (Typed /\ HandleInUse)'
    BY <1>12 DEF LeaveGate
  <1>13. ASSUME NEW t \in Tasks, LeaveLast(t) PROVE (Typed /\ HandleInUse)'
    BY <1>13 DEF LeaveLast
  <1>14. ASSUME NEW t \in Tasks, NEW l \in Locks, Create(t, l) PROVE (Typed /\ HandleInUse)'
    BY <1>14 DEF Create
  <1>15. ASSUME NEW t \in Tasks, NEW l \in Locks, Delete(t, l) PROVE (Typed /\ HandleInUse)'
    BY <1>15 DEF Delete
  <1>16. ASSUME NEW t \in Tasks, NEW l \in mine[t], NEW type \in {"NONE", "TASK"}, Enter(t, l, type) PROVE (Typed /\ HandleInUse)'
    BY <1>16 DEF Enter
  <1>17. CASE UNCHANGED vars
    BY <1>17 DEF vars
  <1> HIDE DEF Typed, HandleInUse, IInv
  <1> HIDE DEF Runs, At, Goto, LeaveMutex, ReadWord, WriteWord, handle, call, vars,
          Cores, Pcs, Holding, Leaving, InMutex, InGate, Typed, HandleInUse, IInv
  <1> QED
    BY <1>1, <1>2, <1>3, <1>4, <1>5, <1>6, <1>7, <1>8, <1>9, <1>10, <1>11, <1>12, <1>13, <1>14, <1>15, <1>16, <1>17
    DEF Next, InEnter, InLeave

\* The mutex of a handle and the spinlock admit one task each.
LEMMA HolderStep == IInv /\ [Next]_vars => (MutexHeld /\ TakenWhileHeld /\ OneHolder)'
  <1> SUFFICES ASSUME IInv, [Next]_vars PROVE (MutexHeld /\ TakenWhileHeld /\ OneHolder)'
    OBVIOUS
  <1> USE LocksAssumption DEF Runs, At, Goto, LeaveMutex, ReadWord, WriteWord,
          handle, call, vars, Cores, Pcs, Holding, Leaving, InMutex, InGate, Typed, HandleInUse,
          IInv, MutexHeld, TakenWhileHeld, OneHolder
  <1>1. ASSUME NEW t \in Tasks, EnterMutex(t) PROVE (MutexHeld /\ TakenWhileHeld /\ OneHolder)'
    BY <1>1 DEF EnterMutex
  <1>2. ASSUME NEW t \in Tasks, Try(t) PROVE (MutexHeld /\ TakenWhileHeld /\ OneHolder)'
    BY <1>2 DEF Try
  <1>3. ASSUME NEW t \in Tasks, TryAgain(t) PROVE (MutexHeld /\ TakenWhileHeld /\ OneHolder)'
    BY <1>3 DEF TryAgain
  <1>4. ASSUME NEW t \in Tasks, TimesOut(t) PROVE (MutexHeld /\ TakenWhileHeld /\ OneHolder)'
    BY <1>4 DEF TimesOut
  <1>5. ASSUME NEW t \in Tasks, Take(t) PROVE (MutexHeld /\ TakenWhileHeld /\ OneHolder)'
    BY <1>5 DEF Take
  <1>6. ASSUME NEW t \in Tasks, Set(t) PROVE (MutexHeld /\ TakenWhileHeld /\ OneHolder)'
    BY <1>6 DEF Set
  <1>7. ASSUME NEW t \in Tasks, SetBit(t) PROVE (MutexHeld /\ TakenWhileHeld /\ OneHolder)'
    BY <1>7 DEF SetBit
  <1>8. ASSUME NEW t \in Tasks, LeaveNothing(t) PROVE (MutexHeld /\ TakenWhileHeld /\ OneHolder)'
    BY <1>8 DEF LeaveNothing
  <1>9. ASSUME NEW t \in Tasks, Leave(t) PROVE (MutexHeld /\ TakenWhileHeld /\ OneHolder)'
    BY <1>9 DEF Leave
  <1>10. ASSUME NEW t \in Tasks, Clear(t) PROVE (MutexHeld /\ TakenWhileHeld /\ OneHolder)'
    BY <1>10 DEF Clear
  <1>11. ASSUME NEW t \in Tasks, ClearBit(t) PROVE (MutexHeld /\ TakenWhileHeld /\ OneHolder)'
    BY <1>11 DEF ClearBit
  <1>12. ASSUME NEW t \in Tasks, LeaveGate(t) PROVE (MutexHeld /\ TakenWhileHeld /\ OneHolder)'
    BY <1>12 DEF LeaveGate
  <1>13. ASSUME NEW t \in Tasks, LeaveLast(t) PROVE (MutexHeld /\ TakenWhileHeld /\ OneHolder)'
    BY <1>13 DEF LeaveLast
  <1>14. ASSUME NEW t \in Tasks, NEW l \in Locks, Create(t, l) PROVE (MutexHeld /\ TakenWhileHeld /\ OneHolder)'
    BY <1>14 DEF Create
  <1>15. ASSUME NEW t \in Tasks, NEW l \in Locks, Delete(t, l) PROVE (MutexHeld /\ TakenWhileHeld /\ OneHolder)'
    BY <1>15 DEF Delete
  <1>16. ASSUME NEW t \in Tasks, NEW l \in mine[t], NEW type \in {"NONE", "TASK"}, Enter(t, l, type) PROVE (MutexHeld /\ TakenWhileHeld /\ OneHolder)'
    BY <1>16 DEF Enter
  <1>17. CASE UNCHANGED vars
    BY <1>17 DEF vars
  <1> HIDE DEF Runs, At, Goto, LeaveMutex, ReadWord, WriteWord, handle, call, vars,
          Cores, Pcs, Holding, Leaving, InMutex, InGate, Typed, HandleInUse, IInv, MutexHeld, TakenWhileHeld, OneHolder
  <1> QED
    BY <1>1, <1>2, <1>3, <1>4, <1>5, <1>6, <1>7, <1>8, <1>9, <1>10, <1>11, <1>12, <1>13, <1>14, <1>15, <1>16, <1>17
    DEF Next, InEnter, InLeave

\* The gate is still that of the task that entered it, and so is what it read of the word.
LEMMA GateStep == IInv /\ [Next]_vars => (GateHeld /\ WordKept)'
  <1> SUFFICES ASSUME IInv, [Next]_vars PROVE (GateHeld /\ WordKept)'
    OBVIOUS
  <1> USE LocksAssumption DEF Runs, At, Goto, LeaveMutex, ReadWord, WriteWord,
          handle, call, vars, Cores, Pcs, Holding, Leaving, InMutex, InGate, Typed, HandleInUse,
          IInv, GateHeld, WordKept, TakenWhileHeld
  <1>1. ASSUME NEW t \in Tasks, EnterMutex(t) PROVE (GateHeld /\ WordKept)'
    BY <1>1 DEF EnterMutex
  <1>2. ASSUME NEW t \in Tasks, Try(t) PROVE (GateHeld /\ WordKept)'
    BY <1>2 DEF Try
  <1>3. ASSUME NEW t \in Tasks, TryAgain(t) PROVE (GateHeld /\ WordKept)'
    BY <1>3 DEF TryAgain
  <1>4. ASSUME NEW t \in Tasks, TimesOut(t) PROVE (GateHeld /\ WordKept)'
    BY <1>4 DEF TimesOut
  <1>5. ASSUME NEW t \in Tasks, Take(t) PROVE (GateHeld /\ WordKept)'
    BY <1>5 DEF Take
  <1>6. ASSUME NEW t \in Tasks, Set(t) PROVE (GateHeld /\ WordKept)'
    BY <1>6 DEF Set
  <1>7. ASSUME NEW t \in Tasks, SetBit(t) PROVE (GateHeld /\ WordKept)'
    BY <1>7 DEF SetBit
  <1>8. ASSUME NEW t \in Tasks, LeaveNothing(t) PROVE (GateHeld /\ WordKept)'
    BY <1>8 DEF LeaveNothing
  <1>9. ASSUME NEW t \in Tasks, Leave(t) PROVE (GateHeld /\ WordKept)'
    BY <1>9 DEF Leave
  <1>10. ASSUME NEW t \in Tasks, Clear(t) PROVE (GateHeld /\ WordKept)'
    BY <1>10 DEF Clear
  <1>11. ASSUME NEW t \in Tasks, ClearBit(t) PROVE (GateHeld /\ WordKept)'
    BY <1>11 DEF ClearBit
  <1>12. ASSUME NEW t \in Tasks, LeaveGate(t) PROVE (GateHeld /\ WordKept)'
    BY <1>12 DEF LeaveGate
  <1>13. ASSUME NEW t \in Tasks, LeaveLast(t) PROVE (GateHeld /\ WordKept)'
    BY <1>13 DEF LeaveLast
  <1>14. ASSUME NEW t \in Tasks, NEW l \in Locks, Create(t, l) PROVE (GateHeld /\ WordKept)'
    BY <1>14 DEF Create
  <1>15. ASSUME NEW t \in Tasks, NEW l \in Locks, Delete(t, l) PROVE (GateHeld /\ WordKept)'
    BY <1>15 DEF Delete
  <1>16. ASSUME NEW t \in Tasks, NEW l \in mine[t], NEW type \in {"NONE", "TASK"}, Enter(t, l, type) PROVE (GateHeld /\ WordKept)'
    BY <1>16 DEF Enter
  <1>17. CASE UNCHANGED vars
    BY <1>17 DEF vars
  <1> HIDE DEF Runs, At, Goto, LeaveMutex, ReadWord, WriteWord, handle, call, vars,
          Cores, Pcs, Holding, Leaving, InMutex, InGate, Typed, HandleInUse, IInv, GateHeld, WordKept, TakenWhileHeld
  <1> QED
    BY <1>1, <1>2, <1>3, <1>4, <1>5, <1>6, <1>7, <1>8, <1>9, <1>10, <1>11, <1>12, <1>13, <1>14, <1>15, <1>16, <1>17
    DEF Next, InEnter, InLeave

\* A bit is set by the holder of its lock and cleared when it gives the lock back.
LEMMA BitsStep == IInv /\ [Next]_vars => BitsTell'
  <1> SUFFICES ASSUME IInv, [Next]_vars PROVE BitsTell'
    OBVIOUS
  <1> USE LocksAssumption DEF Runs, At, Goto, LeaveMutex, ReadWord, WriteWord,
          handle, call, vars, Cores, Pcs, Holding, Leaving, InMutex, InGate, Typed, HandleInUse,
          IInv, MutexHeld, WordKept, TakenWhileHeld, BitsTell
  <1>1. ASSUME NEW t \in Tasks, EnterMutex(t) PROVE BitsTell'
    BY <1>1 DEF EnterMutex
  <1>2. ASSUME NEW t \in Tasks, Try(t) PROVE BitsTell'
    BY <1>2 DEF Try
  <1>3. ASSUME NEW t \in Tasks, TryAgain(t) PROVE BitsTell'
    <2>1. /\ UNCHANGED <<sharedState, lock, bare>>
          /\ pc[t] = "undo" /\ pc' = [pc EXCEPT ![t] = "enter"]
      BY <1>3 DEF TryAgain
    <2>2. \A u \in Tasks, p \in {"in", "free", "and"} : pc'[u] = p <=> pc[u] = p
      BY <2>1
    <2> QED BY <2>1, <2>2
  <1>4. ASSUME NEW t \in Tasks, TimesOut(t) PROVE BitsTell'
    BY <1>4 DEF TimesOut
  <1>5. ASSUME NEW t \in Tasks, Take(t) PROVE BitsTell'
    BY <1>5 DEF Take
  <1>6. ASSUME NEW t \in Tasks, Set(t) PROVE BitsTell'
    BY <1>6 DEF Set
  <1>7. ASSUME NEW t \in Tasks, SetBit(t) PROVE BitsTell'
    BY <1>7 DEF SetBit
  <1>8. ASSUME NEW t \in Tasks, LeaveNothing(t) PROVE BitsTell'
    BY <1>8 DEF LeaveNothing
  <1>9. ASSUME NEW t \in Tasks, Leave(t) PROVE BitsTell'
    BY <1>9 DEF Leave
  <1>10. ASSUME NEW t \in Tasks, Clear(t) PROVE BitsTell'
    BY <1>10 DEF Clear
  <1>11. ASSUME NEW t \in Tasks, ClearBit(t) PROVE BitsTell'
    BY <1>11 DEF ClearBit
  <1>12. ASSUME NEW t \in Tasks, LeaveGate(t) PROVE BitsTell'
    BY <1>12 DEF LeaveGate
  <1>13. ASSUME NEW t \in Tasks, LeaveLast(t) PROVE BitsTell'
    BY <1>13 DEF LeaveLast
  <1>14. ASSUME NEW t \in Tasks, NEW l \in Locks, Create(t, l) PROVE BitsTell'
    BY <1>14 DEF Create
  <1>15. ASSUME NEW t \in Tasks, NEW l \in Locks, Delete(t, l) PROVE BitsTell'
    BY <1>15 DEF Delete
  <1>16. ASSUME NEW t \in Tasks, NEW l \in mine[t], NEW type \in {"NONE", "TASK"}, Enter(t, l, type) PROVE BitsTell'
    BY <1>16 DEF Enter
  <1>17. CASE UNCHANGED vars
    BY <1>17 DEF vars
  <1> HIDE DEF BitsTell, IInv
  <1> HIDE DEF Runs, At, Goto, LeaveMutex, ReadWord, WriteWord, handle, call, vars,
          Cores, Pcs, Holding, Leaving, InMutex, InGate, Typed, HandleInUse, IInv, MutexHeld, WordKept, TakenWhileHeld, BitsTell
  <1> QED
    BY <1>1, <1>2, <1>3, <1>4, <1>5, <1>6, <1>7, <1>8, <1>9, <1>10, <1>11, <1>12, <1>13, <1>14, <1>15, <1>16, <1>17
    DEF Next, InEnter, InLeave

\* A task more or a task less among the users of a handle.
LEMMA UsersFinite ==
  ASSUME NEW c \in Cores, NEW l \in Locks
  PROVE  IsFiniteSet(Users(c, l)) /\ Cardinality(Users(c, l)) \in Nat
  <1>1. Users(c, l) \subseteq Tasks
    BY DEF Users
  <1>2. IsFiniteSet(Users(c, l))
    BY <1>1, LocksAssumption, FS_Subset
  <1> QED BY <1>2, FS_CardinalityType

\* Only create and delete change the users of a handle, and they count them.
LEMMA CountStep == IInv /\ [Next]_vars => HandlesCounted'
  <1> SUFFICES ASSUME IInv, [Next]_vars PROVE HandlesCounted'
    OBVIOUS
  <1> USE LocksAssumption DEF handle, call
  <1>0. Typed /\ HandlesCounted
    BY DEF IInv
  <1>1. ASSUME NEW t \in Tasks, NEW l \in Locks, Create(t, l) PROVE HandlesCounted'
    <2> DEFINE c == CoreOf[t]
    <2>1. c \in Cores /\ t \notin Users(c, l)
      BY <1>1 DEF Create, Users, Cores
    <2>2. Users(c, l)' = Users(c, l) \cup {t}
      BY <1>0, <1>1 DEF Create, Users, Typed
    <2>3. Cardinality(Users(c, l)') = Cardinality(Users(c, l)) + 1
      BY <2>1, <2>2, UsersFinite, FS_AddElement
    <2>4. \A d \in Cores, k \in Locks : <<d, k>> # <<c, l>> => Users(d, k)' = Users(d, k)
      BY <1>0, <1>1 DEF Create, Users, Typed
    <2>5. locks' = [locks EXCEPT ![c][l] = @ + 1]
      BY <1>1 DEF Create
    <2> QED BY <1>0, <2>1, <2>3, <2>4, <2>5 DEF HandlesCounted
  <1>2. ASSUME NEW t \in Tasks, NEW l \in Locks, Delete(t, l) PROVE HandlesCounted'
    <2> DEFINE c == CoreOf[t]
    <2>1. c \in Cores /\ t \in Users(c, l)
      BY <1>2 DEF Delete, Users, Cores
    <2>2. Users(c, l)' = Users(c, l) \ {t}
      BY <1>0, <1>2 DEF Delete, Users, Typed
    <2>3. Cardinality(Users(c, l)') = Cardinality(Users(c, l)) - 1
      <3>1. IsFiniteSet(Users(c, l))
        BY <2>1, UsersFinite
      <3>2. Cardinality(Users(c, l) \ {t}) = Cardinality(Users(c, l)) - 1
        BY <2>1, <3>1, FS_RemoveElement
      <3> QED BY <2>2, <3>2
    <2>4. \A d \in Cores, k \in Locks : <<d, k>> # <<c, l>> => Users(d, k)' = Users(d, k)
      BY <1>0, <1>2 DEF Delete, Users, Typed
    <2>5. locks' = [locks EXCEPT ![c][l] = @ - 1]
      BY <1>2 DEF Delete
    <2> QED BY <1>0, <2>1, <2>3, <2>4, <2>5 DEF HandlesCounted
  <1>3. ASSUME UNCHANGED <<locks, mine>> PROVE HandlesCounted'
    BY <1>0, <1>3 DEF HandlesCounted, Users
  <1>4. ASSUME NEW t \in Tasks, InEnter(t) \/ InLeave(t) PROVE UNCHANGED <<locks, mine>>
    BY <1>4 DEF InEnter, InLeave, EnterMutex, Try, TryAgain, TimesOut, Take, Set, SetBit,
       LeaveNothing, Leave, Clear, ClearBit, LeaveGate, LeaveLast
  <1>5. ASSUME NEW t \in Tasks, NEW l \in mine[t], NEW type \in {"NONE", "TASK"}, Enter(t, l, type)
        PROVE UNCHANGED <<locks, mine>>
    BY <1>5 DEF Enter
  <1>6. CASE UNCHANGED vars
    BY <1>3, <1>6 DEF vars
  <1> QED BY <1>1, <1>2, <1>3, <1>4, <1>5, <1>6 DEF Next

\* The parts together.
LEMMA InvStep == IInv /\ [Next]_vars => IInv'
  BY TypedStep, HolderStep, GateStep, BitsStep, CountStep DEF IInv

\* At any moment every handle has as many references as it has tasks of its core
\* that created and did not delete it, and a task is inside a call only with a
\* handle of its own.
THEOREM SpinlockTypeOK == Spec => []TypeOK
  <1>1. IInv => TypeOK
    <2> SUFFICES ASSUME IInv PROVE TypeOK
      OBVIOUS
    <2> USE DEF IInv, Typed, HandleInUse
    <2>1. ASSUME NEW t \in Tasks PROVE lock[t] \in mine[t] \cup {None}
      OBVIOUS
    <2>2. ASSUME NEW c \in Cores, NEW l \in Locks PROVE locks[c][l] = Cardinality(Users(c, l))
      BY DEF HandlesCounted
    <2> QED BY <2>1, <2>2 DEF TypeOK, Pcs
  <1> QED BY InvInit, InvStep, <1>1, PTL DEF Spec

\* A spinlock has one holder among the tasks of all cores, whatever the keys of
\* callers that timed out; and as long as no caller uses GateNull the word of
\* each core names just the locks that its tasks hold or are about to give back.
THEOREM SpinlockHolders == Spec => []HoldersKnown
  <1>1. IInv => HoldersKnown
    BY DEF IInv, HoldersKnown
  <1> QED BY InvInit, InvStep, <1>1, PTL DEF Spec
===============================================================================
