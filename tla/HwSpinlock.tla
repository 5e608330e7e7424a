------------------------------ MODULE HwSpinlock ------------------------------
(***************************************************************************)
(* Locks between the cores: a hardware spinlock that every core can read,  *)
(* which takes it when it is free, and on each core a mutex that lets one  *)
(* task at a time read it.  The one that took the lock enters a preemption *)
(* gate of its choice, and sets the lock's bit in a word from which the    *)
(* host can tell what a core that went wrong has left locked.              *)
(*                                                                         *)
(* The gate is GateNull or one that keeps other tasks of the core from     *)
(* running; the other kinds do that and more.  Create and delete run with  *)
(* interrupts disabled.  Hook functions are left out.                      *)
(***************************************************************************)
EXTENDS Naturals, FiniteSets

CONSTANTS
  Tasks,
  CoreOf,      \* core of each task
  Locks,       \* ids of spinlocks, with their bits in one word
  None,
  MaxEnters,   \* bound of the model: calls of enter by each task
  MaxCreated   \* bound of the model: locks that a task uses at a time

Cores == {CoreOf[t] : t \in Tasks}

ASSUME LocksAssumption ==
  /\ None \notin Tasks \cup Locks /\ IsFiniteSet(Tasks)
  /\ MaxEnters \in Nat /\ MaxCreated \in Nat

VARIABLES
  baseAddr,    \* the spinlocks: whether each is taken
  locks,       \* HwSpinlock_module.locks: handle->refCnt, 0 without a handle
  mutex, state, \* handle->mutex and handle->state
  sharedState, \* ids of the bits that are set, for each core
  gate,        \* the task that keeps others of its core from running
  mine,        \* locks that a task created and has yet to delete
  pc, lock, pType,
  valid,       \* hkey->valid
  word,        \* what it read of sharedState
  enters,
  bare         \* whether bits were changed inside of GateNull

handle == <<locks, mutex, state>>
call == <<pc, lock, pType>>
vars == <<baseAddr, handle, sharedState, gate, mine, call, valid, word, enters, bare>>

Init ==
  /\ baseAddr = [l \in Locks |-> FALSE]
  /\ locks = [c \in Cores |-> [l \in Locks |-> 0]]
  /\ mutex = [c \in Cores |-> [l \in Locks |-> None]]
  /\ state = [c \in Cores |-> [l \in Locks |-> "FREE"]]
  /\ sharedState = [c \in Cores |-> {}]
  /\ gate = [c \in Cores |-> None]
  /\ mine = [t \in Tasks |-> {}]
  /\ pc = [t \in Tasks |-> "out"]
  /\ lock = [t \in Tasks |-> None]
  /\ pType = [t \in Tasks |-> "NONE"]
  /\ valid = [t \in Tasks |-> FALSE]
  /\ word = [t \in Tasks |-> {}]
  /\ enters = [t \in Tasks |-> 0]
  /\ bare = FALSE

Runs(t) == gate[CoreOf[t]] \in {None, t}
At(t, l) == Runs(t) /\ pc[t] = l
Goto(t, l) == pc' = [pc EXCEPT ![t] = l]

-----------------------------------------------------------------------------
(* HwSpinlock_create and HwSpinlock_delete. *)

\* Mutant: whoever finds the handle is not counted.
CreateUncounted(t, l) ==
  /\ At(t, "out") /\ l \notin mine[t] /\ Cardinality(mine[t]) < MaxCreated
  /\ locks' = [locks EXCEPT ![CoreOf[t]][l] = 1]
  /\ mine' = [mine EXCEPT ![t] = @ \cup {l}]
  /\ UNCHANGED <<baseAddr, mutex, state, sharedState, gate, call, valid, word, enters, bare>>

Create(t, l) ==
  /\ At(t, "out") /\ l \notin mine[t] /\ Cardinality(mine[t]) < MaxCreated
  /\ locks' = [locks EXCEPT ![CoreOf[t]][l] = @ + 1]
  /\ mine' = [mine EXCEPT ![t] = @ \cup {l}]
  /\ UNCHANGED <<baseAddr, mutex, state, sharedState, gate, call, valid, word, enters, bare>>

\* The callers' rule is to leave the lock first.  A task that goes by it is not
\* refused, for a lock that is taken has its holder as a user.
Delete(t, l) ==
  /\ At(t, "out") /\ l \in mine[t]
  /\ locks' = [locks EXCEPT ![CoreOf[t]][l] = @ - 1]
  /\ mine' = [mine EXCEPT ![t] = @ \ {l}]
  /\ UNCHANGED <<baseAddr, mutex, state, sharedState, gate, call, valid, word, enters, bare>>

-----------------------------------------------------------------------------
(* HwSpinlock_enter. *)

\* The caller's key is a variable that nobody initialised.
Enter(t, l, type) ==
  /\ At(t, "out") /\ l \in mine[t] /\ enters[t] < MaxEnters
  /\ \E garbage \in BOOLEAN : valid' = [valid EXCEPT ![t] = garbage]
  /\ lock' = [lock EXCEPT ![t] = l]
  /\ pType' = [pType EXCEPT ![t] = type]
  /\ enters' = [enters EXCEPT ![t] = @ + 1]
  /\ Goto(t, "enter")
  /\ UNCHANGED <<baseAddr, handle, sharedState, gate, mine, word, bare>>

EnterMutex(t) ==
  /\ At(t, "enter")
  /\ mutex[CoreOf[t]][lock[t]] = None
  /\ mutex' = [mutex EXCEPT ![CoreOf[t]][lock[t]] = t]
  /\ Goto(t, "try")
  /\ UNCHANGED <<baseAddr, locks, state, sharedState, gate, mine, lock, pType, valid, word, enters, bare>>

\* Mutant: the state in the handle says whether the lock is taken.
TryLocal(t) ==
  /\ At(t, "try")
  /\ baseAddr' = [baseAddr EXCEPT ![lock[t]] = TRUE]
  /\ Goto(t, IF state[CoreOf[t]][lock[t]] = "TAKEN" THEN "undo" ELSE "take")
  /\ UNCHANGED <<handle, sharedState, gate, mine, lock, pType, valid, word, enters, bare>>

\* The read that finds the spinlock free takes it.
Try(t) ==
  /\ At(t, "try")
  /\ baseAddr' = [baseAddr EXCEPT ![lock[t]] = TRUE]
  /\ Goto(t, IF baseAddr[lock[t]] THEN "undo" ELSE "take")
  /\ UNCHANGED <<handle, sharedState, gate, mine, lock, pType, valid, word, enters, bare>>

LeaveMutex(t) == mutex' = [mutex EXCEPT ![CoreOf[t]][lock[t]] = None]

TryAgain(t) ==
  /\ At(t, "undo")
  /\ LeaveMutex(t)
  /\ Goto(t, "enter")
  /\ UNCHANGED <<baseAddr, locks, state, sharedState, gate, mine, lock, pType, valid, word, enters, bare>>

\* E_TIMEOUT, of which the caller may take no notice.
TimesOut(t) ==
  /\ At(t, "undo")
  /\ LeaveMutex(t)
  /\ valid' = [valid EXCEPT ![t] = FALSE]
  /\ Goto(t, "late")
  /\ UNCHANGED <<baseAddr, locks, state, sharedState, gate, mine, lock, pType, word, enters, bare>>

\* Mutant: others of the core can run until the bit is set.
TakeUngated(t) ==
  /\ At(t, "take")
  /\ state' = [state EXCEPT ![CoreOf[t]][lock[t]] = "TAKEN"]
  /\ valid' = [valid EXCEPT ![t] = TRUE]
  /\ Goto(t, "set")
  /\ UNCHANGED <<baseAddr, locks, mutex, sharedState, gate, mine, lock, pType, word, enters, bare>>

Take(t) ==
  /\ At(t, "take")
  /\ state' = [state EXCEPT ![CoreOf[t]][lock[t]] = "TAKEN"]
  /\ gate' = IF pType[t] = "NONE" THEN gate ELSE [gate EXCEPT ![CoreOf[t]] = t]
  /\ valid' = [valid EXCEPT ![t] = TRUE]
  /\ Goto(t, "set")
  /\ UNCHANGED <<baseAddr, locks, mutex, sharedState, mine, lock, pType, word, enters, bare>>

ReadWord(t) ==
  /\ word' = [word EXCEPT ![t] = sharedState[CoreOf[t]]]
  /\ bare' = (bare \/ pType[t] = "NONE")

WriteWord(t, w) ==
  /\ sharedState' = [sharedState EXCEPT ![CoreOf[t]] = w]
  /\ word' = [word EXCEPT ![t] = {}]
  /\ UNCHANGED bare

Set(t) ==
  /\ At(t, "set")
  /\ ReadWord(t)
  /\ Goto(t, "or")
  /\ UNCHANGED <<baseAddr, handle, sharedState, gate, mine, lock, pType, valid, enters>>

SetBit(t) ==
  /\ At(t, "or")
  /\ WriteWord(t, word[t] \cup {lock[t]})
  /\ Goto(t, "in")
  /\ UNCHANGED <<baseAddr, handle, gate, mine, lock, pType, valid, enters>>

-----------------------------------------------------------------------------
(* HwSpinlock_leave. *)

LeaveNothing(t) ==
  /\ At(t, "late")
  /\ ~(state[CoreOf[t]][lock[t]] = "TAKEN" /\ valid[t])
  /\ lock' = [lock EXCEPT ![t] = None]
  /\ Goto(t, "out")
  /\ UNCHANGED <<baseAddr, handle, sharedState, gate, mine, pType, valid, word, enters, bare>>

Leave(t) ==
  /\ Runs(t) /\ pc[t] \in {"in", "late"}
  /\ state[CoreOf[t]][lock[t]] = "TAKEN" /\ valid[t]
  /\ baseAddr' = [baseAddr EXCEPT ![lock[t]] = FALSE]
  /\ Goto(t, "free")
  /\ UNCHANGED <<handle, sharedState, gate, mine, lock, pType, valid, word, enters, bare>>

Clear(t) ==
  /\ At(t, "free")
  /\ state' = [state EXCEPT ![CoreOf[t]][lock[t]] = "FREE"]
  /\ ReadWord(t)
  /\ Goto(t, "and")
  /\ UNCHANGED <<baseAddr, locks, mutex, sharedState, gate, mine, lock, pType, valid, enters>>

ClearBit(t) ==
  /\ At(t, "and")
  /\ WriteWord(t, word[t] \ {lock[t]})
  /\ Goto(t, "ungate")
  /\ UNCHANGED <<baseAddr, handle, gate, mine, lock, pType, valid, enters>>

LeaveGate(t) ==
  /\ At(t, "ungate")
  /\ gate' = IF pType[t] = "NONE" THEN gate ELSE [gate EXCEPT ![CoreOf[t]] = None]
  /\ valid' = [valid EXCEPT ![t] = FALSE]
  /\ Goto(t, "unlock")
  /\ UNCHANGED <<baseAddr, handle, sharedState, mine, lock, pType, word, enters, bare>>

\* Mutant: a caller that goes out leaves the mutex to itself.
LeaveLastKept(t) ==
  /\ At(t, "unlock")
  /\ lock' = [lock EXCEPT ![t] = None]
  /\ Goto(t, "out")
  /\ UNCHANGED <<baseAddr, handle, sharedState, gate, mine, pType, valid, word, enters, bare>>

LeaveLast(t) ==
  /\ At(t, "unlock")
  /\ LeaveMutex(t)
  /\ lock' = [lock EXCEPT ![t] = None]
  /\ Goto(t, "out")
  /\ UNCHANGED <<baseAddr, locks, state, sharedState, gate, mine, pType, valid, word, enters, bare>>

-----------------------------------------------------------------------------
InEnter(t) ==
  EnterMutex(t) \/ Try(t) \/ TryAgain(t) \/ TimesOut(t) \/ Take(t) \/ Set(t) \/ SetBit(t)

InLeave(t) ==
  LeaveNothing(t) \/ Leave(t) \/ Clear(t) \/ ClearBit(t) \/ LeaveGate(t) \/ LeaveLast(t)

Next ==
  \E t \in Tasks :
    \/ InEnter(t) \/ InLeave(t)
    \/ \E l \in Locks : Create(t, l) \/ Delete(t, l)
    \/ \E l \in mine[t], type \in {"NONE", "TASK"} : Enter(t, l, type)

Spec == Init /\ [][Next]_vars

\* Tasks run and leave what they entered.
FairSpec == Spec /\ \A t \in Tasks : WF_vars(InEnter(t)) /\ WF_vars(InLeave(t))

-----------------------------------------------------------------------------
(* Properties.                                                             *)

Holding == {"take", "set", "or", "in"}
Leaving == {"free", "and", "ungate", "unlock"}

Users(c, l) == {t \in Tasks : CoreOf[t] = c /\ l \in mine[t]}

\* Types; and a handle lives exactly as long as it has users, whichever task of
\* its core made it.
TypeOK ==
  /\ baseAddr \in [Locks -> BOOLEAN]
  /\ \A c \in Cores : sharedState[c] \subseteq Locks /\ gate[c] \in Tasks \cup {None}
  /\ \A c \in Cores, l \in Locks :
       /\ locks[c][l] = Cardinality(Users(c, l))
       /\ mutex[c][l] \in Tasks \cup {None}
       /\ state[c][l] \in {"FREE", "TAKEN"}
  /\ \A t \in Tasks :
       /\ mine[t] \subseteq Locks /\ word[t] \subseteq Locks
       /\ lock[t] \in mine[t] \cup {None}
       /\ pc[t] \in {"out", "enter", "try", "undo", "late"} \cup Holding \cup Leaving
       /\ pType[t] \in {"NONE", "TASK"}
       /\ enters[t] \in 0..MaxEnters
  /\ valid \in [Tasks -> BOOLEAN] /\ bare \in BOOLEAN

\* A lock has one holder among the tasks of all cores, whatever their keys held
\* before and whether or not they look at what enter returned; no task deletes
\* the handle under it.
OneHolder ==
  \A t, u \in Tasks :
    pc[t] \in Holding /\ pc[u] \in Holding /\ lock[t] = lock[u] => t = u

\* What the host reads of a core is true at least while a lock is held: the bits
\* that are set are those of the locks its tasks hold or are about to give back,
\* as long as no task entered with GateNull.  (With it, a task that is preempted
\* as it changes the word undoes what others change meanwhile.)
BitsTell ==
  ~bare =>
    \A t \in Tasks :
      /\ pc[t] \in {"in", "free", "and"} => lock[t] \in sharedState[CoreOf[t]]
      /\ \A l \in sharedState[CoreOf[t]] : \E u \in Tasks :
           CoreOf[u] = CoreOf[t] /\ lock[u] = l /\ pc[u] \in {"in", "free", "and"}

HoldersKnown == OneHolder /\ BitsTell

\* A call of enter ends, with the lock or without, and so does the leave that
\* follows, when no task takes the lock again and again.
CallsEnd == \A t \in Tasks : (pc[t] = "enter") ~> (pc[t] = "out")
=============================================================================
