----------------------------- MODULE LockGuards -----------------------------
(***************************************************************************)
(* Lockable, Lock, Waitable and Waiter (lib/LockWait.h): a recursive mutex *)
(* with the flag that isLocked() answers, the Lock objects that a thread   *)
(* has on it, each with a count of its own, and the wait of a Waiter.      *)
(*                                                                         *)
(* A Lock object is used by one thread, in the order of its scopes.  A     *)
(* Waiter waits only when it is the one Lock that has the mutex locked:    *)
(* pthread_cond_wait releases a recursive mutex once, and a thread that    *)
(* has it locked twice would sleep with it.                                *)
(***************************************************************************)
EXTENDS Integers, Sequences, FiniteSets

CONSTANTS
    Threads,
    Nobody,
    MaxLocks,  \* bound: Lock objects of one thread at a time
    MaxCount   \* bound: lockCount

ASSUME LockAssumption == Nobody \notin Threads

VARIABLES
    owner, depth,  \* lockableMutex
    locked,        \* as in the code
    locks,         \* per thread: the lockCount of its Lock objects, the innermost last
    waits          \* per thread: whether it is in Waiter::wait

lockVars == <<owner, depth, locked, locks, waits>>

LockTypeOK ==
    /\ owner \in Threads \cup {Nobody}
    /\ depth \in Nat
    /\ locked \in BOOLEAN
    /\ locks \in [Threads -> Seq(Nat)]
    /\ waits \in [Threads -> {"no", "blocked", "woken"}]

LockInit ==
    /\ owner = Nobody /\ depth = 0
    /\ locked = FALSE
    /\ locks = [t \in Threads |-> << >>]
    /\ waits = [t \in Threads |-> "no"]

Running(t) == waits[t] = "no"
-----------------------------------------------------------------------------
\* Lockable::lock(): blocks while another thread has the mutex.
LockMutex(t) ==
    /\ owner \in {Nobody, t}
    /\ owner' = t /\ depth' = depth + 1
    /\ locked' = TRUE

\* Lockable::unlock().
UnlockMutex(t) ==
    /\ depth' = depth - 1
    /\ owner' = IF depth = 1 THEN Nobody ELSE owner
    /\ locked' = FALSE

KeepMutex == UNCHANGED <<owner, depth, locked>>

\* Lock::Lock, with and without dolock.
Construct(t) ==
    /\ Running(t) /\ Len(locks[t]) < MaxLocks
    /\ \/ LockMutex(t) /\ locks' = [locks EXCEPT ![t] = Append(@, 1)]
       \/ KeepMutex    /\ locks' = [locks EXCEPT ![t] = Append(@, 0)]
    /\ UNCHANGED waits

\* Lock::lock() of one of the thread's Lock objects.
LockAgain(t) ==
    /\ Running(t)
    /\ \E i \in DOMAIN locks[t] :
          /\ locks[t][i] < MaxCount
          /\ locks' = [locks EXCEPT ![t][i] = @ + 1]
          /\ IF locks[t][i] = 0 THEN LockMutex(t) ELSE KeepMutex
    /\ UNCHANGED waits

\* Lock::unlock(); one too many prints an error and does nothing.
Unlock(t) ==
    /\ Running(t)
    /\ \E i \in DOMAIN locks[t] :
          /\ locks[t][i] > 0
          /\ locks' = [locks EXCEPT ![t][i] = @ - 1]
          /\ IF locks[t][i] = 1 THEN UnlockMutex(t) ELSE KeepMutex
    /\ UNCHANGED waits

\* Mutant: the destructor unlocks only what was locked once.
M_DestroyOnce(t) ==
    /\ Running(t) /\ locks[t] # << >>
    /\ LET n == Len(locks[t])
       IN  /\ locks' = [locks EXCEPT ![t] = SubSeq(@, 1, n - 1)]
           /\ IF locks[t][n] = 1 THEN UnlockMutex(t) ELSE KeepMutex
    /\ UNCHANGED waits

\* Lock::~Lock of the innermost object: it unlocks once, whatever its count.
Destroy(t) ==
    /\ Running(t) /\ locks[t] # << >>
    /\ LET n == Len(locks[t])
       IN  /\ locks' = [locks EXCEPT ![t] = SubSeq(@, 1, n - 1)]
           /\ IF locks[t][n] > 0 THEN UnlockMutex(t) ELSE KeepMutex
    /\ UNCHANGED waits

\* Waiter::wait: the mutex is released without Lockable::unlock.
Wait(t) ==
    /\ Running(t) /\ owner = t /\ depth = 1
    /\ owner' = Nobody /\ depth' = 0
    /\ waits' = [waits EXCEPT ![t] = "blocked"]
    /\ UNCHANGED <<locked, locks>>

\* The deadline passes, or the wait ends for no reason.
WaitEnds(t) ==
    /\ waits[t] = "blocked"
    /\ waits' = [waits EXCEPT ![t] = "woken"]
    /\ UNCHANGED <<owner, depth, locked, locks>>

\* The wait returns when it has the mutex again.
Rewait(t) ==
    /\ waits[t] = "woken" /\ owner = Nobody
    /\ owner' = t /\ depth' = 1
    /\ waits' = [waits EXCEPT ![t] = "no"]
    /\ UNCHANGED <<locked, locks>>

Blocked == {t \in Threads : waits[t] = "blocked"}

\* waiterSignal(), by a thread that may or may not have the mutex.
WaiterSignal ==
    /\ \E t \in Blocked : waits' = [waits EXCEPT ![t] = "woken"]
    /\ UNCHANGED <<owner, depth, locked, locks>>

\* waiterBroadcast().
WaiterBroadcast ==
    /\ waits' = [t \in Threads |-> IF t \in Blocked THEN "woken" ELSE waits[t]]
    /\ UNCHANGED <<owner, depth, locked, locks>>

LockStep(t) ==
    \/ Construct(t) \/ LockAgain(t) \/ Unlock(t) \/ Destroy(t)
    \/ Wait(t) \/ Rewait(t)
-----------------------------------------------------------------------------
Holding(t) == {i \in DOMAIN locks[t] : locks[t][i] > 0}

\* A thread has the mutex exactly while one of its Lock objects is locked and it
\* is not in a wait, and as often as it has such objects: two threads are never
\* both in what their Locks protect, and a thread whose Locks are gone, or all
\* unlocked, has left nothing locked, however its lock() and unlock() nested
\* (LockWait.h:64-86).
LocksHold ==
    /\ \A t \in Threads : owner = t <=> Running(t) /\ Holding(t) # {}
    /\ owner # Nobody => depth = Cardinality(Holding(owner))
    /\ owner = Nobody => depth = 0
=============================================================================
