---------------------------- MODULE SlingerPool ----------------------------
(***************************************************************************)
(* thread_slinger_pool (lib/thread_slinger.tcc): the free list of each     *)
(* pool, its two statistics counters, and the _slinger_pool pointer that   *)
(* says which pool a buffer belongs to.                                    *)
(*                                                                         *)
(* The free list is a thread_slinger_queue.  SlingerQueue shows that a     *)
(* call on one takes effect in one step, so q.dequeue and q.enqueue_head   *)
(* are one step here.  The counters live under another lock,               *)
(* statsLockable, and each of its critical sections is a step of its own:  *)
(* between the list operation and the counting any other thread may run.   *)
(*                                                                         *)
(* Calls that change nothing are not steps: alloc that returns NULL, and a *)
(* release refused with MessageNotFromThisPool, after which the caller     *)
(* still holds the buffer.                                                 *)
(***************************************************************************)
EXTENDS Integers, Sequences, FiniteSets

CONSTANTS
    Threads,   \* the threads that use the pools
    Pools,     \* the pools
    Buffers,   \* the buffers there can be: bounds the calls of new
    Null       \* the null pointer

ASSUME PoolAssumption ==
    /\ IsFiniteSet(Threads)
    /\ IsFiniteSet(Buffers)
    /\ Null \notin Buffers
    /\ Null \notin Pools

VARIABLES
    free,       \* free[p]: the buffers in p's queue, head first
    usedCount,  \* usedCount[p]
    freeCount,  \* freeCount[p]
    home,       \* home[b]: the _slinger_pool of b
    born,       \* the buffers that new has returned
    held,       \* the buffers the application holds
    pc,         \* pc[t]: where thread t is
    pool,       \* pool[t]: the pool its call is about
    buf,        \* buf[t]: the buffer alloc is about to return
    notnull     \* notnull[t]: release's local of that name

vars == <<free, usedCount, freeCount, home, born, held, pc, pool, buf, notnull>>

PCs == {"idle",
        "countFree",     \* alloc: has a buffer from the list, freeCount-- is next
        "init",          \* alloc: init and usedCount++ are next
        "countRelease"}  \* release: buffer on the list, the counting is next

Init ==
    /\ free = [p \in Pools |-> <<>>]
    /\ usedCount = [p \in Pools |-> 0]
    /\ freeCount = [p \in Pools |-> 0]
    /\ home = [b \in Buffers |-> Null]
    /\ born = {}
    /\ held = {}
    /\ pc = [t \in Threads |-> "idle"]
    /\ pool = [t \in Threads |-> Null]
    /\ buf = [t \in Threads |-> Null]
    /\ notnull = [t \in Threads |-> FALSE]

-----------------------------------------------------------------------------
(* alloc                                                                   *)

\* Mutant: freeCount is left to be decremented by the caller's first use.
M_AllocTakeUncounted(t, p) ==
    /\ pc[t] = "idle"
    /\ free[p] # <<>>
    /\ buf' = [buf EXCEPT ![t] = Head(free[p])]
    /\ free' = [free EXCEPT ![p] = Tail(@)]
    /\ pool' = [pool EXCEPT ![t] = p]
    /\ pc' = [pc EXCEPT ![t] = "init"]
    /\ UNCHANGED <<usedCount, freeCount, home, born, held, notnull>>

\* Mutant: the buffer is read but stays on the list.
M_AllocTakeKeeps(t, p) ==
    /\ pc[t] = "idle"
    /\ free[p] # <<>>
    /\ buf' = [buf EXCEPT ![t] = Head(free[p])]
    /\ pool' = [pool EXCEPT ![t] = p]
    /\ pc' = [pc EXCEPT ![t] = "countFree"]
    /\ UNCHANGED <<free, usedCount, freeCount, home, born, held, notnull>>

\* T * ret = q.dequeue(uSecs), when there is one.
AllocTake(t, p) ==
    /\ pc[t] = "idle"
    /\ free[p] # <<>>
    /\ buf' = [buf EXCEPT ![t] = Head(free[p])]
    /\ free' = [free EXCEPT ![p] = Tail(@)]
    /\ pool' = [pool EXCEPT ![t] = p]
    /\ pc' = [pc EXCEPT ![t] = "countFree"]
    /\ UNCHANGED <<usedCount, freeCount, home, born, held, notnull>>

\* Mutant: grow replaces a buffer that the list did supply.
M_AllocCountFreeGrows(t) ==
    /\ pc[t] = "countFree"
    /\ freeCount' = [freeCount EXCEPT ![pool[t]] = @ - 1]
    /\ \/ UNCHANGED <<born, buf>>
       \/ \E b \in Buffers \ born : born' = born \cup {b} /\ buf' = [buf EXCEPT ![t] = b]
    /\ pc' = [pc EXCEPT ![t] = "init"]
    /\ UNCHANGED <<free, usedCount, home, held, pool, notnull>>

\* if (ret) { Lock; freeCount--; }
AllocCountFree(t) ==
    /\ pc[t] = "countFree"
    /\ freeCount' = [freeCount EXCEPT ![pool[t]] = @ - 1]
    /\ pc' = [pc EXCEPT ![t] = "init"]
    /\ UNCHANGED <<free, usedCount, home, born, held, pool, buf, notnull>>

\* if (ret == NULL && grow) ret = new T.
AllocGrow(t, p) ==
    /\ pc[t] = "idle"
    /\ free[p] = <<>>
    /\ \E b \in Buffers \ born :
         /\ born' = born \cup {b}
         /\ buf' = [buf EXCEPT ![t] = b]
    /\ pool' = [pool EXCEPT ![t] = p]
    /\ pc' = [pc EXCEPT ![t] = "init"]
    /\ UNCHANGED <<free, usedCount, freeCount, home, held, notnull>>

\* ret->_slinger_pool = this; ret->init(); Lock; usedCount++; return ret.
AllocInit(t) ==
    /\ pc[t] = "init"
    /\ home' = [home EXCEPT ![buf[t]] = pool[t]]
    /\ usedCount' = [usedCount EXCEPT ![pool[t]] = @ + 1]
    /\ held' = held \cup {buf[t]}
    /\ buf' = [buf EXCEPT ![t] = Null]
    /\ pc' = [pc EXCEPT ![t] = "idle"]
    /\ UNCHANGED <<free, freeCount, born, pool, notnull>>

-----------------------------------------------------------------------------
(* release and add                                                         *)

\* release(buf) of a buffer that belongs here: notnull is read, then
\* q.enqueue_head(buf).  From here on the buffer can be allocated again.
Release(t, p) ==
    /\ pc[t] = "idle"
    /\ \E b \in held :
         /\ home[b] \in {Null, p}
         /\ free' = [free EXCEPT ![p] = <<b>> \o @]
         /\ held' = held \ {b}
         /\ notnull' = [notnull EXCEPT ![t] = home[b] # Null]
    /\ pool' = [pool EXCEPT ![t] = p]
    /\ pc' = [pc EXCEPT ![t] = "countRelease"]
    /\ UNCHANGED <<usedCount, freeCount, home, born, buf>>

\* One round of add: release(new T), whose _slinger_pool is NULL.
Add(t, p) ==
    /\ pc[t] = "idle"
    /\ \E b \in Buffers \ born :
         /\ born' = born \cup {b}
         /\ free' = [free EXCEPT ![p] = <<b>> \o @]
    /\ notnull' = [notnull EXCEPT ![t] = FALSE]
    /\ pool' = [pool EXCEPT ![t] = p]
    /\ pc' = [pc EXCEPT ![t] = "countRelease"]
    /\ UNCHANGED <<usedCount, freeCount, home, held, buf>>

\* Lock; if (notnull) usedCount--; freeCount++.
ReleaseCount(t) ==
    /\ pc[t] = "countRelease"
    /\ usedCount' = [usedCount EXCEPT ![pool[t]] = IF notnull[t] THEN @ - 1 ELSE @]
    /\ freeCount' = [freeCount EXCEPT ![pool[t]] = @ + 1]
    /\ pc' = [pc EXCEPT ![t] = "idle"]
    /\ UNCHANGED <<free, home, born, held, pool, buf, notnull>>

-----------------------------------------------------------------------------
Step(t) ==
    \/ \E p \in Pools : AllocTake(t, p) \/ AllocGrow(t, p) \/ Release(t, p) \/ Add(t, p)
    \/ AllocCountFree(t) \/ AllocInit(t) \/ ReleaseCount(t)

Next == \E t \in Threads : Step(t)

Spec == Init /\ [][Next]_vars

-----------------------------------------------------------------------------
(* Properties                                                              *)

\* Every variable has the type the code gives it.
TypeOK ==
    /\ free \in [Pools -> Seq(Buffers)]
    /\ usedCount \in [Pools -> Int]
    /\ freeCount \in [Pools -> Int]
    /\ home \in [Buffers -> Pools \cup {Null}]
    /\ born \in SUBSET Buffers
    /\ held \in SUBSET Buffers
    /\ pc \in [Threads -> PCs]
    /\ pool \in [Threads -> Pools \cup {Null}]
    /\ buf \in [Threads -> Buffers \cup {Null}]
    /\ notnull \in [Threads -> BOOLEAN]

TakenUncounted(p)    == {t \in Threads : pc[t] = "countFree" /\ pool[t] = p}
ReleasedUncounted(p) == {t \in Threads : pc[t] = "countRelease" /\ pool[t] = p}
UsedReleased(p)      == {t \in ReleasedUncounted(p) : notnull[t]}
HeldFrom(p)          == {b \in held : home[b] = p}

\* freeCount is the length of the free list, off by exactly the calls that
\* are between their list operation and their counting: the two locks of
\* alloc and release never lose a count, whatever the interleaving.
FreeCountConserved == \A p \in Pools :
    freeCount[p] + Cardinality(ReleasedUncounted(p))
        = Len(free[p]) + Cardinality(TakenUncounted(p))

\* usedCount is the number of buffers the application holds from this pool,
\* plus the releases of such buffers that have not been counted yet.  A
\* buffer added fresh is never counted as given back.
UsedCountConserved == \A p \in Pools :
    usedCount[p] = Cardinality(HeldFrom(p)) + Cardinality(UsedReleased(p))

\* What getCounts reports is off by the calls under way only, in both numbers
\* (thread_slinger.tcc:150-154, 193-197).
CountsConserved == FreeCountConserved /\ UsedCountConserved

InFree(p, b) == \E i \in 1 .. Len(free[p]) : free[p][i] = b

\* A buffer is in one place: once on the list of one pool, or with one thread
\* inside alloc, or with the application.  No buffer is handed out twice.
OnePlace ==
    /\ \A p \in Pools : \A i, j \in 1 .. Len(free[p]) : free[p][i] = free[p][j] => i = j
    /\ \A p, q \in Pools, b \in Buffers : InFree(p, b) /\ InFree(q, b) => p = q
    /\ \A p \in Pools, b \in held : ~ InFree(p, b)
    /\ \A s, t \in Threads : buf[s] = buf[t] /\ buf[s] # Null => s = t
    /\ \A t \in Threads : buf[t] # Null =>
         buf[t] \notin held /\ \A p \in Pools : ~ InFree(p, buf[t])

\* A buffer that was ever allocated from a pool rests only on the list of that
\* pool: release into another pool is refused.
RestsAtHome == \A p \in Pools, b \in Buffers : InFree(p, b) => home[b] \in {Null, p}

\* No buffer is lost: every buffer new has returned is in some place.
NoneLost == \A b \in born :
    b \in held \/ (\E p \in Pools : InFree(p, b)) \/ (\E t \in Threads : buf[t] = b)
=============================================================================
