----------------------------- MODULE MessageRefs -----------------------------
(***************************************************************************)
(* Reference counts of messages (thread_slinger_message::ref and deref,    *)
(* lib/thread_slinger.tcc) over the pools of SlingerPool: a message with   *)
(* several holders goes back to its pool when the last of them derefs it.  *)
(*                                                                         *)
(* alloc returns a message whose count is 0, for one holder; a holder who  *)
(* wants to share it counts itself first, and then each of the others.  A  *)
(* message that is counted is given back with deref and never released.    *)
(* deref calls release with refcountlock locked, so that lock is held over *)
(* the two steps of release.                                               *)
(***************************************************************************)
EXTENDS SlingerPool

CONSTANT MaxHolders   \* bound: holders of a message at once

VARIABLES
    refcount,       \* as in the code, of each message
    refcountlock,   \* the thread that has each message's lock, or Null
    holders         \* ghost: how many hold each message

refVars == <<refcount, refcountlock, holders>>
allVars == <<vars, refVars>>

RefTypeOK ==
    /\ refcount \in [Buffers -> Int]
    /\ refcountlock \in [Buffers -> Threads \cup {Null}]
    /\ holders \in [Buffers -> 0 .. MaxHolders]

RefInit ==
    /\ Init
    /\ refcount = [b \in Buffers |-> 0]
    /\ refcountlock = [b \in Buffers |-> Null]
    /\ holders = [b \in Buffers |-> 0]
-----------------------------------------------------------------------------
\* A thread that holds b calls ref(): for itself the first time, for another
\* holder from then on.
Ref(t, b) ==
    /\ pc[t] = "idle" /\ b \in held /\ refcountlock[b] = Null
    /\ refcount[b] = 0 \/ holders[b] < MaxHolders
    /\ refcount' = [refcount EXCEPT ![b] = @ + 1]
    /\ holders' = [holders EXCEPT ![b] = IF refcount[b] = 0 THEN @ ELSE @ + 1]
    /\ UNCHANGED <<vars, refcountlock>>

\* Mutant: the count is left as it is when the message is released.
M_DerefUnreset(t, b) ==
    /\ pc[t] = "idle" /\ b \in held /\ refcountlock[b] = Null
    /\ holders' = [holders EXCEPT ![b] = @ - 1]
    /\ refcount' = [refcount EXCEPT ![b] = @ - 1]
    /\ IF refcount[b] - 1 <= 0
       THEN /\ refcountlock' = [refcountlock EXCEPT ![b] = t]
            /\ Release(t, home[b]) /\ b \notin held'
       ELSE UNCHANGED <<vars, refcountlock>>

\* A holder calls deref(): the last one releases.
Deref(t, b) ==
    /\ pc[t] = "idle" /\ b \in held /\ refcountlock[b] = Null
    /\ holders' = [holders EXCEPT ![b] = @ - 1]
    /\ IF refcount[b] - 1 <= 0
       THEN /\ refcount' = [refcount EXCEPT ![b] = 0]
            /\ refcountlock' = [refcountlock EXCEPT ![b] = t]
            /\ Release(t, home[b]) /\ b \notin held'
       ELSE /\ refcount' = [refcount EXCEPT ![b] = @ - 1]
            /\ UNCHANGED <<vars, refcountlock>>

\* release() of a message nobody counts, called on any pool: its own takes it.
ReleaseUncounted(t, b) ==
    /\ b \in held /\ refcount[b] = 0
    /\ \E p \in Pools : Release(t, p)
    /\ b \notin held'
    /\ holders' = [holders EXCEPT ![b] = 0]
    /\ UNCHANGED <<refcount, refcountlock>>

\* release returns, and deref with it.
Return(t) ==
    /\ ReleaseCount(t)
    /\ refcountlock' = [b \in Buffers |-> IF refcountlock[b] = t THEN Null ELSE refcountlock[b]]
    /\ UNCHANGED <<refcount, holders>>

\* alloc returns: the message has one holder.
AllocReturns(t) ==
    /\ AllocInit(t)
    /\ holders' = [holders EXCEPT ![buf[t]] = 1]
    /\ UNCHANGED <<refcount, refcountlock>>

RefStep(t) ==
    \/ \E b \in Buffers : Ref(t, b) \/ Deref(t, b) \/ ReleaseUncounted(t, b)
    \/ Return(t) \/ AllocReturns(t)
    \/ /\ AllocCountFree(t) \/ \E p \in Pools : AllocTake(t, p) \/ AllocGrow(t, p) \/ Add(t, p)
       /\ UNCHANGED refVars

RefNext == \E t \in Threads : RefStep(t)

RefSpec == RefInit /\ [][RefNext]_allVars
-----------------------------------------------------------------------------
\* However ref, deref and the pool's calls interleave, the count is the number
\* of holders, or 0 for the one that has not counted itself: no deref but the
\* last gives the message back, the last one does, and a message comes out of
\* the pool with its count at 0 (thread_slinger.tcc:45-71).
LastDerefReleases ==
    \A b \in Buffers :
       /\ b \in held <=> holders[b] > 0
       /\ refcount[b] = holders[b] \/ (refcount[b] = 0 /\ holders[b] = 1)
=============================================================================
