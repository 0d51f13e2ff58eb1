-------------------------- MODULE GuardedPtr_proofs --------------------------
(***************************************************************************)
(* Theorems about Locks and counted pointers: for any number of threads,   *)
(* Locks, levels and objects the mutex is held exactly as the Locks say,   *)
(* and the count of an object is exact, so that it is deleted once, when   *)
(* its last holder lets go.                                                *)
(***************************************************************************)
EXTENDS GuardedPtr, FiniteSetTheorems, TLAPS

-----------------------------------------------------------------------------
(* The Locks                                                               *)

\* A thread waits with exactly one Lock locked, whose level on the mutex it gives
\* up and takes again.
WaitsWithOne == \A t \in Threads : ~ Running(t) => Cardinality(Holding(t)) = 1

LInv == LockTypeOK /\ LocksHold /\ WaitsWithOne

\* A thread has finitely many Locks locked, and their number is 0 only when none
\* is.
LEMMA HoldingFinite ==
    ASSUME LockTypeOK, NEW t \in Threads
    PROVE  /\ IsFiniteSet(Holding(t)) /\ Cardinality(Holding(t)) \in Nat
           /\ Cardinality(Holding(t)) = 0 <=> Holding(t) = {}
<1>1. locks[t] \in Seq(Nat) /\ Len(locks[t]) \in Nat
  BY DEF LockTypeOK
<1>2. Holding(t) \in SUBSET (1 .. Len(locks[t]))
  BY <1>1 DEF Holding
<1>3. IsFiniteSet(1 .. Len(locks[t]))
  BY <1>1, FS_Interval
<1>4. IsFiniteSet(Holding(t))
  BY <1>2, <1>3, FS_Subset
<1> QED BY <1>4, FS_CardinalityType, FS_EmptySet

\* What a step of t on its Lock objects does to the set of its locked ones: with
\* the mutex one more or one less, or with neither.
Gains(t) == \E i : i \notin Holding(t) /\ Holding(t)' = Holding(t) \cup {i}
Loses(t) == \E i \in Holding(t) : Holding(t)' = Holding(t) \ {i}

LockCall(t) == Construct(t) \/ LockAgain(t) \/ Unlock(t) \/ Destroy(t)

\* A call on a Lock object locks the mutex as one more of the thread's objects is
\* locked, unlocks it as one less is, or leaves both; it is no other thread's.
LEMMA LockCallShape ==
    ASSUME LockTypeOK, NEW t \in Threads, LockCall(t)
    PROVE  /\ Running(t) /\ UNCHANGED waits
           /\ \A u \in Threads : u # t => locks'[u] = locks[u]
           /\ locks' \in [Threads -> Seq(Nat)]
           /\ \/ LockMutex(t) /\ Gains(t)
              \/ UnlockMutex(t) /\ Loses(t)
              \/ KeepMutex /\ Holding(t)' = Holding(t)
<1>1. locks \in [Threads -> Seq(Nat)] /\ locks[t] \in Seq(Nat)
  BY DEF LockTypeOK
<1> DEFINE s == locks[t]  n == Len(s)
<1>2. n \in Nat /\ DOMAIN s = 1 .. n /\ \A i \in 1 .. n : s[i] \in Nat
  BY <1>1
<1>3. CASE Construct(t)
  <2>1. \A k \in {0, 1} :
           /\ Append(s, k) \in Seq(Nat) /\ DOMAIN Append(s, k) = 1 .. n + 1
           /\ \A i \in 1 .. n : Append(s, k)[i] = s[i]
           /\ Append(s, k)[n + 1] = k
    BY <1>1, <1>2
  <2>2. n + 1 \notin Holding(t)
    BY <1>2 DEF Holding
  <2>3. CASE LockMutex(t) /\ locks' = [locks EXCEPT ![t] = Append(s, 1)]
    <3>1. locks'[t] = Append(s, 1) /\ locks' \in [Threads -> Seq(Nat)]
      BY <1>1, <2>1, <2>3
    <3>2. Holding(t)' = Holding(t) \cup {n + 1}
      BY <1>2, <2>1, <3>1 DEF Holding
    <3> QED BY <1>1, <1>3, <2>2, <2>3, <3>1, <3>2 DEF Construct, Gains
  <2>4. CASE KeepMutex /\ locks' = [locks EXCEPT ![t] = Append(s, 0)]
    <3>1. locks'[t] = Append(s, 0) /\ locks' \in [Threads -> Seq(Nat)]
      BY <1>1, <2>1, <2>4
    <3>2. Holding(t)' = Holding(t)
      BY <1>2, <2>1, <3>1 DEF Holding
    <3> QED BY <1>1, <1>3, <2>4, <3>1, <3>2 DEF Construct
  <2> QED BY <1>3, <2>3, <2>4 DEF Construct
<1>4. CASE LockAgain(t)
  <2>1. PICK i \in 1 .. n : /\ locks' = [locks EXCEPT ![t][i] = @ + 1]
                            /\ IF s[i] = 0 THEN LockMutex(t) ELSE KeepMutex
    BY <1>2, <1>4 DEF LockAgain
  <2>2. /\ locks'[t] = [s EXCEPT ![i] = s[i] + 1]
        /\ locks'[t] \in Seq(Nat) /\ DOMAIN locks'[t] = 1 .. n
    BY <1>1, <1>2, <2>1
  <2>3. Holding(t)' = Holding(t) \cup {i}
    BY <1>2, <2>2 DEF Holding
  <2>4. i \in Holding(t) <=> s[i] # 0
    BY <1>2 DEF Holding
  <2>5. locks' \in [Threads -> Seq(Nat)] /\ \A u \in Threads : u # t => locks'[u] = locks[u]
    BY <1>1, <2>1, <2>2
  <2>6. CASE s[i] = 0
    BY <1>4, <2>1, <2>3, <2>4, <2>5, <2>6 DEF LockAgain, Gains
  <2>7. CASE s[i] # 0
    <3>1. Holding(t)' = Holding(t)
      BY <2>3, <2>4, <2>7
    <3> QED BY <1>4, <2>1, <2>5, <2>7, <3>1 DEF LockAgain
  <2> QED BY <2>6, <2>7
<1>5. CASE Unlock(t)
  <2>1. PICK i \in 1 .. n : /\ s[i] > 0
                            /\ locks' = [locks EXCEPT ![t][i] = @ - 1]
                            /\ IF s[i] = 1 THEN UnlockMutex(t) ELSE KeepMutex
    BY <1>2, <1>5 DEF Unlock
  <2>2. /\ locks'[t] = [s EXCEPT ![i] = s[i] - 1]
        /\ s[i] - 1 \in Nat
        /\ locks'[t] \in Seq(Nat) /\ DOMAIN locks'[t] = 1 .. n
    BY <1>1, <1>2, <2>1
  <2>3. Holding(t)' = IF s[i] = 1 THEN Holding(t) \ {i} ELSE Holding(t)
    BY <1>2, <2>1, <2>2 DEF Holding
  <2>4. i \in Holding(t)
    BY <1>2, <2>1 DEF Holding
  <2> QED BY <1>1, <1>5, <2>1, <2>2, <2>3, <2>4 DEF Unlock, Loses
<1>6. CASE Destroy(t)
  <2>1. /\ n > 0 /\ locks' = [locks EXCEPT ![t] = SubSeq(s, 1, n - 1)]
        /\ IF s[n] > 0 THEN UnlockMutex(t) ELSE KeepMutex
    BY <1>1, <1>2, <1>6 DEF Destroy
  <2>2. /\ locks'[t] = SubSeq(s, 1, n - 1)
        /\ DOMAIN locks'[t] = 1 .. n - 1
        /\ \A i \in 1 .. n - 1 : locks'[t][i] = s[i]
        /\ locks'[t] \in Seq(Nat)
    BY <1>1, <1>2, <2>1
  <2>3. Holding(t)' = Holding(t) \ {n}
    BY <1>2, <2>1, <2>2 DEF Holding
  <2>4. n \in Holding(t) <=> s[n] > 0
    BY <1>2, <2>1 DEF Holding
  <2> QED BY <1>1, <1>6, <2>1, <2>2, <2>3, <2>4 DEF Destroy, Loses
<1> QED BY <1>3, <1>4, <1>5, <1>6 DEF LockCall

\* A call on a Lock object keeps the invariant of the Locks.
LEMMA LockCallKeeps ==
    ASSUME LInv, NEW t \in Threads, LockCall(t)
    PROVE  LInv'
<1> USE LockAssumption
<1>1. /\ Running(t) /\ waits' = waits
      /\ \A u \in Threads : u # t => locks'[u] = locks[u]
      /\ locks' \in [Threads -> Seq(Nat)]
  BY LockCallShape DEF LInv
<1>2. /\ \A u \in Threads : u # t => Holding(u)' = Holding(u)
      /\ \A u \in Threads : Running(u)' <=> Running(u)
  BY <1>1 DEF Holding, Running
<1>3. /\ depth \in Nat /\ owner \in Threads \cup {Nobody} /\ locked \in BOOLEAN
      /\ waits \in [Threads -> {"no", "blocked", "woken"}]
  BY DEF LInv, LockTypeOK
<1>4. /\ IsFiniteSet(Holding(t)) /\ Cardinality(Holding(t)) \in Nat
      /\ Cardinality(Holding(t)) = 0 <=> Holding(t) = {}
  BY HoldingFinite DEF LInv
<1>5. /\ \A u \in Threads : owner = u <=> Running(u) /\ Holding(u) # {}
      /\ owner # Nobody => depth = Cardinality(Holding(owner))
      /\ owner = Nobody => depth = 0
      /\ \A u \in Threads : ~ Running(u) => Cardinality(Holding(u)) = 1
  BY DEF LInv, LocksHold, WaitsWithOne
<1>6. CASE LockMutex(t) /\ Gains(t)
  <2>1. /\ owner \in {Nobody, t} /\ owner' = t /\ depth' = depth + 1 /\ locked' = TRUE
    BY <1>6 DEF LockMutex
  <2>2. /\ Holding(t)' # {}
        /\ Cardinality(Holding(t)') = Cardinality(Holding(t)) + 1
    BY <1>4, <1>6, FS_AddElement DEF Gains
  <2>3. depth = Cardinality(Holding(t))
    BY <1>1, <1>4, <1>5, <2>1
  <2>4. LockTypeOK'
    BY <1>1, <1>3, <2>1 DEF LockTypeOK
  <2>5. LocksHold'
    BY <1>1, <1>2, <1>5, <2>1, <2>2, <2>3 DEF LocksHold
  <2>6. WaitsWithOne'
    BY <1>1, <1>2, <1>5 DEF WaitsWithOne
  <2> QED BY <2>4, <2>5, <2>6 DEF LInv
<1>7. CASE UnlockMutex(t) /\ Loses(t)
  <2>1. /\ depth' = depth - 1 /\ locked' = FALSE
        /\ owner' = IF depth = 1 THEN Nobody ELSE owner
    BY <1>7 DEF UnlockMutex
  <2>2. /\ owner = t /\ depth = Cardinality(Holding(t)) /\ depth > 0
    BY <1>1, <1>3, <1>4, <1>5, <1>7 DEF Loses
  <2>3. /\ Cardinality(Holding(t)') = depth - 1
        /\ IsFiniteSet(Holding(t)')
    BY <1>4, <1>7, <2>2, FS_RemoveElement DEF Loses
  <2>4. depth = 1 <=> Holding(t)' = {}
    BY <1>3, <2>2, <2>3, FS_EmptySet
  <2>5. LockTypeOK'
    <3>1. depth' \in Nat
      <4>1. depth \in Nat /\ depth > 0 /\ depth' = depth - 1
        BY <1>3, <2>1, <2>2
      <4> QED BY <4>1
    <3>2. owner' \in Threads \cup {Nobody} /\ locked' \in BOOLEAN
      BY <1>3, <2>1
    <3> QED BY <1>1, <1>3, <3>1, <3>2 DEF LockTypeOK
  <2>6. LocksHold'
    BY <1>1, <1>2, <1>3, <1>5, <2>1, <2>2, <2>3, <2>4 DEF LocksHold
  <2>7. WaitsWithOne'
    BY <1>1, <1>2, <1>5 DEF WaitsWithOne
  <2> QED BY <2>5, <2>6, <2>7 DEF LInv
<1>8. CASE KeepMutex /\ Holding(t)' = Holding(t)
  <2>1. \A u \in Threads : Holding(u)' = Holding(u)
    BY <1>2, <1>8
  <2>2. owner' = owner /\ depth' = depth /\ locked' = locked
    BY <1>8 DEF KeepMutex
  <2>3. LockTypeOK'
    BY <1>1, <1>3, <2>2 DEF LockTypeOK
  <2>4. LocksHold' /\ WaitsWithOne'
    BY <1>2, <1>3, <1>5, <2>1, <2>2 DEF LocksHold, WaitsWithOne
  <2> QED BY <2>3, <2>4 DEF LInv
<1> QED BY <1>6, <1>7, <1>8, LockCallShape DEF LInv

\* At the start no Lock exists, nobody waits and the mutex is free.
LEMMA LInvInit == Init => LInv
<1> SUFFICES ASSUME LockInit PROVE LInv
  BY DEF Init
<1>1. \A t \in Threads : Holding(t) = {}
  BY DEF LockInit, Holding
<1>2. LockTypeOK
  <2>1. << >> \in Seq(Nat)
    OBVIOUS
  <2>2. [t \in Threads |-> << >>] \in [Threads -> Seq(Nat)]
    BY <2>1
  <2>3. waits \in [Threads -> {"no", "blocked", "woken"}]
    BY DEF LockInit
  <2> QED BY <2>2, <2>3 DEF LockInit, LockTypeOK
<1>3. LocksHold /\ WaitsWithOne
  BY <1>1, LockAssumption DEF LockInit, LocksHold, WaitsWithOne, Running
<1> QED BY <1>2, <1>3 DEF LInv

\* Every step keeps the invariant of the Locks, those of a wait included.
LEMMA LInvNext ==
    ASSUME LInv, [Next]_vars
    PROVE  LInv'
<1> USE LockAssumption
<1>1. /\ depth \in Nat /\ owner \in Threads \cup {Nobody} /\ locked \in BOOLEAN
      /\ locks \in [Threads -> Seq(Nat)]
      /\ waits \in [Threads -> {"no", "blocked", "woken"}]
  BY DEF LInv, LockTypeOK
<1>2. /\ \A u \in Threads : owner = u <=> waits[u] = "no" /\ Holding(u) # {}
      /\ owner # Nobody => depth = Cardinality(Holding(owner))
      /\ owner = Nobody => depth = 0
      /\ \A u \in Threads : waits[u] # "no" => Cardinality(Holding(u)) = 1
  BY DEF LInv, LocksHold, WaitsWithOne, Running
<1>3. CASE UNCHANGED lockVars
  BY <1>3 DEF lockVars, LInv, LockTypeOK, LocksHold, WaitsWithOne, Running, Holding
<1>4. ASSUME NEW t \in Threads, LockCall(t) PROVE LInv'
  BY <1>4, LockCallKeeps
\* In the steps of a wait the Lock objects stay as they are.
<1> DEFINE Kept == locks' = locks /\ locked' = locked
<1>h. Kept => \A u \in Threads : Holding(u)' = Holding(u)
  BY DEF Holding
<1>5. ASSUME NEW t \in Threads, Wait(t) PROVE LInv'
  <2>1. /\ waits[t] = "no" /\ owner = t /\ depth = 1 /\ owner' = Nobody /\ depth' = 0
        /\ waits' = [waits EXCEPT ![t] = "blocked"] /\ Kept
    BY <1>5 DEF Wait, Running
  <2>2. /\ Cardinality(Holding(t)) = 1
        /\ \A u \in Threads : Holding(u)' = Holding(u)
    BY <1>2, <1>h, <2>1
  <2>3. LockTypeOK'
    BY <1>1, <2>1 DEF LockTypeOK
  <2>4. LocksHold' /\ WaitsWithOne'
    BY <1>1, <1>2, <2>1, <2>2 DEF LocksHold, WaitsWithOne, Running
  <2> QED BY <2>3, <2>4 DEF LInv
<1>6. ASSUME NEW t \in Threads, Rewait(t) PROVE LInv'
  <2>1. /\ waits[t] # "no" /\ owner = Nobody /\ owner' = t /\ depth' = 1
        /\ waits' = [waits EXCEPT ![t] = "no"] /\ Kept
    BY <1>6 DEF Rewait
  <2>2. /\ Cardinality(Holding(t)) = 1 /\ Holding(t) # {}
        /\ \A u \in Threads : Holding(u)' = Holding(u)
    BY <1>2, <1>h, <2>1, FS_EmptySet
  <2>3. LockTypeOK'
    BY <1>1, <2>1 DEF LockTypeOK
  <2>4. LocksHold' /\ WaitsWithOne'
    BY <1>1, <1>2, <2>1, <2>2 DEF LocksHold, WaitsWithOne, Running
  <2> QED BY <2>3, <2>4 DEF LInv
<1>7. ASSUME UNCHANGED <<owner, depth, locked, locks>>,
             waits' \in [Threads -> {"no", "blocked", "woken"}],
             \A u \in Threads : waits'[u] = "no" <=> waits[u] = "no"
      PROVE  LInv'
  <2>1. \A u \in Threads : Holding(u)' = Holding(u)
    BY <1>7, <1>h
  <2>2. LockTypeOK'
    BY <1>1, <1>7 DEF LockTypeOK
  <2>3. LocksHold' /\ WaitsWithOne'
    BY <1>1, <1>2, <1>7, <2>1 DEF LocksHold, WaitsWithOne, Running
  <2> QED BY <2>2, <2>3 DEF LInv
<1>8. ASSUME NEW t \in Threads, WaitEnds(t) PROVE LInv'
  BY <1>1, <1>7, <1>8 DEF WaitEnds
<1>9. CASE WaiterSignal
  BY <1>1, <1>7, <1>9 DEF WaiterSignal, Blocked
<1>10. CASE WaiterBroadcast
  BY <1>1, <1>7, <1>10 DEF WaiterBroadcast, Blocked
<1>11. CASE UNCHANGED vars
  BY <1>3, <1>11 DEF vars
<1>12. CASE Next
  BY <1>3, <1>4, <1>5, <1>6, <1>8, <1>9, <1>10, <1>12 DEF Next, LockStep, LockCall
<1> QED BY <1>11, <1>12

\* The mutex is held by the thread whose Locks are locked, unless it waits, and
\* as often as it has such Locks, however they are nested.
THEOREM GuardsLocksHold == Spec => []LocksHold
<1>1. LInv => LocksHold
  BY DEF LInv
<1> QED BY <1>1, LInvInit, LInvNext, PTL DEF Spec

-----------------------------------------------------------------------------
(* The pointers                                                            *)

\* No call is about to fill v.
Open(v) == \A t \in Users : half[t] # Idle => half[t].to # v

\* A thread that is in the middle of a call may still use the pointers of the call.
HalfHeld ==
    \A t \in Users : half[t] # Idle =>
       /\ Running(t) /\ half[t].to \in Mine(t)
       /\ half[t].kind \in {"copy", "move"} => half[t].from \in Mine(t) \ {half[t].to}

PInv == PtrTypeOK /\ CountExact /\ HalfHeld

\* What CountExact says of one object.
Exact(o) ==
    /\ o \in exists => count[o] = Cardinality(PtrHolders(o)) + Cardinality(HandHolders(o))
    /\ o \in exists <=> PtrHolders(o) \cup HandHolders(o) # {}

\* The holders of an object are finitely many, and their number is 0 only when
\* there are none.
LEMMA HoldersFinite ==
    ASSUME NEW o \in Objects
    PROVE  /\ IsFiniteSet(PtrHolders(o)) /\ Cardinality(PtrHolders(o)) \in Nat
           /\ Cardinality(PtrHolders(o)) = 0 <=> PtrHolders(o) = {}
           /\ IsFiniteSet(HandHolders(o)) /\ Cardinality(HandHolders(o)) \in Nat
           /\ Cardinality(HandHolders(o)) = 0 <=> HandHolders(o) = {}
<1>1. IsFiniteSet(Users) /\ IsFiniteSet(Ptrs)
  BY PtrAssumption, FS_AddElement DEF Ptrs
<1>2. PtrHolders(o) \in SUBSET Ptrs /\ HandHolders(o) \in SUBSET Users
  BY DEF PtrHolders, HandHolders
<1>3. IsFiniteSet(PtrHolders(o)) /\ IsFiniteSet(HandHolders(o))
  BY <1>1, <1>2, FS_Subset
<1> QED BY <1>3, FS_CardinalityType, FS_EmptySet

\* A pointer that a running thread may use is not being filled by another one.
LEMMA Exclusive ==
    ASSUME LInv, PInv,
           NEW t \in Users, Running(t), NEW v \in Mine(t),
           NEW u \in Users, u # t, half[u] # Idle
    PROVE  half[u].to # v
<1>1. /\ Running(u) /\ half[u].to \in Mine(u)
      /\ t \in Threads /\ u \in Threads /\ Global \notin Users
  BY UsersAssumption, PtrAssumption DEF PInv, HalfHeld
<1>2. CASE v = Global
  <2>1. Holding(t) # {}
    BY <1>1, <1>2 DEF Mine
  <2>2. owner = t
    BY <1>1, <2>1 DEF LInv, LocksHold
  <2>3. half[u].to = Global => owner = u
    BY <1>1 DEF LInv, LocksHold, Mine
  <2> QED BY <1>2, <2>2, <2>3
<1>3. CASE v # Global
  BY <1>1, <1>3 DEF Mine
<1> QED BY <1>2, <1>3

\* An object whose holders, count and life stay as they are remains exact.
LEMMA ExactKept ==
    ASSUME NEW o, Exact(o),
           PtrHolders(o)' = PtrHolders(o), HandHolders(o)' = HandHolders(o),
           count'[o] = count[o], o \in exists' <=> o \in exists
    PROVE  Exact(o)'
BY DEF Exact

\* The first half of a call: the pointer of the call is no holder any more, and
\* the object is deleted if it was the last.
LEMMA DropKeeps ==
    ASSUME LInv, PInv, UNCHANGED lockVars,
           NEW t \in Users, Running(t), NEW c \in Calls,
           c.to \in Mine(t), c.kind \in {"copy", "move"} => c.from \in Mine(t) \ {c.to},
           Drop(t, c)
    PROVE  PInv'
<1> DEFINE v == c.to
<1>1. /\ ptr \in [Ptrs -> Objects \cup {NULL}] /\ count \in [Objects -> Int]
      /\ exists \subseteq Objects /\ hand \in [Users -> Objects \cup {NULL}]
      /\ half \in [Users -> Calls \cup {Idle}] /\ NULL \notin Objects
  BY PtrAssumption DEF PInv, PtrTypeOK
<1>2. /\ half[t] = Idle /\ half' = [half EXCEPT ![t] = c] /\ hand' = hand /\ Deref(v)
  BY DEF Drop
<1>3. v \in Ptrs
  BY DEF Mine, Ptrs
<1>4. c # Idle
  BY DEF Calls, Idle
<1>5. Open(v) /\ \A w : Open(w)' <=> Open(w) /\ w # v
  <2>1. Open(v)
    BY <1>2, Exclusive DEF Open
  <2>2. ASSUME NEW w PROVE Open(w)' <=> Open(w) /\ w # v
    BY <1>1, <1>2, <1>4 DEF Open
  <2> QED BY <2>1, <2>2
<1>6. \A w \in Ptrs : w # v => ptr'[w] = ptr[w]
  BY <1>1, <1>2, <1>3 DEF Deref
<1>7. \A o \in Objects : /\ PtrHolders(o)' = PtrHolders(o) \ {v}
                         /\ HandHolders(o)' = HandHolders(o)
                         /\ v \in PtrHolders(o) <=> ptr[v] = o
  <2> SUFFICES ASSUME NEW o \in Objects
               PROVE  /\ PtrHolders(o)' = PtrHolders(o) \ {v}
                      /\ HandHolders(o)' = HandHolders(o)
                      /\ v \in PtrHolders(o) <=> ptr[v] = o
    OBVIOUS
  <2>1. PtrHolders(o) = {w \in Ptrs : ptr[w] = o /\ Open(w)}
    BY DEF PtrHolders, Open
  <2>2. PtrHolders(o)' = {w \in Ptrs : ptr'[w] = o /\ Open(w)'}
    BY DEF PtrHolders, Open
  <2> QED BY <1>2, <1>3, <1>5, <1>6, <2>1, <2>2 DEF HandHolders
<1>8. ASSUME NEW o \in Objects PROVE Exact(o)'
  <2>1. Exact(o)
    BY DEF PInv, CountExact, Exact
  <2>2. CASE ptr[v] # o
    <3>1. count'[o] = count[o] /\ (o \in exists' <=> o \in exists)
      BY <1>1, <1>2, <1>3, <2>2 DEF Deref
    <3>2. PtrHolders(o)' = PtrHolders(o) /\ HandHolders(o)' = HandHolders(o)
      BY <1>7, <2>2
    <3> QED BY <2>1, <3>1, <3>2, ExactKept
  <2>3. CASE ptr[v] = o
    <3> DEFINE p == Cardinality(PtrHolders(o))  h == Cardinality(HandHolders(o))
    <3>1. /\ v \in PtrHolders(o) /\ p \in Nat /\ h \in Nat /\ p # 0
          /\ h = 0 <=> HandHolders(o) = {}
      BY <1>7, <2>3, HoldersFinite
    <3>2. o \in exists /\ count[o] = p + h
      BY <2>1, <3>1 DEF Exact
    <3>3. /\ Cardinality(PtrHolders(o)') = p - 1 /\ IsFiniteSet(PtrHolders(o)')
          /\ p - 1 = 0 <=> PtrHolders(o)' = {}
      <4>1. PtrHolders(o)' = PtrHolders(o) \ {v} /\ IsFiniteSet(PtrHolders(o))
        BY <1>7, HoldersFinite
      <4>2. Cardinality(PtrHolders(o)') = p - 1 /\ IsFiniteSet(PtrHolders(o)')
        BY <3>1, <4>1, FS_RemoveElement
      <4> QED BY <4>2, FS_EmptySet
    <3>4. HandHolders(o)' = HandHolders(o)
      BY <1>7
    <3>5. count'[o] = p + h - 1 /\ (o \in exists' <=> p + h > 1)
      <4>1. count' = [count EXCEPT ![o] = @ - 1]
        BY <1>1, <1>2, <2>3 DEF Deref
      <4>2. CASE count[o] <= 1
        BY <1>1, <1>2, <2>3, <3>1, <3>2, <4>1, <4>2 DEF Deref
      <4>3. CASE ~ (count[o] <= 1)
        BY <1>1, <1>2, <2>3, <3>1, <3>2, <4>1, <4>3 DEF Deref
      <4> QED BY <4>2, <4>3
    <3>6. p + h > 1 <=> PtrHolders(o)' \cup HandHolders(o) # {}
      BY <3>1, <3>3
    <3> QED BY <3>1, <3>3, <3>4, <3>5, <3>6 DEF Exact
  <2> QED BY <2>2, <2>3
<1>9. PtrTypeOK'
  <2>1. ptr' \in [Ptrs -> Objects \cup {NULL}] /\ exists' \subseteq Objects
    BY <1>1, <1>2 DEF Deref
  <2>2. count' \in [Objects -> Int]
    BY <1>1, <1>2, <1>3 DEF Deref
  <2>3. half' \in [Users -> Calls \cup {Idle}] /\ hand' \in [Users -> Objects \cup {NULL}]
    BY <1>1, <1>2
  <2> QED BY <2>1, <2>2, <2>3 DEF PtrTypeOK
<1>10. HalfHeld'
  <2>1. \A u \in Users : (Running(u)' <=> Running(u)) /\ Mine(u)' = Mine(u)
    BY DEF lockVars, Running, Mine, Holding
  <2>2. \A u \in Users : u # t => half'[u] = half[u]
    BY <1>1, <1>2
  <2>3. half'[t] = c
    BY <1>1, <1>2
  <2> QED BY <2>1, <2>2, <2>3 DEF PInv, HalfHeld
<1> QED BY <1>8, <1>9, <1>10 DEF PInv, CountExact, Exact

\* What is so in the second half of a call of t, with v the pointer it fills: v is
\* no holder, and becomes one of what it is given; no other pointer changes that,
\* unless it is written.
LEMMA FillShape ==
    ASSUME LInv, PInv, NEW t \in Users, Running(t), half[t] # Idle, Fill(t)
    PROVE  /\ half[t].to \in Ptrs /\ half[t].to \in Mine(t)
           /\ ~ Open(half[t].to)
           /\ \A w : Open(w)' <=> Open(w) \/ w = half[t].to
           /\ half[t].kind \in {"copy", "move"} =>
                 half[t].from \in Ptrs /\ half[t].from # half[t].to /\ Open(half[t].from)
<1> DEFINE v == half[t].to
<1>1. /\ half \in [Users -> Calls \cup {Idle}]
      /\ half' = [half EXCEPT ![t] = Idle]
  BY DEF PInv, PtrTypeOK, Fill
<1>2. /\ v \in Mine(t)
      /\ half[t].kind \in {"copy", "move"} => half[t].from \in Mine(t) \ {v}
  BY DEF PInv, HalfHeld
<1>3. \A w \in Mine(t) : w \in Ptrs
  BY DEF Mine, Ptrs
<1>4. \A w \in Mine(t), u \in Users : u # t /\ half[u] # Idle => half[u].to # w
  BY Exclusive
<1>5. ~ Open(v)
  BY DEF Open
<1>6. ASSUME NEW w PROVE Open(w)' <=> Open(w) \/ w = v
  <2>1. Open(w)' <=> \A u \in Users : u # t /\ half[u] # Idle => half[u].to # w
    BY <1>1 DEF Open
  <2>2. CASE w = v
    BY <1>2, <1>4, <2>1, <2>2
  <2>3. CASE w # v
    BY <2>1, <2>3 DEF Open
  <2> QED BY <2>2, <2>3
<1>7. half[t].kind \in {"copy", "move"} => Open(half[t].from)
  BY <1>2, <1>4 DEF Open
<1> QED BY <1>2, <1>3, <1>5, <1>6, <1>7

\* The second half of a call keeps every object exact: v becomes a holder of the
\* object it is given, with a count of its own, or with the one of the thread or
\* of the pointer that gives it up.
LEMMA FillExact ==
    ASSUME LInv, PInv, NEW t \in Users, Running(t), half[t] # Idle, Fill(t),
           NEW o \in Objects
    PROVE  Exact(o)'
<1> DEFINE v == half[t].to  f == half[t].from
<1>1. /\ ptr \in [Ptrs -> Objects \cup {NULL}] /\ count \in [Objects -> Int]
      /\ exists \subseteq Objects /\ hand \in [Users -> Objects \cup {NULL}]
      /\ NULL \notin Objects
  BY PtrAssumption DEF PInv, PtrTypeOK
<1>2. /\ v \in Ptrs /\ ~ Open(v)
      /\ \A w : Open(w)' <=> Open(w) \/ w = v
      /\ half[t].kind \in {"copy", "move"} => f \in Ptrs /\ f # v /\ Open(f)
  BY FillShape
<1>3. /\ PtrHolders(o) = {w \in Ptrs : ptr[w] = o /\ Open(w)}
      /\ PtrHolders(o)' = {w \in Ptrs : ptr'[w] = o /\ (Open(w) \/ w = v)}
  BY <1>2 DEF PtrHolders, Open
<1>4. Exact(o) /\ v \notin PtrHolders(o)
  BY <1>2, <1>3 DEF PInv, CountExact, Exact
<1>5. /\ IsFiniteSet(PtrHolders(o)) /\ Cardinality(PtrHolders(o)) \in Nat
      /\ Cardinality(PtrHolders(o)) = 0 <=> PtrHolders(o) = {}
      /\ IsFiniteSet(HandHolders(o)) /\ Cardinality(HandHolders(o)) \in Nat
      /\ Cardinality(HandHolders(o)) = 0 <=> HandHolders(o) = {}
  BY HoldersFinite
<1> DEFINE p == Cardinality(PtrHolders(o))  h == Cardinality(HandHolders(o))
\* v joins the holders.
<1>6. PtrHolders(o)' = PtrHolders(o) \cup {v} =>
         Cardinality(PtrHolders(o)') = p + 1
  BY <1>4, <1>5, FS_AddElement
<1>7. CASE Clear(t)
  <2>1. ptr' = [ptr EXCEPT ![v] = NULL] /\ count' = count /\ exists' = exists /\ hand' = hand
    BY <1>7 DEF Clear
  <2>2. PtrHolders(o)' = PtrHolders(o)
    BY <1>1, <1>2, <1>3, <2>1
  <2> QED BY <1>4, <2>1, <2>2, ExactKept DEF HandHolders
<1>8. CASE New(t)
  <2>1. PICK n \in Objects \ exists :
           /\ ptr' = [ptr EXCEPT ![v] = n] /\ exists' = exists \cup {n}
           /\ count' = [count EXCEPT ![n] = 1] /\ hand' = hand
    BY <1>8 DEF New
  <2>2. HandHolders(o)' = HandHolders(o)
    BY <2>1 DEF HandHolders
  <2>3. CASE n = o
    <3>1. PtrHolders(o) = {} /\ HandHolders(o) = {}
      BY <1>4, <2>1, <2>3 DEF Exact
    <3>2. PtrHolders(o)' = PtrHolders(o) \cup {v}
      BY <1>1, <1>2, <1>3, <2>1, <2>3
    <3>3. count'[o] = 1 /\ o \in exists'
      BY <1>1, <2>1, <2>3
    <3>4. Cardinality(PtrHolders(o)') = 1 /\ Cardinality(HandHolders(o)') = 0
      BY <1>5, <1>6, <2>2, <3>1, <3>2
    <3> QED BY <3>1, <3>2, <3>3, <3>4 DEF Exact
  <2>4. CASE n # o
    <3>1. PtrHolders(o)' = PtrHolders(o)
      BY <1>1, <1>2, <1>3, <2>1, <2>4
    <3>2. count'[o] = count[o] /\ (o \in exists' <=> o \in exists)
      BY <1>1, <2>1, <2>4
    <3> QED BY <1>4, <2>2, <3>1, <3>2, ExactKept
  <2> QED BY <2>3, <2>4
<1>9. CASE Give(t)
  <2>1. /\ ptr' = [ptr EXCEPT ![v] = hand[t]] /\ hand' = [hand EXCEPT ![t] = NULL]
        /\ count' = count /\ exists' = exists
    BY <1>9 DEF Give
  <2>2. CASE hand[t] = o
    <3>1. /\ HandHolders(o)' = HandHolders(o) \ {t} /\ t \in HandHolders(o)
      BY <1>1, <2>1, <2>2 DEF HandHolders
    <3>2. PtrHolders(o)' = PtrHolders(o) \cup {v}
      BY <1>1, <1>2, <1>3, <2>1, <2>2
    <3>3. Cardinality(HandHolders(o)') = h - 1
      BY <1>5, <3>1, FS_RemoveElement
    <3>4. o \in exists /\ count[o] = p + h
      BY <1>4, <3>1 DEF Exact
    <3>5. Cardinality(PtrHolders(o)') + Cardinality(HandHolders(o)') = p + h
      BY <1>5, <1>6, <3>2, <3>3
    <3> QED BY <2>1, <3>2, <3>4, <3>5 DEF Exact
  <2>3. CASE hand[t] # o
    <3>1. HandHolders(o)' = HandHolders(o)
      BY <1>1, <2>1, <2>3 DEF HandHolders
    <3>2. PtrHolders(o)' = PtrHolders(o)
      BY <1>1, <1>2, <1>3, <2>1, <2>3
    <3> QED BY <1>4, <2>1, <3>1, <3>2, ExactKept
  <2> QED BY <2>2, <2>3
<1>10. CASE Copy(t)
  <2>1. /\ ptr' = [ptr EXCEPT ![v] = ptr[f]] /\ hand' = hand /\ exists' = exists
        /\ count' = IF ptr[f] = NULL THEN count ELSE [count EXCEPT ![ptr[f]] = @ + 1]
    BY <1>10 DEF Copy, Counted
  <2>2. f \in Ptrs /\ f # v /\ Open(f) /\ HandHolders(o)' = HandHolders(o)
    BY <1>2, <1>10, <2>1 DEF Copy, HandHolders
  <2>3. CASE ptr[f] = o
    <3>1. PtrHolders(o)' = PtrHolders(o) \cup {v}
      BY <1>1, <1>2, <1>3, <2>1, <2>3
    <3>2. f \in PtrHolders(o)
      BY <1>3, <2>2, <2>3
    <3>3. o \in exists /\ count[o] = p + h
      BY <1>4, <3>2 DEF Exact
    <3>4. count'[o] = p + h + 1
      BY <1>1, <2>1, <2>3, <3>3
    <3>5. Cardinality(PtrHolders(o)') + Cardinality(HandHolders(o)') = p + h + 1
      BY <1>5, <1>6, <2>2, <3>1
    <3> QED BY <2>1, <3>1, <3>3, <3>4, <3>5 DEF Exact
  <2>4. CASE ptr[f] # o
    <3>1. PtrHolders(o)' = PtrHolders(o)
      BY <1>1, <1>2, <1>3, <2>1, <2>4
    <3>2. count'[o] = count[o]
      BY <1>1, <2>1, <2>4
    <3> QED BY <1>4, <2>1, <2>2, <3>1, <3>2, ExactKept
  <2> QED BY <2>3, <2>4
<1>11. CASE Move(t)
  <2>1. /\ ptr' = [ptr EXCEPT ![v] = ptr[f], ![f] = NULL]
        /\ hand' = hand /\ exists' = exists /\ count' = count
    BY <1>11 DEF Move
  <2>2. f \in Ptrs /\ f # v /\ Open(f) /\ HandHolders(o)' = HandHolders(o)
    BY <1>2, <1>11, <2>1 DEF Move, HandHolders
  <2>3. ptr'[v] = ptr[f] /\ ptr'[f] = NULL /\ \A w \in Ptrs \ {v, f} : ptr'[w] = ptr[w]
    BY <1>1, <1>2, <2>1, <2>2
  <2>4. CASE ptr[f] = o
    <3>1. f \in PtrHolders(o)
      BY <1>3, <2>2, <2>4
    <3>2. PtrHolders(o)' = (PtrHolders(o) \ {f}) \cup {v}
      BY <1>1, <1>2, <1>3, <2>2, <2>3, <2>4
    <3>3. /\ IsFiniteSet(PtrHolders(o) \ {f})
          /\ Cardinality(PtrHolders(o) \ {f}) = p - 1
      BY <1>5, <3>1, FS_RemoveElement
    <3>4. Cardinality(PtrHolders(o)') = p
      <4>1. v \notin PtrHolders(o) \ {f}
        BY <1>4
      <4>2. Cardinality(PtrHolders(o)') = (p - 1) + 1
        BY <3>2, <3>3, <4>1, FS_AddElement
      <4> QED BY <1>5, <4>2
    <3>5. o \in exists /\ count[o] = p + h
      BY <1>4, <3>1 DEF Exact
    <3> QED BY <2>1, <2>2, <3>2, <3>4, <3>5 DEF Exact
  <2>5. CASE ptr[f] # o
    <3>1. PtrHolders(o)' = PtrHolders(o)
      BY <1>1, <1>2, <1>3, <2>2, <2>3, <2>5
    <3> QED BY <1>4, <2>1, <2>2, <3>1, ExactKept
  <2> QED BY <2>4, <2>5
<1> QED BY <1>7, <1>8, <1>9, <1>10, <1>11 DEF Fill

\* The second half of a call keeps the invariant of the pointers.
LEMMA FillKeeps ==
    ASSUME LInv, PInv, UNCHANGED lockVars,
           NEW t \in Users, Running(t), half[t] # Idle, Fill(t)
    PROVE  PInv'
<1> DEFINE v == half[t].to  f == half[t].from
<1>1. /\ ptr \in [Ptrs -> Objects \cup {NULL}] /\ count \in [Objects -> Int]
      /\ exists \subseteq Objects /\ hand \in [Users -> Objects \cup {NULL}]
      /\ half \in [Users -> Calls \cup {Idle}]
  BY DEF PInv, PtrTypeOK
<1>2. v \in Ptrs /\ (half[t].kind \in {"copy", "move"} => f \in Ptrs)
  BY FillShape
<1>3. half' = [half EXCEPT ![t] = Idle]
  BY DEF Fill
<1>4. PtrTypeOK'
  <2>1. half' \in [Users -> Calls \cup {Idle}]
    BY <1>1, <1>3
  <2>2. CASE Clear(t)
    BY <1>1, <1>2, <2>1, <2>2 DEF Clear, PtrTypeOK
  <2>3. CASE New(t)
    BY <1>1, <1>2, <2>1, <2>3 DEF New, PtrTypeOK
  <2>4. CASE Give(t)
    BY <1>1, <1>2, <2>1, <2>4 DEF Give, PtrTypeOK
  <2>5. CASE Copy(t)
    <3>1. /\ ptr' = [ptr EXCEPT ![v] = ptr[f]] /\ hand' = hand /\ exists' = exists
          /\ count' = IF ptr[f] = NULL THEN count ELSE [count EXCEPT ![ptr[f]] = @ + 1]
          /\ f \in Ptrs
      BY <1>2, <2>5 DEF Copy, Counted
    <3>2. count' \in [Objects -> Int]
      BY <1>1, <3>1
    <3> QED BY <1>1, <1>2, <2>1, <3>1, <3>2 DEF PtrTypeOK
  <2>6. CASE Move(t)
    <3>1. /\ ptr' = [ptr EXCEPT ![v] = ptr[f], ![f] = NULL]
          /\ hand' = hand /\ exists' = exists /\ count' = count /\ f \in Ptrs
      BY <1>2, <2>6 DEF Move
    <3> QED BY <1>1, <1>2, <2>1, <3>1 DEF PtrTypeOK
  <2> QED BY <2>2, <2>3, <2>4, <2>5, <2>6 DEF Fill
<1>5. CountExact'
  BY FillExact DEF Exact, CountExact
<1>6. HalfHeld'
  <2>1. \A u \in Users : (Running(u)' <=> Running(u)) /\ Mine(u)' = Mine(u)
    BY DEF lockVars, Running, Mine, Holding
  <2>2. half'[t] = Idle /\ \A u \in Users : u # t => half'[u] = half[u]
    BY <1>1, <1>3
  <2> QED BY <2>1, <2>2 DEF PInv, HalfHeld
<1> QED BY <1>4, <1>5, <1>6 DEF PInv

\* What is _taken stays counted, by the thread in place of the pointer.
LEMMA TakeKeeps ==
    ASSUME LInv, PInv, UNCHANGED lockVars,
           NEW t \in Users, Running(t), NEW v \in Mine(t), ptr[v] # NULL, Take(t, v)
    PROVE  PInv'
<1>1. /\ ptr \in [Ptrs -> Objects \cup {NULL}] /\ hand \in [Users -> Objects \cup {NULL}]
      /\ NULL \notin Objects
  BY PtrAssumption DEF PInv, PtrTypeOK
<1>2. /\ half[t] = Idle /\ hand[t] = NULL
      /\ hand' = [hand EXCEPT ![t] = ptr[v]] /\ ptr' = [ptr EXCEPT ![v] = NULL]
      /\ count' = count /\ exists' = exists /\ half' = half
  BY DEF Take
<1>3. v \in Ptrs
  BY DEF Mine, Ptrs
<1>4. Open(v) /\ \A w : Open(w)' <=> Open(w)
  BY <1>2, Exclusive DEF Open
<1>5. ASSUME NEW o \in Objects PROVE Exact(o)'
  <2>1. /\ PtrHolders(o) = {w \in Ptrs : ptr[w] = o /\ Open(w)}
        /\ PtrHolders(o)' = {w \in Ptrs : ptr'[w] = o /\ Open(w)}
    BY <1>4 DEF PtrHolders, Open
  <2>2. Exact(o)
    BY DEF PInv, CountExact, Exact
  <2>3. CASE ptr[v] = o
    <3> DEFINE p == Cardinality(PtrHolders(o))  h == Cardinality(HandHolders(o))
    <3>1. /\ v \in PtrHolders(o) /\ PtrHolders(o)' = PtrHolders(o) \ {v}
      BY <1>1, <1>2, <1>3, <1>4, <2>1, <2>3
    <3>2. t \notin HandHolders(o) /\ HandHolders(o)' = HandHolders(o) \cup {t}
      BY <1>1, <1>2, <2>3 DEF HandHolders
    <3>3. p \in Nat /\ h \in Nat
          /\ Cardinality(PtrHolders(o)') = p - 1 /\ Cardinality(HandHolders(o)') = h + 1
      <4>1. IsFiniteSet(PtrHolders(o)) /\ IsFiniteSet(HandHolders(o)) /\ p \in Nat /\ h \in Nat
        BY HoldersFinite
      <4>2. Cardinality(PtrHolders(o)') = p - 1
        BY <3>1, <4>1, FS_RemoveElement
      <4>3. Cardinality(HandHolders(o)') = h + 1
        BY <3>2, <4>1, FS_AddElement
      <4> QED BY <4>1, <4>2, <4>3
    <3>4. o \in exists /\ count[o] = p + h
      BY <2>2, <3>1 DEF Exact
    <3>5. Cardinality(PtrHolders(o)') + Cardinality(HandHolders(o)') = p + h
      BY <3>3
    <3> QED BY <1>2, <3>2, <3>4, <3>5 DEF Exact
  <2>4. CASE ptr[v] # o
    <3>1. PtrHolders(o)' = PtrHolders(o) /\ HandHolders(o)' = HandHolders(o)
      BY <1>1, <1>2, <1>3, <2>1, <2>4 DEF HandHolders
    <3> QED BY <1>2, <2>2, <3>1, ExactKept
  <2> QED BY <2>3, <2>4
<1>6. PtrTypeOK'
  BY <1>1, <1>2, <1>3 DEF PInv, PtrTypeOK
<1>7. HalfHeld'
  <2>1. \A u \in Users : (Running(u)' <=> Running(u)) /\ Mine(u)' = Mine(u)
    BY DEF lockVars, Running, Mine, Holding
  <2> QED BY <1>2, <2>1 DEF PInv, HalfHeld
<1> QED BY <1>5, <1>6, <1>7 DEF PInv, CountExact, Exact

\* A step of the Locks leaves the pointers and their holders alone: a thread that
\* is in the middle of a call does no such step and does not wait.
LEMMA LockStepKeeps ==
    ASSUME LInv, PInv, UNCHANGED ptrVars,
           \A u \in Users : half[u] # Idle /\ Running(u) =>
              Running(u)' /\ Holding(u)' = Holding(u)
    PROVE  PInv'
<1>1. PtrTypeOK'
  BY DEF PInv, PtrTypeOK, ptrVars
<1>2. CountExact'
  BY DEF PInv, CountExact, PtrHolders, HandHolders, ptrVars
<1>3. HalfHeld'
  BY DEF PInv, HalfHeld, Mine, ptrVars
<1> QED BY <1>1, <1>2, <1>3 DEF PInv

\* At the start no pointer points anywhere.
LEMMA PInvInit == Init => PInv
<1> SUFFICES ASSUME PtrInit PROVE PInv
  BY DEF Init
<1>1. NULL \notin Objects
  BY PtrAssumption
<1>2. PtrTypeOK
  BY DEF PtrInit, PtrTypeOK
<1>3. \A o \in Objects : PtrHolders(o) = {} /\ HandHolders(o) = {}
  BY <1>1 DEF PtrInit, PtrHolders, HandHolders
<1>4. CountExact
  BY <1>3 DEF PtrInit, CountExact
<1>5. HalfHeld
  BY DEF PtrInit, HalfHeld
<1> QED BY <1>2, <1>4, <1>5 DEF PInv

\* Every step keeps the invariant of the pointers.
LEMMA PInvNext ==
    ASSUME LInv, PInv, [Next]_vars
    PROVE  PInv'
<1>1. Users = Threads
  BY UsersAssumption
<1>2. ASSUME NEW t \in Users, PtrStep(t), UNCHANGED lockVars PROVE PInv'
  <2>1. Running(t) /\ (PtrCall(t) \/ Fill(t))
    BY <1>2 DEF PtrStep
  <2>2. CASE Fill(t)
    <3>1. half[t] # Idle
      BY <2>2 DEF Fill, Clear, New, Give, Copy, Move, Idle
    <3> QED BY <1>2, <2>1, <2>2, <3>1, FillKeeps
  <2>3. CASE PtrCall(t)
    <3>1. \A w \in Mine(t) : w \in Ptrs
      BY DEF Mine, Ptrs
    <3>2. ASSUME NEW v \in Mine(t), NEW k \in {"clear", "new", "give"},
                 Drop(t, [kind |-> k, to |-> v])
          PROVE  PInv'
      <4> DEFINE c == [kind |-> k, to |-> v]
      <4>1. c \in Calls
        BY <3>1 DEF Calls
      <4>2. c.kind \notin {"copy", "move"} /\ c.to = v
        OBVIOUS
      <4> HIDE DEF c
      <4> QED BY <1>2, <2>1, <3>2, <4>1, <4>2, DropKeeps DEF c
    <3>3. ASSUME NEW v \in Mine(t), NEW w \in Mine(t), v # w, NEW k \in {"copy", "move"},
                 Drop(t, [kind |-> k, to |-> v, from |-> w])
          PROVE  PInv'
      <4> DEFINE c == [kind |-> k, to |-> v, from |-> w]
      <4>1. c \in Calls
        BY <3>1 DEF Calls
      <4>2. c.from = w /\ c.to = v
        OBVIOUS
      <4>3. Drop(t, c)
        BY <3>3
      <4> HIDE DEF c
      <4> QED BY <1>2, <2>1, <3>3, <4>1, <4>2, <4>3, DropKeeps
    <3>4. ASSUME NEW v \in Mine(t), ptr[v] # NULL, Take(t, v) PROVE PInv'
      BY <1>2, <2>1, <3>4, TakeKeeps
    <3> QED BY <2>3, <3>2, <3>3, <3>4 DEF PtrCall
  <2> QED BY <2>1, <2>2, <2>3
\* The steps of the Locks.
<1> DEFINE Calm == \A u \in Users : half[u] # Idle /\ Running(u) =>
                      Running(u)' /\ Holding(u)' = Holding(u)
<1>3. ASSUME UNCHANGED ptrVars, Calm PROVE PInv'
  BY <1>3, LockStepKeeps
<1>4. ASSUME NEW t \in Threads, half[t] = Idle, LockStep(t), UNCHANGED ptrVars PROVE PInv'
  <2>1. ASSUME LockCall(t) PROVE Calm
    BY <1>1, <1>4, <2>1, LockCallShape DEF LInv, Running, Holding
  <2>2. ASSUME Wait(t) \/ Rewait(t) PROVE Calm
    BY <1>1, <1>4, <2>2 DEF LInv, LockTypeOK, Wait, Rewait, Running, Holding
  <2> QED BY <1>3, <1>4, <2>1, <2>2 DEF LockStep, LockCall
<1>5. ASSUME NEW t \in Threads, WaitEnds(t), UNCHANGED ptrVars PROVE PInv'
  <2>1. Calm
    BY <1>1, <1>5 DEF LInv, LockTypeOK, WaitEnds, Running, Holding
  <2> QED BY <1>3, <1>5, <2>1
<1>6. ASSUME WaiterSignal \/ WaiterBroadcast, UNCHANGED ptrVars PROVE PInv'
  <2>1. Calm
    BY <1>1, <1>6 DEF LInv, LockTypeOK, WaiterSignal, WaiterBroadcast, Blocked, Running, Holding
  <2> QED BY <1>3, <1>6, <2>1
<1>7. CASE UNCHANGED vars
  <2>1. UNCHANGED ptrVars /\ Calm
    BY <1>7 DEF vars, lockVars, Running, Holding
  <2> QED BY <1>3, <2>1
<1>8. CASE Next
  BY <1>1, <1>2, <1>4, <1>5, <1>6, <1>8 DEF Next
<1> QED BY <1>7, <1>8

\* The count of an object is the number of its holders and the object lives while
\* it has one, with any number of threads between the halves of their calls.
THEOREM GuardsCountExact == Spec => []CountExact
<1>1. PInv => CountExact
  BY DEF PInv
<1>2. Spec => []LInv
  BY LInvInit, LInvNext, PTL DEF Spec
<1> QED BY <1>1, <1>2, LInvNext, PInvInit, PInvNext, LInvInit, PTL DEF Spec

\* No call on a Lock or a pointer leaves a value its type does not allow.
THEOREM GuardsTypes == Spec => []TypeOK
<1>1. LInv /\ PInv => TypeOK
  BY DEF LInv, PInv, TypeOK
<1> QED BY <1>1, LInvNext, PInvInit, PInvNext, LInvInit, PTL DEF Spec
=============================================================================
