------------------------- MODULE SlingerPool_proofs -------------------------
(***************************************************************************)
(* The statistics of thread_slinger_pool are right, and its buffers are    *)
(* handed out once, for every number of threads, pools and buffers.        *)
(***************************************************************************)
EXTENDS MessageRefs, FiniteSetTheorems, TLAPS

\* What a thread's position says of its locals.
Shape == \A t \in Threads :
    /\ pc[t] # "idle" => pool[t] \in Pools
    /\ pc[t] \in {"countFree", "init"} <=> buf[t] # Null

\* Only buffers that new has returned are anywhere; the others belong nowhere.
OnlyBorn ==
    /\ \A p \in Pools, b \in Buffers : InFree(p, b) => b \in born
    /\ held \subseteq born
    /\ \A t \in Threads : buf[t] # Null => buf[t] \in born
    /\ \A b \in Buffers \ born : home[b] = Null

-----------------------------------------------------------------------------
(* Sets of threads and of buffers                                          *)

\* Sets of threads and of buffers have a cardinality.
LEMMA FiniteSubsets ==
    /\ \A P \in SUBSET Threads : IsFiniteSet(P) /\ Cardinality(P) \in Nat
    /\ \A P \in SUBSET Buffers : IsFiniteSet(P) /\ Cardinality(P) \in Nat
BY PoolAssumption, FS_Subset, FS_CardinalityType

\* A new member makes a set one larger.
LEMMA AddOne ==
    ASSUME NEW S, IsFiniteSet(S), NEW x, x \notin S
    PROVE  Cardinality(S \cup {x}) = Cardinality(S) + 1
BY FS_AddElement

\* Without one of its members a set is one smaller.
LEMMA RemoveOne ==
    ASSUME NEW S, IsFiniteSet(S), NEW x \in S
    PROVE  Cardinality(S \ {x}) = Cardinality(S) - 1
BY FS_RemoveElement

\* The free list after enqueue_head and after dequeue.
LEMMA PushHead ==
    ASSUME NEW s \in Seq(Buffers), NEW b \in Buffers, NEW r, r = <<b>> \o s
    PROVE  /\ r \in Seq(Buffers) /\ Len(r) = Len(s) + 1
           /\ \A i \in 1 .. Len(r) : r[i] = b \/ \E k \in 1 .. Len(s) : r[i] = s[k]
           /\ (/\ \A i, j \in 1 .. Len(s) : s[i] = s[j] => i = j
               /\ \A i \in 1 .. Len(s) : s[i] # b)
              => \A i, j \in 1 .. Len(r) : r[i] = r[j] => i = j
<1>1. r \in Seq(Buffers) /\ Len(r) = Len(s) + 1 /\ r[1] = b
      /\ \A i \in 2 .. Len(r) : r[i] = s[i - 1]
  OBVIOUS
<1>2. \A i \in 1 .. Len(r) : i = 1 \/ (i \in 2 .. Len(r) /\ i - 1 \in 1 .. Len(s))
  BY <1>1
<1>3. ASSUME \A i, j \in 1 .. Len(s) : s[i] = s[j] => i = j,
             \A i \in 1 .. Len(s) : s[i] # b,
             NEW i \in 1 .. Len(r), NEW j \in 1 .. Len(r), r[i] = r[j]
      PROVE  i = j
  <2>1. CASE i = 1 /\ j = 1
    BY <2>1
  <2>2. CASE i # 1 /\ j # 1
    <3>1. s[i - 1] = s[j - 1] /\ i - 1 \in 1 .. Len(s) /\ j - 1 \in 1 .. Len(s)
      BY <1>1, <1>2, <1>3, <2>2
    <3>2. i - 1 = j - 1
      BY <1>3, <3>1
    <3> QED BY <3>2
  <2>3. CASE i = 1 /\ j # 1
    BY <1>1, <1>2, <1>3, <2>3
  <2>4. CASE i # 1 /\ j = 1
    BY <1>1, <1>2, <1>3, <2>4
  <2> QED BY <2>1, <2>2, <2>3, <2>4
<1>4. \A i \in 1 .. Len(r) : r[i] = b \/ \E k \in 1 .. Len(s) : r[i] = s[k]
  BY <1>1, <1>2
<1> QED BY <1>1, <1>3, <1>4

\* The free list after a dequeue: the first buffer is gone, the rest is
\* what it was.
LEMMA PopHead ==
    ASSUME NEW s \in Seq(Buffers), s # <<>>, NEW r, r = Tail(s), NEW b, b = Head(s)
    PROVE  /\ r \in Seq(Buffers) /\ Len(r) = Len(s) - 1 /\ b \in Buffers
           /\ \E k \in 1 .. Len(s) : b = s[k]
           /\ \A i \in 1 .. Len(r) : \E k \in 1 .. Len(s) : r[i] = s[k]
           /\ (\A i, j \in 1 .. Len(s) : s[i] = s[j] => i = j) =>
                /\ \A i, j \in 1 .. Len(r) : r[i] = r[j] => i = j
                /\ \A i \in 1 .. Len(r) : r[i] # b
<1>1. /\ r \in Seq(Buffers) /\ Len(r) = Len(s) - 1 /\ b = s[1] /\ Len(s) \in Nat
      /\ 1 \in 1 .. Len(s) /\ s[1] \in Buffers
      /\ \A i \in 1 .. Len(r) : r[i] = s[i + 1]
  OBVIOUS
<1>2. \A i \in 1 .. Len(r) : i + 1 \in 1 .. Len(s) /\ i + 1 # 1
  BY <1>1
<1> QED BY <1>1, <1>2

-----------------------------------------------------------------------------
(* Types                                                                   *)

TInv == TypeOK /\ Shape

\* Pools start empty and no thread is in a call.
LEMMA TInvInit == Init => TInv
<1> SUFFICES ASSUME Init PROVE TInv
  OBVIOUS
<1>1. free \in [Pools -> Seq(Buffers)]
  BY DEF Init
<1>2. usedCount \in [Pools -> Int] /\ freeCount \in [Pools -> Int]
  BY DEF Init
<1>3. notnull \in [Threads -> BOOLEAN]
  BY DEF Init
<1>4. Shape
  BY DEF Init, Shape
<1> QED BY <1>1, <1>2, <1>3, <1>4 DEF Init, TInv, TypeOK, PCs

\* Every half of a call keeps the types and the shape of the calls.
LEMMA TInvNext ==
    ASSUME TInv, [Next]_vars
    PROVE  TInv'
<1> USE PoolAssumption
<1>0. CASE UNCHANGED vars
  BY <1>0 DEF vars, TInv, TypeOK, Shape
<1> SUFFICES ASSUME NEW t \in Threads, Step(t)
             PROVE  TInv'
  BY <1>0 DEF Next
<1>t. TypeOK /\ Shape
  BY DEF TInv
<1>1. ASSUME NEW p \in Pools, AllocTake(t, p) PROVE TInv'
  <2>1. free[p] \in Seq(Buffers) /\ free[p] # <<>>
    BY <1>1, <1>t DEF AllocTake, TypeOK
  <2>2. Head(free[p]) \in Buffers /\ Tail(free[p]) \in Seq(Buffers)
    BY <2>1
  <2>3. free' \in [Pools -> Seq(Buffers)] /\ buf' \in [Threads -> Buffers \cup {Null}]
    BY <1>1, <1>t, <2>2 DEF AllocTake, TypeOK
  <2>4. Shape'
    BY <1>1, <1>t, <2>2 DEF AllocTake, TypeOK, Shape
  <2> QED BY <1>1, <1>t, <2>3, <2>4 DEF AllocTake, TInv, TypeOK, PCs
<1>2. ASSUME NEW p \in Pools, AllocGrow(t, p) PROVE TInv'
  <2>1. PICK b \in Buffers \ born : born' = born \cup {b} /\ buf' = [buf EXCEPT ![t] = b]
    BY <1>2 DEF AllocGrow
  <2> QED BY <1>2, <1>t, <2>1 DEF AllocGrow, TInv, TypeOK, Shape, PCs
<1>3. ASSUME NEW p \in Pools, Release(t, p) PROVE TInv'
  <2>1. PICK b \in held : /\ free' = [free EXCEPT ![p] = <<b>> \o @]
                          /\ held' = held \ {b}
                          /\ notnull' = [notnull EXCEPT ![t] = home[b] # Null]
    BY <1>3 DEF Release
  <2>2. <<b>> \o free[p] \in Seq(Buffers)
    BY <1>t DEF TypeOK
  <2>3. free' \in [Pools -> Seq(Buffers)]
    BY <1>t, <2>1, <2>2 DEF TypeOK
  <2>4. notnull' \in [Threads -> BOOLEAN]
    BY <1>t, <2>1, Zenon DEF TypeOK
  <2>5. pool' \in [Threads -> Pools \cup {Null}] /\ pc' \in [Threads -> PCs] /\ Shape'
    BY <1>3, <1>t DEF Release, TypeOK, Shape, PCs
  <2> QED BY <1>3, <1>t, <2>1, <2>3, <2>4, <2>5 DEF Release, TInv, TypeOK
<1>4. ASSUME NEW p \in Pools, Add(t, p) PROVE TInv'
  <2>1. PICK b \in Buffers \ born :
          born' = born \cup {b} /\ free' = [free EXCEPT ![p] = <<b>> \o @]
    BY <1>4 DEF Add
  <2>2. <<b>> \o free[p] \in Seq(Buffers)
    BY <1>t DEF TypeOK
  <2>3. free' \in [Pools -> Seq(Buffers)]
    BY <1>t, <2>1, <2>2 DEF TypeOK
  <2> QED BY <1>4, <1>t, <2>1, <2>3 DEF Add, TInv, TypeOK, Shape, PCs
<1>5. CASE AllocCountFree(t)
  BY <1>5, <1>t DEF AllocCountFree, TInv, TypeOK, Shape, PCs
<1>6. CASE AllocInit(t)
  <2>1. buf[t] \in Buffers /\ pool[t] \in Pools
    BY <1>6, <1>t DEF AllocInit, TypeOK, Shape
  <2> QED BY <1>6, <1>t, <2>1 DEF AllocInit, TInv, TypeOK, Shape, PCs
<1>7. CASE ReleaseCount(t)
  <2>1. pool[t] \in Pools
    BY <1>7, <1>t DEF ReleaseCount, Shape
  <2>2. usedCount' \in [Pools -> Int] /\ freeCount' \in [Pools -> Int]
    BY <1>7, <1>t, <2>1 DEF ReleaseCount, TypeOK
  <2> QED BY <1>7, <1>t, <2>2 DEF ReleaseCount, TInv, TypeOK, Shape, PCs
<1> QED BY <1>1, <1>2, <1>3, <1>4, <1>5, <1>6, <1>7 DEF Step

\* The pools are well typed at every step: alloc never returns through a NULL
\* buffer, and every counter is an integer of some pool.
THEOREM PoolTypes == Spec => []TypeOK
<1>1. TInv => TypeOK
  BY DEF TInv
<1> QED BY <1>1, TInvInit, TInvNext, PTL DEF Spec

-----------------------------------------------------------------------------
(* freeCount                                                               *)

FInv == TInv /\ FreeCountConserved

\* An empty free list has a freeCount of 0.
LEMMA FInvInit == Init => FInv
<1> SUFFICES ASSUME Init, NEW p \in Pools
             PROVE  freeCount[p] + Cardinality(ReleasedUncounted(p))
                      = Len(free[p]) + Cardinality(TakenUncounted(p))
  BY TInvInit DEF FInv, FreeCountConserved
<1>1. ReleasedUncounted(p) = {} /\ TakenUncounted(p) = {}
  BY DEF Init, ReleasedUncounted, TakenUncounted
<1>2. freeCount[p] = 0 /\ Len(free[p]) = 0
  BY DEF Init
<1> QED BY <1>1, <1>2, FS_EmptySet

\* A list and its freeCount differ by the calls between the two, whoever
\* runs next.
LEMMA FInvNext ==
    ASSUME FInv, [Next]_vars
    PROVE  FInv'
<1>t. TInv /\ TInv' /\ FreeCountConserved
  BY TInvNext DEF FInv
<1>0. CASE UNCHANGED vars
  BY <1>0, <1>t DEF vars, FInv, FreeCountConserved, ReleasedUncounted, TakenUncounted
<1> SUFFICES ASSUME NEW t \in Threads, Step(t), NEW p \in Pools
             PROVE  freeCount'[p] + Cardinality(ReleasedUncounted(p)')
                      = Len(free'[p]) + Cardinality(TakenUncounted(p)')
  BY <1>0, <1>t DEF Next, FInv, FreeCountConserved
<1> DEFINE R == ReleasedUncounted(p)
           T == TakenUncounted(p)
<1>c. /\ freeCount[p] + Cardinality(R) = Len(free[p]) + Cardinality(T)
      /\ IsFiniteSet(R) /\ Cardinality(R) \in Nat
      /\ IsFiniteSet(T) /\ Cardinality(T) \in Nat
      /\ freeCount[p] \in Int /\ Len(free[p]) \in Nat /\ free[p] \in Seq(Buffers)
  <2>1. R \in SUBSET Threads /\ T \in SUBSET Threads
    BY DEF ReleasedUncounted, TakenUncounted
  <2> QED BY <1>t, <2>1, FiniteSubsets DEF FreeCountConserved, TInv, TypeOK
<1>d. /\ pc \in [Threads -> PCs] /\ pool \in [Threads -> Pools \cup {Null}]
      /\ free \in [Pools -> Seq(Buffers)] /\ freeCount \in [Pools -> Int]
  BY <1>t DEF TInv, TypeOK
<1>1. ASSUME NEW q \in Pools, AllocTake(t, q)
      PROVE  freeCount'[p] + Cardinality(R') = Len(free'[p]) + Cardinality(T')
  <2>1. R' = R /\ t \notin T
    BY <1>1, <1>d DEF AllocTake, ReleasedUncounted, TakenUncounted
  <2>2. T' = IF p = q THEN T \cup {t} ELSE T
    BY <1>1, <1>d DEF AllocTake, TakenUncounted
  <2>3. Cardinality(T') = IF p = q THEN Cardinality(T) + 1 ELSE Cardinality(T)
    BY <1>c, <2>1, <2>2, AddOne
  <2>4. Len(free'[p]) = IF p = q THEN Len(free[p]) - 1 ELSE Len(free[p])
    <3>1. CASE p = q
      BY <1>1, <1>c, <1>d, <3>1, PopHead DEF AllocTake
    <3>2. CASE p # q
      BY <1>1, <1>d, <3>2 DEF AllocTake
    <3> QED BY <3>1, <3>2
  <2>5. freeCount' = freeCount
    BY <1>1 DEF AllocTake
  <2> QED BY <1>c, <2>1, <2>3, <2>4, <2>5
<1>2. ASSUME NEW q \in Pools, AllocGrow(t, q)
      PROVE  freeCount'[p] + Cardinality(R') = Len(free'[p]) + Cardinality(T')
  <2>1. R' = R /\ T' = T /\ freeCount' = freeCount /\ free' = free
    BY <1>2, <1>d DEF AllocGrow, ReleasedUncounted, TakenUncounted
  <2> QED BY <1>c, <2>1
<1>3. ASSUME NEW q \in Pools, Release(t, q) \/ Add(t, q)
      PROVE  freeCount'[p] + Cardinality(R') = Len(free'[p]) + Cardinality(T')
  <2>1. T' = T /\ t \notin R /\ freeCount' = freeCount
    BY <1>3, <1>d DEF Release, Add, ReleasedUncounted, TakenUncounted
  <2>2. R' = IF p = q THEN R \cup {t} ELSE R
    BY <1>3, <1>d DEF Release, Add, ReleasedUncounted
  <2>3. Cardinality(R') = IF p = q THEN Cardinality(R) + 1 ELSE Cardinality(R)
    BY <1>c, <2>1, <2>2, AddOne
  <2>4. PICK b \in Buffers : free' = [free EXCEPT ![q] = <<b>> \o @]
    BY <1>3, <1>t DEF Release, Add, TInv, TypeOK
  <2>5. Len(free'[p]) = IF p = q THEN Len(free[p]) + 1 ELSE Len(free[p])
    <3>1. CASE p = q
      <4>1. free'[p] = <<b>> \o free[p]
        BY <1>d, <2>4, <3>1
      <4> QED BY <1>c, <3>1, <4>1, PushHead
    <3>2. CASE p # q
      BY <1>d, <2>4, <3>2
    <3> QED BY <3>1, <3>2
  <2> QED BY <1>c, <2>1, <2>3, <2>5, SMTT(20)
<1>4. CASE AllocCountFree(t)
  <2>1. R' = R /\ free' = free /\ (t \in T <=> pool[t] = p)
    BY <1>4, <1>d DEF AllocCountFree, ReleasedUncounted, TakenUncounted
  <2>2. T' = T \ {t}
    BY <1>4, <1>d DEF AllocCountFree, TakenUncounted
  <2>3. CASE pool[t] = p
    <3>1. Cardinality(T') = Cardinality(T) - 1
      BY <1>c, <2>1, <2>2, <2>3, RemoveOne
    <3>2. freeCount'[p] = freeCount[p] - 1
      BY <1>4, <1>d, <2>3 DEF AllocCountFree
    <3> QED BY <1>c, <2>1, <3>1, <3>2
  <2>4. CASE pool[t] # p
    <3>1. T' = T
      BY <2>1, <2>2, <2>4
    <3>2. freeCount'[p] = freeCount[p]
      BY <1>4, <1>d, <2>4 DEF AllocCountFree
    <3> QED BY <1>c, <2>1, <3>1, <3>2
  <2> QED BY <2>3, <2>4
<1>5. CASE AllocInit(t)
  <2>1. R' = R /\ T' = T /\ freeCount' = freeCount /\ free' = free
    BY <1>5, <1>d DEF AllocInit, ReleasedUncounted, TakenUncounted
  <2> QED BY <1>c, <2>1
<1>6. CASE ReleaseCount(t)
  <2>1. T' = T /\ free' = free /\ (t \in R <=> pool[t] = p)
    BY <1>6, <1>d DEF ReleaseCount, ReleasedUncounted, TakenUncounted
  <2>2. R' = R \ {t}
    BY <1>6, <1>d DEF ReleaseCount, ReleasedUncounted
  <2>3. CASE pool[t] = p
    <3>1. Cardinality(R') = Cardinality(R) - 1
      BY <1>c, <2>1, <2>2, <2>3, RemoveOne
    <3>2. freeCount'[p] = freeCount[p] + 1
      BY <1>6, <1>d, <2>3 DEF ReleaseCount
    <3> QED BY <1>c, <2>1, <3>1, <3>2, SMTT(20)
  <2>4. CASE pool[t] # p
    <3>1. R' = R
      BY <2>1, <2>2, <2>4
    <3>2. freeCount'[p] = freeCount[p]
      BY <1>6, <1>d, <2>4 DEF ReleaseCount
    <3> QED BY <1>c, <2>1, <3>1, <3>2
  <2> QED BY <2>3, <2>4
<1> QED BY <1>1, <1>2, <1>3, <1>4, <1>5, <1>6 DEF Step

\* Whatever the interleaving of list operations and counting, freeCount is the
\* length of the free list but for the calls that are between the two.
THEOREM PoolFreeCount == Spec => []FreeCountConserved
<1>1. FInv => FreeCountConserved
  BY DEF FInv
<1> QED BY <1>1, FInvInit, FInvNext, PTL DEF Spec

-----------------------------------------------------------------------------
(* Where the buffers are                                                   *)

LInv == TInv /\ OnlyBorn /\ OnePlace /\ RestsAtHome

\* At the start no buffer exists, so none is in two places.
LEMMA LInvInit == Init => LInv
<1> SUFFICES ASSUME Init PROVE OnlyBorn /\ OnePlace /\ RestsAtHome
  BY TInvInit DEF LInv
<1>1. \A p \in Pools, b \in Buffers : ~ InFree(p, b)
  BY DEF Init, InFree
<1> QED BY <1>1 DEF Init, OnlyBorn, OnePlace, RestsAtHome

\* A dequeue from q: x leaves q's list and nothing else moves.
LEMMA TakeMoves ==
    ASSUME LInv, NEW q \in Pools, free[q] # <<>>, free' = [free EXCEPT ![q] = Tail(@)]
    PROVE  /\ Head(free[q]) \in Buffers
           /\ InFree(q, Head(free[q]))
           /\ \A p \in Pools, c \in Buffers :
                InFree(p, c)' <=> InFree(p, c) /\ c # Head(free[q])
           /\ \A p \in Pools : \A i, j \in 1 .. Len(free'[p]) :
                free'[p][i] = free'[p][j] => i = j
<1>1. free \in [Pools -> Seq(Buffers)] /\ free[q] \in Seq(Buffers)
  BY DEF LInv, TInv, TypeOK
<1>2. PICK b : b = Head(free[q])
  OBVIOUS
<1>3. free'[q] = Tail(free[q]) /\ \A p \in Pools : p # q => free'[p] = free[p]
  BY <1>1
<1>4. \A p \in Pools : \A i, j \in 1 .. Len(free[p]) : free[p][i] = free[p][j] => i = j
  BY DEF LInv, OnePlace
<1>5. /\ b \in Buffers
      /\ \E k \in 1 .. Len(free[q]) : b = free[q][k]
      /\ \A i \in 1 .. Len(free'[q]) : \E k \in 1 .. Len(free[q]) : free'[q][i] = free[q][k]
      /\ \A i, j \in 1 .. Len(free'[q]) : free'[q][i] = free'[q][j] => i = j
      /\ \A i \in 1 .. Len(free'[q]) : free'[q][i] # b
  BY <1>1, <1>2, <1>3, <1>4, PopHead
<1>6. \A p \in Pools : \A i, j \in 1 .. Len(free'[p]) : free'[p][i] = free'[p][j] => i = j
  BY <1>3, <1>4, <1>5
<1>7. InFree(q, b)
  BY <1>5 DEF InFree
<1>8. ASSUME NEW p \in Pools, NEW c \in Buffers
      PROVE  InFree(p, c)' <=> InFree(p, c) /\ c # b
  <2>1. CASE p # q
    <3>1. InFree(p, c)' <=> InFree(p, c)
      BY <1>3, <2>1 DEF InFree
    <3>2. InFree(p, c) => c # b
      BY <1>5, <1>7, <2>1 DEF LInv, OnePlace
    <3> QED BY <3>1, <3>2
  <2>2. CASE p = q
    <3>1. InFree(q, c)' => InFree(q, c) /\ c # b
      BY <1>5, ZenonT(30) DEF InFree
    <3>2. ASSUME InFree(q, c), c # b PROVE InFree(q, c)'
      <4>1. PICK k \in 1 .. Len(free[q]) : free[q][k] = c
        BY <3>2 DEF InFree
      <4>2. k # 1
        BY <1>1, <1>2, <3>2, <4>1
      <4>3. k - 1 \in 1 .. Len(free'[q]) /\ free'[q][k - 1] = c
        BY <1>1, <1>3, <4>1, <4>2
      <4> QED BY <4>3 DEF InFree
    <3> QED BY <2>2, <3>1, <3>2
  <2> QED BY <2>1, <2>2
<1> QED BY <1>2, <1>5, <1>6, <1>7, <1>8

\* An enqueue_head of b, which was on no list, into q.
LEMMA PushMoves ==
    ASSUME LInv, NEW q \in Pools, NEW b \in Buffers,
           \A p \in Pools : ~ InFree(p, b),
           free' = [free EXCEPT ![q] = <<b>> \o @]
    PROVE  /\ \A p \in Pools, c \in Buffers :
                InFree(p, c)' <=> InFree(p, c) \/ (p = q /\ c = b)
           /\ \A p \in Pools : \A i, j \in 1 .. Len(free'[p]) :
                free'[p][i] = free'[p][j] => i = j
<1>1. free \in [Pools -> Seq(Buffers)] /\ free[q] \in Seq(Buffers)
  BY DEF LInv, TInv, TypeOK
<1>3. free'[q] = <<b>> \o free[q] /\ \A p \in Pools : p # q => free'[p] = free[p]
  BY <1>1
<1>4. \A p \in Pools : \A i, j \in 1 .. Len(free[p]) : free[p][i] = free[p][j] => i = j
  BY DEF LInv, OnePlace
<1>5. \A i \in 1 .. Len(free[q]) : free[q][i] # b
  BY DEF InFree
<1>6. /\ \A i \in 1 .. Len(free'[q]) :
            free'[q][i] = b \/ \E k \in 1 .. Len(free[q]) : free'[q][i] = free[q][k]
      /\ \A i, j \in 1 .. Len(free'[q]) : free'[q][i] = free'[q][j] => i = j
  <2>1. PICK s \in Seq(Buffers) : s = free[q]
    BY <1>1
  <2>2. PICK r : r = free'[q]
    OBVIOUS
  <2>3. \A i, j \in 1 .. Len(s) : s[i] = s[j] => i = j
    BY <1>4, <2>1
  <2>4. r = <<b>> \o s /\ \A i \in 1 .. Len(s) : s[i] # b
    BY <1>3, <1>5, <2>1, <2>2
  <2>5. /\ \A i \in 1 .. Len(r) : r[i] = b \/ \E k \in 1 .. Len(s) : r[i] = s[k]
        /\ \A i, j \in 1 .. Len(r) : r[i] = r[j] => i = j
    BY <2>3, <2>4, PushHead
  <2> QED BY <2>1, <2>2, <2>5
<1>7. \A p \in Pools : \A i, j \in 1 .. Len(free'[p]) : free'[p][i] = free'[p][j] => i = j
  BY <1>3, <1>4, <1>6
<1>8. ASSUME NEW p \in Pools, NEW c \in Buffers
      PROVE  InFree(p, c)' <=> InFree(p, c) \/ (p = q /\ c = b)
  <2>1. CASE p # q
    BY <1>3, <2>1 DEF InFree
  <2>2. CASE p = q
    <3>1. InFree(q, c)' => InFree(q, c) \/ c = b
      BY <1>6 DEF InFree
    <3>2. ASSUME InFree(q, c) PROVE InFree(q, c)'
      <4>1. PICK k \in 1 .. Len(free[q]) : free[q][k] = c
        BY <3>2 DEF InFree
      <4>2. k + 1 \in 1 .. Len(free'[q]) /\ free'[q][k + 1] = c
        BY <1>1, <1>3, <4>1
      <4> QED BY <4>2 DEF InFree
    <3>3. InFree(q, b)'
      <4>1. 1 \in 1 .. Len(free'[q]) /\ free'[q][1] = b
        BY <1>1, <1>3
      <4> QED BY <4>1 DEF InFree
    <3> QED BY <2>2, <3>1, <3>2, <3>3
  <2> QED BY <2>1, <2>2
<1> QED BY <1>7, <1>8

\* The list-independent part of LInv, in a form whose bound variables are
\* constants, so that it can be read in the next state.
LEMMA LInvParts ==
    ASSUME OnlyBorn, OnePlace, RestsAtHome
    PROVE  /\ \A p, q \in Pools, b \in Buffers : InFree(p, b) /\ InFree(q, b) => p = q
           /\ \A p \in Pools, b \in Buffers : InFree(p, b) =>
                b \in born /\ b \notin held /\ home[b] \in {Null, p}
           /\ \A t \in Threads, p \in Pools, b \in Buffers :
                buf[t] = b /\ b # Null => ~ InFree(p, b)
BY DEF OnlyBorn, OnePlace, RestsAtHome

\* Every half of a call moves at most one buffer, and to one place.
LEMMA LInvNext ==
    ASSUME LInv, [Next]_vars
    PROVE  LInv'
<1> USE PoolAssumption
<1>t. TInv /\ TInv' /\ OnlyBorn /\ OnePlace /\ RestsAtHome
  BY TInvNext DEF LInv
<1>p. /\ \A p, q \in Pools, b \in Buffers : InFree(p, b) /\ InFree(q, b) => p = q
      /\ \A p \in Pools, b \in Buffers : InFree(p, b) =>
           b \in born /\ b \notin held /\ home[b] \in {Null, p}
      /\ \A t \in Threads, p \in Pools, b \in Buffers :
           buf[t] = b /\ b # Null => ~ InFree(p, b)
  BY <1>t, LInvParts
<1>b. /\ \A s, t \in Threads : buf[s] = buf[t] /\ buf[s] # Null => s = t
      /\ \A t \in Threads : buf[t] # Null => buf[t] \notin held /\ buf[t] \in born
      /\ held \subseteq born
      /\ \A b \in Buffers \ born : home[b] = Null
  BY <1>t DEF OnePlace, OnlyBorn
<1>d. /\ buf \in [Threads -> Buffers \cup {Null}] /\ home \in [Buffers -> Pools \cup {Null}]
      /\ buf' \in [Threads -> Buffers \cup {Null}]
      /\ born \subseteq Buffers /\ held \subseteq Buffers
  BY <1>t DEF TInv, TypeOK
\* What has to be shown, with constants in place of primed arguments.
<1>g. ASSUME \A p \in Pools : \A i, j \in 1 .. Len(free'[p]) : free'[p][i] = free'[p][j] => i = j,
             \A p, q \in Pools, b \in Buffers : InFree(p, b)' /\ InFree(q, b)' => p = q,
             \A p \in Pools, b \in Buffers : InFree(p, b)' =>
               b \in born' /\ b \notin held' /\ home'[b] \in {Null, p},
             \A t \in Threads, p \in Pools, b \in Buffers :
               buf'[t] = b => ~ InFree(p, b)',
             \A s, t \in Threads : buf'[s] = buf'[t] /\ buf'[s] # Null => s = t,
             \A t \in Threads : buf'[t] # Null => buf'[t] \notin held' /\ buf'[t] \in born',
             held' \subseteq born',
             \A b \in Buffers \ born' : home'[b] = Null
      PROVE  LInv'
  <2>0. held' \subseteq Buffers
    BY <1>t DEF TInv, TypeOK
  <2>1. OnlyBorn'
    BY <1>g DEF OnlyBorn
  <2>2. RestsAtHome'
    BY <1>g DEF RestsAtHome
  <2>3. \A p \in Pools, b \in held' : ~ InFree(p, b)'
    BY <1>g, <2>0
  <2>4. ASSUME NEW t \in Threads, buf'[t] # Null, NEW p \in Pools
        PROVE  ~ \E i \in 1 .. Len(free'[p]) : free'[p][i] = buf'[t]
    <3>1. PICK b \in Buffers : b = buf'[t]
      BY <1>d, <2>4
    <3>2. ~ InFree(p, b)'
      BY <1>g, <3>1
    <3> QED BY <3>1, <3>2 DEF InFree
  <2>5. OnePlace'
    BY <1>g, <2>3, <2>4 DEF OnePlace, InFree
  <2> QED BY <1>t, <2>1, <2>2, <2>5 DEF LInv
<1>n. \A t \in Threads, p \in Pools, b \in Buffers : buf[t] = b => ~ InFree(p, b)
  BY <1>p
<1>i. \A p \in Pools : \A i, j \in 1 .. Len(free[p]) : free[p][i] = free[p][j] => i = j
  BY <1>t DEF OnePlace
<1>0. CASE UNCHANGED vars
  BY <1>0 DEF vars, LInv, TInv, TypeOK, Shape, OnlyBorn, OnePlace, RestsAtHome, InFree
<1> SUFFICES ASSUME NEW t \in Threads, Step(t)
             PROVE  LInv'
  BY <1>0 DEF Next
<1>1. ASSUME NEW q \in Pools, AllocTake(t, q) PROVE LInv'
  <2>1. PICK x : x = Head(free[q])
    OBVIOUS
  <2>2. free[q] # <<>> /\ free' = [free EXCEPT ![q] = Tail(@)]
    BY <1>1 DEF AllocTake
  <2>3. /\ x \in Buffers /\ InFree(q, x)
        /\ \A p \in Pools, c \in Buffers : InFree(p, c)' <=> InFree(p, c) /\ c # x
        /\ \A p \in Pools : \A i, j \in 1 .. Len(free'[p]) :
             free'[p][i] = free'[p][j] => i = j
    BY <2>1, <2>2, TakeMoves
  <2>4. \A u \in Threads : buf'[u] = IF u = t THEN x ELSE buf[u]
    BY <1>1, <1>d, <2>1 DEF AllocTake
  <2>5. UNCHANGED <<home, born, held>>
    BY <1>1 DEF AllocTake
  <2>6. \A u \in Threads : buf[u] # x
    BY <1>n, <2>3
  <2> QED BY <1>g, <1>p, <1>b, <1>n, <2>3, <2>4, <2>5, <2>6
<1>2. ASSUME NEW q \in Pools, AllocGrow(t, q) PROVE LInv'
  <2>1. PICK x \in Buffers \ born : born' = born \cup {x} /\ buf' = [buf EXCEPT ![t] = x]
    BY <1>2 DEF AllocGrow
  <2>2. \A u \in Threads : buf'[u] = IF u = t THEN x ELSE buf[u]
    BY <1>d, <2>1
  <2>3. UNCHANGED <<free, home, held>>
    BY <1>2 DEF AllocGrow
  <2>4. \A p \in Pools, c \in Buffers : InFree(p, c)' <=> InFree(p, c)
    BY <2>3 DEF InFree
  <2>5. \A p \in Pools : ~ InFree(p, x)
    BY <1>p, <2>1
  <2>6. \A u \in Threads : buf[u] # x
    BY <1>b, <2>1
  <2> QED BY <1>g, <1>p, <1>b, <1>n, <1>i, <2>1, <2>2, <2>3, <2>4, <2>5, <2>6
<1>3. ASSUME NEW q \in Pools, Release(t, q) PROVE LInv'
  <2>1. PICK x \in held : /\ home[x] \in {Null, q}
                          /\ free' = [free EXCEPT ![q] = <<x>> \o @]
                          /\ held' = held \ {x}
    BY <1>3 DEF Release
  <2>2. x \in Buffers /\ \A p \in Pools : ~ InFree(p, x)
    BY <1>d, <1>p, <2>1
  <2>3. /\ \A p \in Pools, c \in Buffers : InFree(p, c)' <=> InFree(p, c) \/ (p = q /\ c = x)
        /\ \A p \in Pools : \A i, j \in 1 .. Len(free'[p]) :
             free'[p][i] = free'[p][j] => i = j
    BY <2>1, <2>2, PushMoves
  <2>4. UNCHANGED <<home, born, buf>>
    BY <1>3 DEF Release
  <2>5. \A u \in Threads : buf[u] # x
    BY <1>b, <1>d, <2>1, <2>2
  <2> QED BY <1>g, <1>p, <1>b, <1>n, <2>1, <2>2, <2>3, <2>4, <2>5
<1>4. ASSUME NEW q \in Pools, Add(t, q) PROVE LInv'
  <2>1. PICK x \in Buffers \ born : /\ born' = born \cup {x}
                                    /\ free' = [free EXCEPT ![q] = <<x>> \o @]
    BY <1>4 DEF Add
  <2>2. x \notin held /\ \A p \in Pools : ~ InFree(p, x)
    BY <1>b, <1>p, <2>1
  <2>3. /\ \A p \in Pools, c \in Buffers : InFree(p, c)' <=> InFree(p, c) \/ (p = q /\ c = x)
        /\ \A p \in Pools : \A i, j \in 1 .. Len(free'[p]) :
             free'[p][i] = free'[p][j] => i = j
    BY <2>1, <2>2, PushMoves
  <2>4. UNCHANGED <<home, held, buf>>
    BY <1>4 DEF Add
  <2>5. \A u \in Threads : buf[u] # x
    BY <1>b, <1>d, <2>1
  <2> QED BY <1>g, <1>p, <1>b, <1>n, <2>1, <2>2, <2>3, <2>4, <2>5
<1>5. CASE AllocCountFree(t) \/ ReleaseCount(t)
  BY <1>5, <1>t DEF AllocCountFree, ReleaseCount, LInv, OnlyBorn, OnePlace, RestsAtHome, InFree
<1>6. CASE AllocInit(t)
  <2>1. PICK x \in Buffers : x = buf[t]
    BY <1>6, <1>t DEF AllocInit, TInv, TypeOK, Shape
  <2>2. /\ held' = held \cup {x} /\ UNCHANGED <<free, born>>
        /\ \A u \in Threads : buf'[u] = IF u = t THEN Null ELSE buf[u]
        /\ \A c \in Buffers : c # x => home'[c] = home[c]
    BY <1>6, <1>d, <2>1 DEF AllocInit
  <2>3. \A p \in Pools, c \in Buffers : InFree(p, c)' <=> InFree(p, c)
    BY <2>2 DEF InFree
  <2>4. x \in born /\ \A p \in Pools : ~ InFree(p, x)
    BY <1>b, <1>n, <2>1
  <2>5. \A u \in Threads : buf'[u] # x
    BY <1>b, <2>1, <2>2
  <2> QED BY <1>g, <1>p, <1>b, <1>n, <1>i, <1>d, <2>2, <2>3, <2>4, <2>5
<1> QED BY <1>1, <1>2, <1>3, <1>4, <1>5, <1>6 DEF Step

\* No buffer is handed out twice or linked twice, and none rests on the list
\* of a pool other than its own.
THEOREM PoolOnePlace == Spec => [](OnePlace /\ RestsAtHome)
<1>1. LInv => OnePlace /\ RestsAtHome
  BY DEF LInv
<1> QED BY <1>1, LInvInit, LInvNext, PTL DEF Spec

-----------------------------------------------------------------------------
(* usedCount                                                               *)

UInv == LInv /\ UsedCountConserved

\* At the start nothing is held and usedCount is 0.
LEMMA UInvInit == Init => UInv
<1> SUFFICES ASSUME Init, NEW p \in Pools
             PROVE  usedCount[p] = Cardinality(HeldFrom(p)) + Cardinality(UsedReleased(p))
  BY LInvInit DEF UInv, UsedCountConserved
<1>1. HeldFrom(p) = {} /\ UsedReleased(p) = {} /\ usedCount[p] = 0
  BY DEF Init, HeldFrom, UsedReleased, ReleasedUncounted
<1> QED BY <1>1, FS_EmptySet

\* usedCount follows what is held from the pool, the uncounted releases aside.
LEMMA UInvNext ==
    ASSUME UInv, [Next]_vars
    PROVE  UInv'
<1> USE PoolAssumption
<1>t. LInv /\ LInv' /\ UsedCountConserved
  BY LInvNext DEF UInv
<1>0. CASE UNCHANGED vars
  BY <1>0, <1>t DEF vars, UInv, UsedCountConserved, HeldFrom, UsedReleased, ReleasedUncounted
<1> SUFFICES ASSUME NEW t \in Threads, Step(t), NEW p \in Pools
             PROVE  usedCount'[p] = Cardinality(HeldFrom(p)') + Cardinality(UsedReleased(p)')
  BY <1>0, <1>t DEF Next, UInv, UsedCountConserved
<1> DEFINE H == HeldFrom(p)
           U == UsedReleased(p)
<1>d. /\ pc \in [Threads -> PCs] /\ pool \in [Threads -> Pools \cup {Null}]
      /\ notnull \in [Threads -> BOOLEAN] /\ usedCount \in [Pools -> Int]
      /\ home \in [Buffers -> Pools \cup {Null}] /\ held \subseteq Buffers
  BY <1>t DEF LInv, TInv, TypeOK
<1>c. /\ usedCount[p] = Cardinality(H) + Cardinality(U)
      /\ IsFiniteSet(H) /\ Cardinality(H) \in Nat
      /\ IsFiniteSet(U) /\ Cardinality(U) \in Nat
  <2>1. H \in SUBSET Buffers /\ U \in SUBSET Threads
    BY <1>d DEF HeldFrom, UsedReleased, ReleasedUncounted
  <2> QED BY <1>t, <2>1, FiniteSubsets DEF UsedCountConserved
<1>1. ASSUME NEW q \in Pools, AllocTake(t, q) \/ AllocGrow(t, q)
      PROVE  usedCount'[p] = Cardinality(H') + Cardinality(U')
  <2>1. U' = U /\ H' = H /\ usedCount' = usedCount
    BY <1>1, <1>d DEF AllocTake, AllocGrow, HeldFrom, UsedReleased, ReleasedUncounted
  <2> QED BY <1>c, <2>1
<1>2. ASSUME NEW q \in Pools, Release(t, q)
      PROVE  usedCount'[p] = Cardinality(H') + Cardinality(U')
  <2>1. PICK x \in held : /\ home[x] \in {Null, q} /\ held' = held \ {x}
                          /\ notnull' = [notnull EXCEPT ![t] = home[x] # Null]
    BY <1>2 DEF Release
  <2>2. t \notin U /\ usedCount' = usedCount /\ home' = home
    BY <1>2, <1>d DEF Release, UsedReleased, ReleasedUncounted
  <2>3. H' = H \ {x} /\ (x \in H <=> home[x] = p)
    BY <2>1, <2>2 DEF HeldFrom
  <2>4. notnull'[t] <=> home[x] # Null
    BY <1>d, <2>1, Zenon
  <2>5. \A u \in Threads : u # t => (notnull'[u] <=> notnull[u])
    BY <1>d, <2>1, Zenon
  <2>6. /\ pc'[t] = "countRelease" /\ pool'[t] = q
        /\ \A u \in Threads : u # t => pc'[u] = pc[u] /\ pool'[u] = pool[u]
    BY <1>2, <1>d DEF Release
  <2>7. U' = {u \in Threads : pc'[u] = "countRelease" /\ pool'[u] = p /\ notnull'[u]}
    BY DEF UsedReleased, ReleasedUncounted
  <2>8. U = {u \in Threads : pc[u] = "countRelease" /\ pool[u] = p /\ notnull[u]}
    BY DEF UsedReleased, ReleasedUncounted
  <2>9. CASE home[x] = p
    <3>1. p = q /\ home[x] # Null
      BY <2>1, <2>9
    <3>2. U' = U \cup {t}
      <4>1. t \in U'
        BY <2>4, <2>6, <2>7, <3>1, Zenon
      <4>2. \A u \in Threads : u # t => (u \in U' <=> u \in U)
        BY <2>5, <2>6, <2>7, <2>8, Zenon
      <4> QED BY <2>7, <2>8, <4>1, <4>2
    <3>3. Cardinality(U') = Cardinality(U) + 1
      BY <1>c, <2>2, <3>2, AddOne
    <3>4. Cardinality(H') = Cardinality(H) - 1
      BY <1>c, <2>3, <2>9, RemoveOne
    <3> QED BY <1>c, <2>2, <3>3, <3>4
  <2>10. CASE home[x] # p
    <3>1. H' = H
      BY <2>3, <2>10
    <3>2. U' = U
      <4>1. t \notin U'
        <5>1. CASE p = q
          <6>1. home[x] = Null
            BY <2>1, <2>10, <5>1
          <6> QED BY <2>4, <2>7, <6>1, Zenon
        <5>2. CASE p # q
          BY <2>6, <2>7, <5>2, Zenon
        <5> QED BY <5>1, <5>2
      <4>2. \A u \in Threads : u # t => (u \in U' <=> u \in U)
        BY <2>5, <2>6, <2>7, <2>8, Zenon
      <4> QED BY <2>2, <2>7, <2>8, <4>1, <4>2
    <3> QED BY <1>c, <2>2, <3>1, <3>2
  <2> QED BY <2>9, <2>10
<1>3. ASSUME NEW q \in Pools, Add(t, q)
      PROVE  usedCount'[p] = Cardinality(H') + Cardinality(U')
  <2>1. U' = U
    BY <1>3, <1>d DEF Add, UsedReleased, ReleasedUncounted
  <2>2. H' = H /\ usedCount' = usedCount
    BY <1>3 DEF Add, HeldFrom
  <2> QED BY <1>c, <2>1, <2>2
<1>4. CASE AllocCountFree(t)
  <2>1. U' = U /\ H' = H /\ usedCount' = usedCount
    BY <1>4, <1>d DEF AllocCountFree, HeldFrom, UsedReleased, ReleasedUncounted
  <2> QED BY <1>c, <2>1
<1>5. CASE AllocInit(t)
  <2>1. PICK x \in Buffers : x = buf[t] /\ x # Null
    BY <1>5, <1>t DEF AllocInit, LInv, TInv, TypeOK, Shape
  <2>2. x \notin held
    BY <1>t, <2>1 DEF LInv, OnePlace
  <2>3. /\ held' = held \cup {x}
        /\ \A c \in Buffers : home'[c] = IF c = x THEN pool[t] ELSE home[c]
    BY <1>5, <1>d, <2>1 DEF AllocInit
  <2>4. U' = U
    BY <1>5, <1>d DEF AllocInit, UsedReleased, ReleasedUncounted
  <2>5. x \notin H /\ H' = IF pool[t] = p THEN H \cup {x} ELSE H
    BY <1>d, <2>2, <2>3 DEF HeldFrom
  <2>6. Cardinality(H') = IF pool[t] = p THEN Cardinality(H) + 1 ELSE Cardinality(H)
    BY <1>c, <2>5, AddOne
  <2>7. usedCount'[p] = IF pool[t] = p THEN usedCount[p] + 1 ELSE usedCount[p]
    BY <1>5, <1>d DEF AllocInit
  <2> QED BY <1>c, <2>4, <2>6, <2>7
<1>6. CASE ReleaseCount(t)
  <2>1. H' = H
    BY <1>6 DEF ReleaseCount, HeldFrom
  <2>2. U' = U \ {t} /\ (t \in U <=> pool[t] = p /\ notnull[t])
    BY <1>6, <1>d DEF ReleaseCount, UsedReleased, ReleasedUncounted
  <2>3. CASE pool[t] = p /\ notnull[t]
    <3>1. Cardinality(U') = Cardinality(U) - 1
      BY <1>c, <2>2, <2>3, RemoveOne
    <3>2. usedCount'[p] = usedCount[p] - 1
      BY <1>6, <1>d, <2>3 DEF ReleaseCount
    <3> QED BY <1>c, <2>1, <3>1, <3>2
  <2>4. CASE ~ (pool[t] = p /\ notnull[t])
    <3>1. U' = U
      BY <2>2, <2>4
    <3>2. usedCount'[p] = usedCount[p]
      BY <1>6, <1>d, <2>4 DEF ReleaseCount
    <3> QED BY <1>c, <2>1, <3>1, <3>2
  <2> QED BY <2>3, <2>4
<1> QED BY <1>1, <1>2, <1>3, <1>4, <1>5, <1>6 DEF Step

\* usedCount is the number of buffers the application holds from the pool, but
\* for the releases that are on the list and not yet counted.
THEOREM PoolUsedCount == Spec => []UsedCountConserved
<1>1. UInv => UsedCountConserved
  BY DEF UInv
<1> QED BY <1>1, UInvInit, UInvNext, PTL DEF Spec

\* Both numbers of getCounts are off by the calls under way only
\* (thread_slinger.tcc:150-154, 193-197).
THEOREM PoolCounts == Spec => []CountsConserved
BY PoolFreeCount, PoolUsedCount, PTL DEF CountsConserved

-----------------------------------------------------------------------------
(* No buffer is lost                                                       *)

NInv == LInv /\ NoneLost

\* No half of a call drops a buffer that exists.
LEMMA NInvNext ==
    ASSUME NInv, [Next]_vars
    PROVE  NInv'
<1> USE PoolAssumption
<1>t. LInv /\ LInv' /\ NoneLost
  BY LInvNext DEF NInv
<1> SUFFICES ASSUME NEW b \in born'
             PROVE  \/ b \in held'
                    \/ \E p \in Pools : InFree(p, b)'
                    \/ \E u \in Threads : buf'[u] = b
  BY <1>t DEF NInv, NoneLost
<1>d. /\ buf \in [Threads -> Buffers \cup {Null}]
      /\ b \in Buffers /\ held \subseteq Buffers
  BY <1>t DEF LInv, TInv, TypeOK
<1>b. b \in born => \/ b \in held
                    \/ \E p \in Pools : InFree(p, b)
                    \/ \E u \in Threads : buf[u] = b
  BY <1>t DEF NoneLost
<1>0. CASE UNCHANGED vars
  BY <1>0, <1>b DEF vars, InFree
<1> SUFFICES ASSUME NEW t \in Threads, Step(t)
             PROVE  \/ b \in held'
                    \/ \E p \in Pools : InFree(p, b)'
                    \/ \E u \in Threads : buf'[u] = b
  BY <1>0 DEF Next
<1>s. pc[t] = "idle" => buf[t] = Null
  BY <1>t DEF LInv, TInv, Shape
<1>1. ASSUME NEW q \in Pools, AllocTake(t, q)
      PROVE  b \in held' \/ (\E p \in Pools : InFree(p, b)') \/ \E u \in Threads : buf'[u] = b
  <2>1. PICK x : x = Head(free[q])
    OBVIOUS
  <2>2. free[q] # <<>> /\ free' = [free EXCEPT ![q] = Tail(@)]
        /\ born' = born /\ held' = held /\ pc[t] = "idle"
    BY <1>1 DEF AllocTake
  <2>3. \A p \in Pools, c \in Buffers : InFree(p, c)' <=> InFree(p, c) /\ c # x
    BY <1>t, <2>1, <2>2, TakeMoves
  <2>4. \A u \in Threads : buf'[u] = IF u = t THEN x ELSE buf[u]
    BY <1>1, <1>d, <2>1 DEF AllocTake
  <2> QED BY <1>b, <1>d, <1>s, <2>2, <2>3, <2>4
<1>2. ASSUME NEW q \in Pools, AllocGrow(t, q)
      PROVE  b \in held' \/ (\E p \in Pools : InFree(p, b)') \/ \E u \in Threads : buf'[u] = b
  <2>1. PICK x \in Buffers \ born : born' = born \cup {x} /\ buf' = [buf EXCEPT ![t] = x]
    BY <1>2 DEF AllocGrow
  <2>2. \A u \in Threads : buf'[u] = IF u = t THEN x ELSE buf[u]
    BY <1>d, <2>1
  <2>3. UNCHANGED <<free, held>> /\ pc[t] = "idle"
    BY <1>2 DEF AllocGrow
  <2>4. \A p \in Pools : InFree(p, b)' <=> InFree(p, b)
    BY <2>3 DEF InFree
  <2> QED BY <1>b, <1>d, <1>s, <2>1, <2>2, <2>3, <2>4
<1>3. ASSUME NEW q \in Pools, Release(t, q) \/ Add(t, q)
      PROVE  b \in held' \/ (\E p \in Pools : InFree(p, b)') \/ \E u \in Threads : buf'[u] = b
  <2>1. PICK x \in Buffers : /\ free' = [free EXCEPT ![q] = <<x>> \o @]
                             /\ \/ x \in held /\ held' = held \ {x} /\ born' = born
                                \/ x \notin born /\ held' = held /\ born' = born \cup {x}
    BY <1>3, <1>d DEF Release, Add
  <2>2. \A p \in Pools : ~ InFree(p, x)
    BY <1>t, <2>1 DEF LInv, OnlyBorn, OnePlace
  <2>3. \A p \in Pools, c \in Buffers : InFree(p, c)' <=> InFree(p, c) \/ (p = q /\ c = x)
    BY <1>t, <2>1, <2>2, PushMoves
  <2>4. buf' = buf
    BY <1>3 DEF Release, Add
  <2> QED BY <1>b, <1>d, <2>1, <2>3, <2>4
<1>4. CASE AllocCountFree(t) \/ ReleaseCount(t)
  BY <1>4, <1>b DEF AllocCountFree, ReleaseCount, InFree
<1>5. CASE AllocInit(t)
  <2>1. UNCHANGED <<free, born>> /\ held' = held \cup {buf[t]}
        /\ \A u \in Threads : u # t => buf'[u] = buf[u]
    BY <1>5, <1>d DEF AllocInit
  <2>2. \A p \in Pools : InFree(p, b)' <=> InFree(p, b)
    BY <2>1 DEF InFree
  <2> QED BY <1>b, <2>1, <2>2
<1> QED BY <1>1, <1>2, <1>3, <1>4, <1>5 DEF Step

\* Every buffer that new has returned stays reachable: on a list, inside an
\* alloc, or with the application.
THEOREM PoolNoneLost == Spec => []NoneLost
<1>1. Init => NInv
  BY LInvInit DEF Init, NInv, NoneLost
<1>2. NInv => NoneLost
  BY DEF NInv
<1> QED BY <1>1, <1>2, NInvNext, PTL DEF Spec

-----------------------------------------------------------------------------
(* Reference counts                                                        *)

\* A message that somebody holds knows its pool.
HeldHome == \A b \in held : home[b] \in Pools

RInv ==
    /\ LInv /\ HeldHome
    /\ refcount \in [Buffers -> Int]
    /\ holders \in [Buffers -> Nat]
    /\ LastDerefReleases

\* With reference counts a pool does what it does without, or nothing.
LEMMA RefNextIsNext ==
    ASSUME HeldHome, [RefNext]_allVars
    PROVE  [Next]_vars
<1>1. CASE UNCHANGED allVars
  BY <1>1 DEF allVars
<1>2. ASSUME NEW t \in Threads, RefStep(t) PROVE [Next]_vars
  <2>1. ASSUME NEW b \in held, Release(t, home[b]) PROVE Next
    BY <2>1 DEF HeldHome, Next, Step
  <2>2. CASE \E b \in Buffers : Ref(t, b)
    BY <2>2 DEF Ref
  <2>3. CASE \E b \in Buffers : Deref(t, b)
    BY <2>1, <2>3 DEF Deref
  <2>4. CASE \E b \in Buffers : ReleaseUncounted(t, b)
    BY <2>4 DEF ReleaseUncounted, Next, Step
  <2>5. CASE Return(t) \/ AllocReturns(t)
    BY <2>5 DEF Return, AllocReturns, Next, Step
  <2>6. CASE AllocCountFree(t) \/ \E p \in Pools : AllocTake(t, p) \/ AllocGrow(t, p) \/ Add(t, p)
    BY <2>6 DEF Next, Step
  <2> QED BY <1>2, <2>2, <2>3, <2>4, <2>5, <2>6 DEF RefStep
<1> QED BY <1>1, <1>2 DEF RefNext

\* At the start nobody holds a message and no count is above 0.
LEMMA RInvInit == RefInit => RInv
<1> SUFFICES ASSUME RefInit PROVE RInv
  OBVIOUS
<1>1. LInv
  BY LInvInit DEF RefInit
<1>2. held = {} /\ refcount = [b \in Buffers |-> 0] /\ holders = [b \in Buffers |-> 0]
  BY DEF RefInit, Init
<1>3. refcount \in [Buffers -> Int] /\ holders \in [Buffers -> Nat]
  BY <1>2
<1>4. HeldHome /\ LastDerefReleases
  BY <1>2 DEF HeldHome, LastDerefReleases
<1> QED BY <1>1, <1>3, <1>4 DEF RInv

\* Every call of the pools and every ref and deref keeps the counts.
LEMMA RInvNext ==
    ASSUME RInv, [RefNext]_allVars
    PROVE  RInv'
<1> USE PoolAssumption
<1>1. LInv /\ HeldHome /\ refcount \in [Buffers -> Int] /\ holders \in [Buffers -> Nat]
  BY DEF RInv
<1>2. LInv'
  BY <1>1, RefNextIsNext, LInvNext
<1>3. TypeOK /\ Shape /\ OnePlace
  BY <1>1 DEF LInv, TInv
<1>4. \A b \in Buffers : /\ b \in held <=> holders[b] > 0
                         /\ refcount[b] = holders[b] \/ (refcount[b] = 0 /\ holders[b] = 1)
  BY DEF RInv, LastDerefReleases
<1>5. held \subseteq Buffers /\ home \in [Buffers -> Pools \cup {Null}]
  BY <1>3 DEF TypeOK
\* A change of one message is enough to look at.
<1>6. ASSUME NEW b \in Buffers, NEW c \in Int, NEW h \in Nat,
             refcount' = [refcount EXCEPT ![b] = c], holders' = [holders EXCEPT ![b] = h],
             b \in held' <=> h > 0, c = h \/ (c = 0 /\ h = 1),
             \A d \in Buffers : d # b => (d \in held' <=> d \in held),
             HeldHome'
      PROVE  RInv'
  <2>1. refcount' \in [Buffers -> Int] /\ holders' \in [Buffers -> Nat]
    BY <1>1, <1>6
  <2>2. LastDerefReleases'
    BY <1>1, <1>4, <1>6 DEF LastDerefReleases
  <2> QED BY <1>2, <1>6, <2>1, <2>2 DEF RInv
<1>7. ASSUME UNCHANGED <<refcount, holders, held, home>> PROVE RInv'
  BY <1>1, <1>2, <1>7 DEF RInv, HeldHome, LastDerefReleases
<1>8. CASE UNCHANGED allVars
  BY <1>7, <1>8 DEF allVars, vars, refVars
<1>9. ASSUME NEW t \in Threads, RefStep(t) PROVE RInv'
  <2>1. ASSUME NEW b \in held, NEW p, Release(t, p), b \notin held'
        PROVE  held' = held \ {b} /\ HeldHome'
    BY <1>1, <2>1 DEF Release, HeldHome
  <2>2. ASSUME NEW b \in Buffers, Ref(t, b) PROVE RInv'
    <3> DEFINE c == refcount[b] + 1
               h == IF refcount[b] = 0 THEN holders[b] ELSE holders[b] + 1
    <3>1. /\ b \in held /\ refcount' = [refcount EXCEPT ![b] = c]
          /\ holders' = [holders EXCEPT ![b] = h] /\ held' = held /\ home' = home
      BY <2>2 DEF Ref, vars
    <3>2. c \in Int /\ h \in Nat /\ h > 0 /\ c = h
      BY <1>1, <1>4, <3>1
    <3>3. HeldHome'
      BY <1>1, <3>1 DEF HeldHome
    <3> HIDE DEF c, h
    <3> QED BY <1>6, <3>1, <3>2, <3>3
  <2>3. ASSUME NEW b \in Buffers, Deref(t, b) PROVE RInv'
    <3> DEFINE h == holders[b] - 1
    <3>1. /\ b \in held /\ holders' = [holders EXCEPT ![b] = h]
          /\ refcount[b] \in Int /\ holders[b] \in Nat /\ holders[b] > 0
          /\ refcount[b] = holders[b] \/ (refcount[b] = 0 /\ holders[b] = 1)
      BY <1>1, <1>4, <2>3 DEF Deref
    <3>2. CASE refcount[b] - 1 <= 0
      <4>1. refcount' = [refcount EXCEPT ![b] = 0] /\ Release(t, home[b]) /\ b \notin held'
        BY <2>3, <3>2 DEF Deref
      <4>2. h = 0
        BY <3>1, <3>2
      <4>3. held' = held \ {b} /\ HeldHome'
        BY <2>1, <3>1, <4>1
      <4>4. 0 \in Int /\ h \in Nat /\ (b \in held' <=> h > 0) /\ 0 = h
            /\ \A d \in Buffers : d # b => (d \in held' <=> d \in held)
        BY <4>2, <4>3
      <4> HIDE DEF h
      <4> QED BY <1>6, <3>1, <4>1, <4>3, <4>4
    <3>3. CASE ~ (refcount[b] - 1 <= 0)
      <4>1. /\ refcount' = [refcount EXCEPT ![b] = refcount[b] - 1]
            /\ held' = held /\ home' = home
        BY <2>3, <3>3 DEF Deref, vars
      <4>2. h \in Nat /\ h > 0 /\ refcount[b] - 1 = h /\ refcount[b] - 1 \in Int
        BY <3>1, <3>3
      <4>3. HeldHome'
        BY <1>1, <4>1 DEF HeldHome
      <4> HIDE DEF h
      <4> QED BY <1>6, <3>1, <4>1, <4>2, <4>3
    <3> QED BY <3>2, <3>3
  <2>4. ASSUME NEW b \in Buffers, ReleaseUncounted(t, b) PROVE RInv'
    <3>1. /\ b \in held /\ holders' = [holders EXCEPT ![b] = 0] /\ refcount' = refcount
          /\ refcount[b] = 0 /\ (\E p \in Pools : Release(t, p)) /\ b \notin held'
      BY <2>4 DEF ReleaseUncounted
    <3>2. held' = held \ {b} /\ HeldHome'
      BY <2>1, <3>1
    <3>3. refcount' = [refcount EXCEPT ![b] = 0]
      BY <1>1, <3>1
    <3>4. 0 \in Int /\ 0 \in Nat /\ (b \in held' <=> 0 > 0)
          /\ \A d \in Buffers : d # b => (d \in held' <=> d \in held)
      BY <3>2
    <3> QED BY <1>6, <3>1, <3>2, <3>3, <3>4
  <2>5. CASE Return(t)
    BY <1>7, <2>5 DEF Return, ReleaseCount
  <2>6. CASE AllocReturns(t)
    <3> DEFINE b == buf[t]
    <3>1. /\ pc[t] = "init" /\ held' = held \cup {b} /\ refcount' = refcount
          /\ holders' = [holders EXCEPT ![b] = 1] /\ home' = [home EXCEPT ![b] = pool[t]]
      BY <2>6 DEF AllocReturns, AllocInit
    <3>2. b \in Buffers /\ b \notin held /\ pool[t] \in Pools
      BY <1>3, <3>1 DEF Shape, TypeOK, OnePlace
    <3>3. refcount[b] = 0
      BY <1>1, <1>4, <3>2
    <3>4. refcount' = [refcount EXCEPT ![b] = 0]
      BY <1>1, <3>1, <3>3
    <3>5. HeldHome'
      BY <1>1, <1>5, <3>1, <3>2 DEF HeldHome
    <3>6. 0 \in Int /\ 1 \in Nat /\ (b \in held' <=> 1 > 0)
          /\ \A d \in Buffers : d # b => (d \in held' <=> d \in held)
      BY <3>1
    <3> HIDE DEF b
    <3> QED BY <1>6, <3>1, <3>2, <3>4, <3>5, <3>6
  <2>7. CASE /\ AllocCountFree(t) \/ \E p \in Pools : AllocTake(t, p) \/ AllocGrow(t, p) \/ Add(t, p)
             /\ UNCHANGED refVars
    BY <1>7, <2>7 DEF AllocCountFree, AllocTake, AllocGrow, Add, refVars
  <2> QED BY <1>9, <2>2, <2>3, <2>4, <2>5, <2>6, <2>7 DEF RefStep
<1> QED BY <1>8, <1>9 DEF RefNext

\* The count of a message is the number of its holders, or 0 for one that has not
\* counted itself, so the last deref gives it back and no other does.
THEOREM RefsLastDeref == RefSpec => []LastDerefReleases
<1>1. RInv => LastDerefReleases
  BY DEF RInv
<1> QED BY <1>1, RInvInit, RInvNext, PTL DEF RefSpec

\* Pools whose messages are counted are pools, so that their statistics are right,
\* and no buffer is lost or handed out twice.
THEOREM RefsArePools == RefSpec => Spec
<1>1. RefInit => Init
  BY DEF RefInit
<1>2. RInv => HeldHome
  BY DEF RInv
<1> QED BY <1>1, <1>2, RInvInit, RInvNext, RefNextIsNext, PTL DEF RefSpec, Spec

\* What the theorems say of a pool holds with reference counts.
COROLLARY RefsConserve == RefSpec => [](CountsConserved /\ OnePlace /\ NoneLost)
BY RefsArePools, PoolCounts, PoolOnePlace, PoolNoneLost, PTL
=============================================================================
