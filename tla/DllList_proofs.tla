--------------------------- MODULE DllList_proofs ---------------------------
(***************************************************************************)
(* The rings of DllList hold together, for any number of lists and items.  *)
(* TypeOK /\ RingsAgree is inductive as it stands: an item off its list is *)
(* pointed to by no node of a ring, so that a call changes the pointers of *)
(* one ring only.                                                          *)
(*                                                                         *)
(* That a call also does what its name says is the refinement of           *)
(* ListContents.  Its invariant, Spelled, is that the links of each list   *)
(* spell out a sequence of the items whose lst names it; then a walk with  *)
(* get_next reads that sequence, linking an item in between two nodes is   *)
(* InsertAt, and taking one out is RemoveAt.                               *)
(***************************************************************************)
EXTENDS DllList, FiniteSetTheorems, SequenceTheorems, WellFoundedInduction, TLAPS

IInv == TypeOK /\ RingsAgree

\* The part of RingsAgree that is about pointers, at one node.
Joined(l, n) ==
    /\ next[n] \in Ring(l) /\ prev[next[n]] = n
    /\ prev[n] \in Ring(l) /\ next[prev[n]] = n

-----------------------------------------------------------------------------
(* Counting.                                                               *)

\* A list has finitely many items.
LEMMA OnListFinite == \A l : IsFiniteSet(OnList(l))
  BY FS_Subset, ListAssumption DEF OnList

\* An item that was on no list makes the list it joins one longer.
LEMMA CountAdd ==
  ASSUME NEW l \in Lists, NEW i \in Items, TypeOK, RingsAgree, lst[i] = Null,
         lst' = [lst EXCEPT ![i] = l], cnt' = [cnt EXCEPT ![l] = @ + 1]
  PROVE  \A k \in Lists : cnt'[k] = Cardinality(OnList(k)')
<1> SUFFICES ASSUME NEW k \in Lists PROVE cnt'[k] = Cardinality(OnList(k)')
  OBVIOUS
<1>1. cnt[k] = Cardinality(OnList(k))
  BY DEF RingsAgree
<1>2. CASE k = l
  <2>1. OnList(k)' = OnList(k) \cup {i}
    BY <1>2, ListAssumption DEF OnList, TypeOK
  <2>2. i \notin OnList(k)
    BY ListAssumption DEF OnList
  <2>3. Cardinality(OnList(k)') = Cardinality(OnList(k)) + 1
    BY <2>1, <2>2, OnListFinite, FS_AddElement
  <2> QED  BY <1>1, <1>2, <2>3 DEF TypeOK
<1>3. CASE k # l
  <2>1. OnList(k)' = OnList(k)
    BY <1>3, ListAssumption DEF OnList, TypeOK
  <2> QED  BY <1>1, <1>3, <2>1 DEF TypeOK
<1> QED  BY <1>2, <1>3

\* An item that leaves a list makes it one shorter, and no other.
LEMMA CountRemove ==
  ASSUME NEW l \in Lists, NEW i \in Items, TypeOK, RingsAgree, lst[i] = l,
         lst' = [lst EXCEPT ![i] = Null], cnt' = [cnt EXCEPT ![l] = @ - 1]
  PROVE  \A k \in Lists : cnt'[k] = Cardinality(OnList(k)')
<1> SUFFICES ASSUME NEW k \in Lists PROVE cnt'[k] = Cardinality(OnList(k)')
  OBVIOUS
<1>1. cnt[k] = Cardinality(OnList(k))
  BY DEF RingsAgree
<1>2. CASE k = l
  <2>1. OnList(k)' = OnList(k) \ {i}
    BY <1>2, ListAssumption DEF OnList, TypeOK
  <2>2. i \in OnList(k)
    BY <1>2 DEF OnList
  <2>3. Cardinality(OnList(k)') = Cardinality(OnList(k)) - 1
    BY <2>1, <2>2, OnListFinite, FS_RemoveElement
  <2> QED  BY <1>1, <1>2, <2>3 DEF TypeOK
<1>3. CASE k # l
  <2>1. OnList(k)' = OnList(k)
    BY <1>3, ListAssumption DEF OnList, TypeOK
  <2> QED  BY <1>1, <1>3, <2>1 DEF TypeOK
<1> QED  BY <1>2, <1>3

-----------------------------------------------------------------------------
(* Linking and unlinking.                                                  *)

\* Linking an item between two neighbours of a ring keeps the invariant.
LEMMA LinkKeeps ==
  ASSUME NEW l \in Lists, NEW i \in Items, NEW p \in Ring(l), NEW n \in Ring(l),
         IInv, next[p] = n, prev[n] = p, Link(l, i, p, n)
  PROVE  IInv'
<1>1. TypeOK'
  BY ListAssumption DEF IInv, TypeOK, Link, Ring, OnList, Nodes
<1>2. ASSUME NEW k \in Lists, NEW x \in Ring(k)' PROVE Joined(k, x)'
  <2>1. i \in Nodes /\ p \in Nodes /\ n \in Nodes /\ k \in Nodes /\ l \in Nodes
    BY DEF Nodes, Ring, OnList
  <2>2. lst[i] = Null /\ i # p /\ i # n /\ i \notin Ring(k)
    BY ListAssumption DEF Link, Ring, OnList
  <2>3. Ring(k)' = IF k = l THEN Ring(l) \cup {i} ELSE Ring(k)
    BY ListAssumption DEF IInv, TypeOK, Link, Ring, OnList
  <2>4. \A y \in Ring(k) : Joined(k, y) /\ y \in Nodes
    BY DEF IInv, RingsAgree, Joined, Ring, OnList, Nodes
  <2>5. k # l => p \notin Ring(k) /\ n \notin Ring(k)
    BY ListAssumption DEF Ring, OnList
  <2>6. next' = [next EXCEPT ![i] = n, ![p] = i] /\ prev' = [prev EXCEPT ![i] = p, ![n] = i]
        /\ next \in [Nodes -> Nodes \cup {Null}] /\ prev \in [Nodes -> Nodes \cup {Null}]
    BY DEF Link, IInv, TypeOK
  <2>7. CASE k # l
    BY <2>1, <2>2, <2>3, <2>4, <2>5, <2>6, <2>7 DEF Joined
  <2>8. CASE k = l /\ x = i
    BY <2>1, <2>2, <2>3, <2>6, <2>8 DEF Joined
  <2>9. CASE k = l /\ x # i
    <3>1. x \in Ring(l) /\ Joined(l, x)
      BY <2>3, <2>4, <2>9
    <3>2. next'[x] \in Ring(l)' /\ prev'[next'[x]] = x
      BY <2>1, <2>2, <2>3, <2>4, <2>6, <2>9, <3>1 DEF Joined
    <3>3. prev'[x] \in Ring(l)' /\ next'[prev'[x]] = x
      BY <2>1, <2>2, <2>3, <2>4, <2>6, <2>9, <3>1 DEF Joined
    <3> QED  BY <2>9, <3>2, <3>3 DEF Joined
  <2> QED  BY <2>7, <2>8, <2>9
<1>3. \A k \in Lists : cnt'[k] = Cardinality(OnList(k)')
  BY CountAdd DEF Link, IInv
<1> QED  BY <1>1, <1>2, <1>3 DEF IInv, RingsAgree, Joined

\* Unlinking an item from its ring keeps the invariant.
LEMMA UnlinkKeeps ==
  ASSUME NEW l \in Lists, NEW i \in Items, lst[i] = l, IInv, Unlink(l, i),
         result' \in Items \cup {Null}
  PROVE  IInv'
<1> DEFINE p == prev[i]
           n == next[i]
<1>0. /\ i \in Ring(l) /\ p \in Ring(l) /\ n \in Ring(l)
      /\ next[p] = i /\ prev[n] = i
      /\ i \in Nodes /\ p \in Nodes /\ n \in Nodes
  BY DEF IInv, RingsAgree, Ring, OnList, Nodes
<1>1. TypeOK'
  BY <1>0, ListAssumption DEF IInv, TypeOK, Unlink, Nodes
<1>2. ASSUME NEW k \in Lists, NEW x \in Ring(k)' PROVE Joined(k, x)'
  <2>1. k \in Nodes /\ l \in Nodes /\ i # l
    BY ListAssumption DEF Nodes
  <2>2. Ring(k)' = IF k = l THEN Ring(l) \ {i} ELSE Ring(k)
    BY <2>1, ListAssumption DEF IInv, TypeOK, Unlink, Ring, OnList
  <2>3. \A y \in Ring(k) : Joined(k, y) /\ y \in Nodes
    BY DEF IInv, RingsAgree, Joined, Ring, OnList, Nodes
  <2>4. k # l => p \notin Ring(k) /\ n \notin Ring(k) /\ i \notin Ring(k)
    BY <1>0, ListAssumption DEF Ring, OnList
  <2>5. next' = [next EXCEPT ![p] = n, ![i] = Null] /\ prev' = [prev EXCEPT ![n] = p, ![i] = Null]
        /\ next \in [Nodes -> Nodes \cup {Null}] /\ prev \in [Nodes -> Nodes \cup {Null}]
    BY DEF Unlink, IInv, TypeOK
  <2>6. l \in Ring(l) /\ Joined(l, l)
    BY DEF IInv, RingsAgree, Joined, Ring
  <2> HIDE DEF p, n
  <2>7. CASE k # l
    BY <1>0, <2>1, <2>2, <2>3, <2>4, <2>5, <2>7 DEF Joined
  <2>8. CASE k = l
    <3>1. x \in Ring(l) /\ x # i /\ Joined(l, x) /\ x \in Nodes
      BY <2>2, <2>3, <2>8
    <3>2. next[x] = i => x = p
      BY <3>1, <1>0 DEF Joined, p
    <3>3. prev[x] = i => x = n
      BY <3>1, <1>0 DEF Joined, n
    <3>5. (x = p => n # i) /\ (x = n => p # i)
      BY <1>0, <3>1 DEF p, n
    <3>6. next'[x] \in Ring(l)' /\ prev'[next'[x]] = x
      BY <1>0, <2>1, <2>2, <2>3, <2>5, <2>8, <3>1, <3>2, <3>3, <3>5 DEF Joined
    <3>7. prev'[x] \in Ring(l)' /\ next'[prev'[x]] = x
      BY <1>0, <2>1, <2>2, <2>3, <2>5, <2>8, <3>1, <3>2, <3>3, <3>5 DEF Joined
    <3> QED  BY <2>8, <3>6, <3>7 DEF Joined
  <2> QED  BY <2>7, <2>8
<1>3. \A k \in Lists : cnt'[k] = Cardinality(OnList(k)')
  BY CountRemove DEF Unlink, IInv
<1> QED  BY <1>1, <1>2, <1>3 DEF IInv, RingsAgree, Joined

\* promote: off the ring and on again next to the head.
LEMMA PromoteKeeps ==
  ASSUME NEW l \in Lists, NEW i \in Items, IInv, Promote(l, i)
  PROVE  IInv'
<1> DEFINE p == prev[i]
           n == next[i]
           first == IF next[l] = i THEN n ELSE next[l]
<1>0. /\ i \in Ring(l) /\ p \in Ring(l) /\ n \in Ring(l) /\ l \in Ring(l) /\ first \in Ring(l)
      /\ next[p] = i /\ prev[n] = i
      /\ \A k \in Lists : \A y \in Ring(k) : Joined(k, y) /\ y \in Nodes
  BY DEF IInv, RingsAgree, Ring, OnList, Nodes, Promote, Joined
<1>1. \A k \in Lists : Ring(k)' = Ring(k) /\ OnList(k)' = OnList(k)
  BY DEF Promote, Ring, OnList
<1>2. /\ next' = [next EXCEPT ![p] = n, ![i] = first, ![l] = i]
      /\ prev' = [prev EXCEPT ![n] = p, ![i] = l, ![first] = i]
      /\ next \in [Nodes -> Nodes \cup {Null}] /\ prev \in [Nodes -> Nodes \cup {Null}]
  BY DEF Promote, IInv, TypeOK
<1>3. TypeOK'
  BY <1>0, <1>2, ListAssumption DEF IInv, TypeOK, Promote
<1>4. ASSUME NEW k \in Lists, NEW x \in Ring(k) PROVE Joined(k, x)'
  <2>1. i # l /\ (k # l => {i, l, p, n, first} \cap Ring(k) = {})
    BY <1>0, ListAssumption DEF Ring, OnList, Promote
  <2> HIDE DEF p, n, first
  <2>2. CASE k # l
    BY <1>0, <1>1, <1>2, <2>1, <2>2 DEF Joined
  <2>3. CASE k = l
    <3>1. Joined(l, x) /\ Joined(l, l) /\ Joined(l, i) /\ Joined(l, p) /\ Joined(l, n) /\ Joined(l, first)
      BY <1>0, <2>3
    <3>2. next'[x] \in Ring(l) /\ prev'[next'[x]] = x
      BY <1>0, <1>2, <2>1, <2>3, <3>1, SMTT(60) DEF Joined, p, n, first
    <3>3. prev'[x] \in Ring(l) /\ next'[prev'[x]] = x
      BY <1>0, <1>2, <2>1, <2>3, <3>1, SMTT(60) DEF Joined, p, n, first
    <3> QED  BY <1>1, <2>3, <3>2, <3>3 DEF Joined
  <2> QED  BY <2>2, <2>3
<1>5. \A k \in Lists : cnt'[k] = Cardinality(OnList(k)')
  BY <1>1 DEF Promote, IInv, RingsAgree
<1> QED  BY <1>1, <1>3, <1>4, <1>5 DEF IInv, RingsAgree, Joined

-----------------------------------------------------------------------------
(* Every call keeps the invariant.                                         *)

\* Empty lists are rings of their heads alone.
LEMMA InvInit == Init => IInv
<1> SUFFICES ASSUME Init PROVE IInv
  OBVIOUS
<1>1. TypeOK
  BY DEF Init, TypeOK, Nodes
<1>2. \A l \in Lists : OnList(l) = {}
  BY ListAssumption DEF Init, OnList
<1>3. \A l \in Lists : cnt[l] = Cardinality(OnList(l))
  BY <1>2, FS_EmptySet DEF Init
<1> QED  BY <1>1, <1>2, <1>3 DEF Init, IInv, RingsAgree, Ring, Nodes

\* Two nodes that follow each other on the ring of a list.
LEMMA Neighbours ==
  ASSUME IInv, NEW l \in Lists, NEW n \in Ring(l)
  PROVE  /\ next[n] \in Ring(l) /\ prev[next[n]] = n
         /\ prev[n] \in Ring(l) /\ next[prev[n]] = n
         /\ l \in Ring(l)
  BY DEF IInv, RingsAgree, Ring

\* dequeue_head and dequeue_tail: the neighbour of the head leaves the ring,
\* or the list is empty and nothing changes.
LEMMA InvDequeue ==
  ASSUME IInv, NEW l \in Lists, NEW n \in Ring(l), Dequeue(l, n)
  PROVE  IInv'
<1>1. CASE n = l
  BY <1>1 DEF Dequeue, Item, IInv, TypeOK, RingsAgree, Ring, OnList
<1>2. CASE n # l
  <2>1. n \in Items /\ lst[n] = l
    BY <1>2 DEF Ring, OnList
  <2> QED  BY <1>2, <2>1, UnlinkKeeps DEF Dequeue, Item
<1> QED  BY <1>1, <1>2

\* A call that only answers moves no pointer.
LEMMA InvAnswer ==
  ASSUME IInv, NEW l \in Lists, NEW n \in Ring(l), Answer(Item(l, n))
  PROVE  IInv'
  BY DEF Answer, Item, IInv, TypeOK, RingsAgree, Ring, OnList

\* A constructed item is on no list.
LEMMA InvConstruct ==
  ASSUME IInv, NEW i \in Items, Construct(i)
  PROVE  IInv'
<1>1. TypeOK'
  BY DEF IInv, TypeOK, Construct, Nodes
<1>2. ASSUME NEW l \in Lists, NEW n \in Ring(l) PROVE Joined(l, n)'
  <2>1. i \notin Ring(l) /\ i \in Nodes
    BY ListAssumption DEF Ring, OnList, Construct, Nodes
  <2>2. next[n] # i /\ prev[n] # i /\ n # i
    BY <2>1, Neighbours
  <2>3. Joined(l, n)
    BY Neighbours DEF Joined
  <2> QED  BY <2>1, <2>2, <2>3 DEF Construct, Joined, Ring, OnList, IInv, TypeOK
<1> QED  BY <1>1, <1>2 DEF IInv, RingsAgree, Joined, Construct, Ring, OnList

\* Every call keeps the invariant.
LEMMA InvNext == IInv /\ [Next]_vars => IInv'
<1> SUFFICES ASSUME IInv, [Next]_vars PROVE IInv'
  OBVIOUS
<1>1. CASE UNCHANGED vars
  BY <1>1 DEF vars, IInv, TypeOK, RingsAgree, Ring, OnList
<1>2. CASE \E i \in Items : Construct(i)
  BY <1>2, InvConstruct
<1>3. ASSUME NEW l \in Lists,
             DequeueHead(l) \/ DequeueTail(l) \/ GetHead(l) \/ GetTail(l)
      PROVE  IInv'
  <2>1. l \in Ring(l) /\ next[l] \in Ring(l) /\ prev[l] \in Ring(l)
    BY Neighbours DEF Ring
  <2> QED  BY <1>3, <2>1, InvDequeue, InvAnswer
            DEF DequeueHead, DequeueTail, GetHead, GetTail
<1>4. ASSUME NEW l \in Lists, NEW i \in Items, AddHead(l, i) \/ AddTail(l, i)
      PROVE  IInv'
  <2>1. l \in Ring(l)
    BY DEF Ring
  <2>2. CASE AddHead(l, i)
    BY <2>1, <2>2, Neighbours, LinkKeeps DEF AddHead
  <2>3. CASE AddTail(l, i)
    BY <2>1, <2>3, Neighbours, LinkKeeps DEF AddTail
  <2> QED  BY <1>4, <2>2, <2>3
<1>5. ASSUME NEW l \in Lists, NEW i \in Items, NEW e \in Items,
             AddBefore(l, i, e) \/ AddAfter(l, i, e)
      PROVE  IInv'
  <2>1. e \in Ring(l)
    BY <1>5 DEF AddBefore, AddAfter, Ring, OnList
  <2>2. CASE AddBefore(l, i, e)
    BY <2>1, <2>2, Neighbours, LinkKeeps DEF AddBefore
  <2>3. CASE AddAfter(l, i, e)
    BY <2>1, <2>3, Neighbours, LinkKeeps DEF AddAfter
  <2> QED  BY <1>5, <2>2, <2>3
<1>6. ASSUME NEW l \in Lists, NEW i \in Items, Remove(l, i)
      PROVE  IInv'
  BY <1>6, UnlinkKeeps DEF Remove
<1>7. ASSUME NEW l \in Lists, NEW i \in Items, Promote(l, i)
      PROVE  IInv'
  BY <1>7, PromoteKeeps
<1>8. ASSUME NEW l \in Lists, NEW i \in Items, GetNext(l, i) \/ GetPrev(l, i)
      PROVE  IInv'
  <2>1. i \in Ring(l)
    BY <1>8 DEF GetNext, GetPrev, Ring, OnList
  <2> QED  BY <1>8, <2>1, Neighbours, InvAnswer DEF GetNext, GetPrev
<1> QED  BY <1>1, <1>2, <1>3, <1>4, <1>5, <1>6, <1>7, <1>8 DEF Next

\* The invariant holds in every state.
LEMMA InvAlways == Spec => []IInv
  BY InvInit, InvNext, PTL DEF Spec

\* No call leaves a pointer of DLL3::List that its type does not allow.
THEOREM ListTypes == Spec => []TypeOK
<1>1. IInv => TypeOK
  BY DEF IInv
<1> QED  BY <1>1, InvAlways, PTL

\* After any calls next and prev are each other's inverse on the ring of every
\* list, which has the items whose lst names the list, and cnt is their number.
THEOREM ListRingsAgree == Spec => []RingsAgree
<1>1. IInv => RingsAgree
  BY DEF IInv
<1> QED  BY <1>1, InvAlways, PTL

-----------------------------------------------------------------------------
(* Rings as sequences.                                                     *)

\* The k-th node of the ring of l, when s is its items: the head comes first and
\* again last.
Node(l, s, k) == IF k \in 1 .. Len(s) THEN s[k] ELSE l

\* Links nx and pv run through s, from the head of l and back to it.
Spells(nx, pv, l, s) ==
    /\ s \in Seq(Items)
    /\ \A j \in 1 .. Len(s), k \in 1 .. Len(s) : s[j] = s[k] => j = k
    /\ \A k \in 0 .. Len(s) : /\ nx[Node(l, s, k)] = Node(l, s, k + 1)
                              /\ pv[Node(l, s, k + 1)] = Node(l, s, k)

\* The nodes of a ring are all different, the head being counted once.
LEMMA NodesApart ==
    ASSUME NEW l, l \notin Items, NEW nx, NEW pv, NEW s, Spells(nx, pv, l, s)
    PROVE  /\ Len(s) \in Nat
           /\ \A j \in 0 .. Len(s), k \in 0 .. Len(s) : Node(l, s, j) = Node(l, s, k) => j = k
           /\ \A j \in 1 .. Len(s) + 1, k \in 1 .. Len(s) + 1 :
                Node(l, s, j) = Node(l, s, k) => j = k
<1>1. s \in Seq(Items) /\ Len(s) \in Nat /\ \A k \in 1 .. Len(s) : s[k] \in Items /\ s[k] # l
  BY DEF Spells
<1>2. ASSUME NEW j \in 0 .. Len(s) + 1, NEW k \in 0 .. Len(s) + 1, Node(l, s, j) = Node(l, s, k)
      PROVE  j = k \/ {j, k} = {0, Len(s) + 1}
  <2>1. CASE j \in 1 .. Len(s) /\ k \in 1 .. Len(s)
    BY <1>2, <2>1 DEF Node, Spells
  <2>2. CASE j \in 1 .. Len(s) /\ k \notin 1 .. Len(s)
    BY <1>1, <1>2, <2>2 DEF Node
  <2>3. CASE j \notin 1 .. Len(s) /\ k \in 1 .. Len(s)
    BY <1>1, <1>2, <2>3 DEF Node
  <2>4. CASE j \notin 1 .. Len(s) /\ k \notin 1 .. Len(s)
    <3>1. (j = 0 \/ j = Len(s) + 1) /\ (k = 0 \/ k = Len(s) + 1)
      BY <1>1, <2>4
    <3> QED BY <3>1
  <2> QED BY <2>1, <2>2, <2>3, <2>4
<1>3. \A j \in 0 .. Len(s), k \in 0 .. Len(s) : Node(l, s, j) = Node(l, s, k) => j = k
  <2> SUFFICES ASSUME NEW j \in 0 .. Len(s), NEW k \in 0 .. Len(s), Node(l, s, j) = Node(l, s, k)
               PROVE  j = k
    OBVIOUS
  <2>1. j \in 0 .. Len(s) + 1 /\ k \in 0 .. Len(s) + 1 /\ j # Len(s) + 1 /\ k # Len(s) + 1
    BY <1>1
  <2>2. j = k \/ {j, k} = {0, Len(s) + 1}
    BY <1>2, <2>1
  <2> QED BY <2>1, <2>2
<1>4. \A j \in 1 .. Len(s) + 1, k \in 1 .. Len(s) + 1 : Node(l, s, j) = Node(l, s, k) => j = k
  <2> SUFFICES ASSUME NEW j \in 1 .. Len(s) + 1, NEW k \in 1 .. Len(s) + 1, Node(l, s, j) = Node(l, s, k)
               PROVE  j = k
    OBVIOUS
  <2>1. j \in 0 .. Len(s) + 1 /\ k \in 0 .. Len(s) + 1 /\ j # 0 /\ k # 0
    BY <1>1
  <2>2. j = k \/ {j, k} = {0, Len(s) + 1}
    BY <1>2, <2>1
  <2> QED BY <2>1, <2>2
<1> QED BY <1>1, <1>3, <1>4

\* t is s with i put in at place n.
IsInserted(t, s, n, i) ==
    /\ t \in Seq(Items) /\ Len(t) = Len(s) + 1
    /\ \A k \in 1 .. Len(s) + 1 :
         t[k] = IF k < n THEN s[k] ELSE IF k = n THEN i ELSE s[k - 1]

\* t is s without the element at place n.
IsRemoved(t, s, n) ==
    /\ t \in Seq(Items) /\ Len(t) = Len(s) - 1
    /\ \A k \in 1 .. Len(s) - 1 : t[k] = IF k < n THEN s[k] ELSE s[k + 1]

\* A sequence with one more element.
LEMMA Inserted ==
    ASSUME NEW s \in Seq(Items), NEW n \in 1 .. Len(s) + 1, NEW i \in Items
    PROVE  IsInserted(Contents!InsertAt(s, n, i), s, n, i)
<1>1. PICK m \in Nat : m = Len(s) /\ n \in 1 .. m + 1
  OBVIOUS
<1>2. \A k \in 1 .. m : s[k] \in Items
  BY <1>1
<1>3. PICK a : a = SubSeq(s, 1, n - 1)
  OBVIOUS
<1>4. PICK b : b = SubSeq(s, n, m)
  OBVIOUS
<1>5. a \in Seq(Items) /\ Len(a) = n - 1 /\ \A k \in 1 .. n - 1 : a[k] = s[k]
  <2>1. n - 1 \in Int /\ \A k \in 1 .. n - 1 : k \in 1 .. m
    BY <1>1
  <2>2. \A k \in 1 .. n - 1 : s[k] \in Items
    BY <1>2, <2>1
  <2>3. /\ SubSeq(s, 1, n - 1) \in Seq(Items)
        /\ Len(SubSeq(s, 1, n - 1)) = IF 1 <= n - 1 THEN (n - 1) - 1 + 1 ELSE 0
        /\ \A k \in 1 .. (n - 1) - 1 + 1 : SubSeq(s, 1, n - 1)[k] = s[1 + k - 1]
    BY <2>1, <2>2, SubSeqProperties
  <2> QED BY <1>1, <1>3, <2>1, <2>3
<1>6. b \in Seq(Items) /\ Len(b) = m - n + 1 /\ \A k \in 1 .. m - n + 1 : b[k] = s[n + k - 1]
  <2>1. n \in Int /\ m \in Int /\ \A k \in n .. m : k \in 1 .. m
    BY <1>1
  <2>2. \A k \in n .. m : s[k] \in Items
    BY <1>2, <2>1
  <2>3. /\ SubSeq(s, n, m) \in Seq(Items)
        /\ Len(SubSeq(s, n, m)) = IF n <= m THEN m - n + 1 ELSE 0
        /\ \A k \in 1 .. m - n + 1 : SubSeq(s, n, m)[k] = s[n + k - 1]
    BY <2>1, <2>2, SubSeqProperties
  <2> QED BY <1>1, <1>4, <2>1, <2>3
<1>7. PICK c : c = a \o <<i>>
  OBVIOUS
<1>8. /\ c \in Seq(Items) /\ Len(c) = n
      /\ \A k \in 1 .. n : c[k] = IF k < n THEN s[k] ELSE i
  <2>1. <<i>> \in Seq(Items) /\ Len(<<i>>) = 1 /\ <<i>>[1] = i
    OBVIOUS
  <2>2. /\ c \in Seq(Items) /\ Len(c) = Len(a) + Len(<<i>>)
        /\ \A k \in 1 .. Len(a) + Len(<<i>>) : c[k] = IF k <= Len(a) THEN a[k] ELSE <<i>>[k - Len(a)]
    BY <1>5, <1>7, <2>1, ConcatProperties
  <2>3. (n - 1) + 1 = n /\ \A k \in 1 .. n : (k <= n - 1 <=> k < n) /\ (~ (k <= n - 1) => k - (n - 1) = 1)
    BY <1>1
  <2>4. \A k \in 1 .. n : k <= n - 1 => k \in 1 .. n - 1
    BY <1>1
  <2> QED BY <1>5, <2>1, <2>2, <2>3, <2>4
<1>9. PICK d : d = c \o b
  OBVIOUS
<1>10. /\ d \in Seq(Items) /\ Len(d) = Len(c) + Len(b)
       /\ \A k \in 1 .. Len(c) + Len(b) : d[k] = IF k <= Len(c) THEN c[k] ELSE b[k - Len(c)]
  BY <1>6, <1>8, <1>9, ConcatProperties
<1>11. n + (m - n + 1) = m + 1
  BY <1>1
<1>12. d \in Seq(Items) /\ Len(d) = m + 1
       /\ \A k \in 1 .. m + 1 : d[k] = IF k <= n THEN c[k] ELSE b[k - n]
  BY <1>6, <1>8, <1>10, <1>11
<1>13. ASSUME NEW k \in 1 .. m + 1
       PROVE  d[k] = IF k < n THEN s[k] ELSE IF k = n THEN i ELSE s[k - 1]
  <2>1. CASE k <= n
    <3>1. k \in 1 .. n /\ (~ (k < n) => k = n)
      BY <1>1, <2>1
    <3> QED BY <1>8, <1>12, <2>1, <3>1
  <2>2. CASE ~ (k <= n)
    <3>1. ~ (k < n) /\ k # n /\ k - n \in 1 .. m - n + 1 /\ n + (k - n) - 1 = k - 1
      BY <1>1, <2>2
    <3>2. b[k - n] = s[k - 1]
      BY <1>6, <3>1
    <3> QED BY <1>12, <2>2, <3>1, <3>2
  <2> QED BY <2>1, <2>2
<1>14. Contents!InsertAt(s, n, i) = d
  BY <1>1, <1>3, <1>4, <1>7, <1>9 DEF Contents!InsertAt
<1> QED BY <1>1, <1>12, <1>13, <1>14 DEF IsInserted

\* A sequence with one element less.
LEMMA Removed ==
    ASSUME NEW s \in Seq(Items), NEW n \in 1 .. Len(s)
    PROVE  IsRemoved(Contents!RemoveAt(s, n), s, n)
<1>1. PICK m \in Nat : m = Len(s) /\ n \in 1 .. m
  OBVIOUS
<1>2. \A k \in 1 .. m : s[k] \in Items
  BY <1>1
<1>3. PICK a : a = SubSeq(s, 1, n - 1)
  OBVIOUS
<1>4. PICK b : b = SubSeq(s, n + 1, m)
  OBVIOUS
<1>5. a \in Seq(Items) /\ Len(a) = n - 1 /\ \A k \in 1 .. n - 1 : a[k] = s[k]
  <2>1. n - 1 \in Int /\ \A k \in 1 .. n - 1 : k \in 1 .. m
    BY <1>1
  <2>2. \A k \in 1 .. n - 1 : s[k] \in Items
    BY <1>2, <2>1
  <2>3. /\ SubSeq(s, 1, n - 1) \in Seq(Items)
        /\ Len(SubSeq(s, 1, n - 1)) = IF 1 <= n - 1 THEN (n - 1) - 1 + 1 ELSE 0
        /\ \A k \in 1 .. (n - 1) - 1 + 1 : SubSeq(s, 1, n - 1)[k] = s[1 + k - 1]
    BY <2>1, <2>2, SubSeqProperties
  <2> QED BY <1>1, <1>3, <2>1, <2>3
<1>6. b \in Seq(Items) /\ Len(b) = m - n /\ \A k \in 1 .. m - n : b[k] = s[n + k]
  <2>1. n + 1 \in Int /\ m \in Int /\ \A k \in n + 1 .. m : k \in 1 .. m
    BY <1>1
  <2>2. \A k \in n + 1 .. m : s[k] \in Items
    BY <1>2, <2>1
  <2>3. /\ SubSeq(s, n + 1, m) \in Seq(Items)
        /\ Len(SubSeq(s, n + 1, m)) = IF n + 1 <= m THEN m - (n + 1) + 1 ELSE 0
        /\ \A k \in 1 .. m - (n + 1) + 1 : SubSeq(s, n + 1, m)[k] = s[(n + 1) + k - 1]
    BY <2>1, <2>2, SubSeqProperties
  <2> QED BY <1>1, <1>4, <2>1, <2>3
<1>7. PICK c : c = a \o b
  OBVIOUS
<1>8. /\ c \in Seq(Items) /\ Len(c) = Len(a) + Len(b)
      /\ \A k \in 1 .. Len(a) + Len(b) : c[k] = IF k <= Len(a) THEN a[k] ELSE b[k - Len(a)]
  BY <1>5, <1>6, <1>7, ConcatProperties
<1>9. (n - 1) + (m - n) = m - 1
  BY <1>1
<1>10. c \in Seq(Items) /\ Len(c) = m - 1
       /\ \A k \in 1 .. m - 1 : c[k] = IF k <= n - 1 THEN a[k] ELSE b[k - (n - 1)]
  BY <1>5, <1>6, <1>8, <1>9
<1>11. ASSUME NEW k \in 1 .. m - 1 PROVE c[k] = IF k < n THEN s[k] ELSE s[k + 1]
  <2>1. CASE k < n
    <3>1. k <= n - 1 /\ k \in 1 .. n - 1
      BY <1>1, <2>1
    <3> QED BY <1>5, <1>10, <2>1, <3>1
  <2>2. CASE ~ (k < n)
    <3>1. ~ (k <= n - 1) /\ k - (n - 1) \in 1 .. m - n /\ n + (k - (n - 1)) = k + 1
      BY <1>1, <2>2
    <3>2. b[k - (n - 1)] = s[k + 1]
      BY <1>6, <3>1
    <3> QED BY <1>10, <2>2, <3>1, <3>2
  <2> QED BY <2>1, <2>2
<1>12. Contents!RemoveAt(s, n) = c
  BY <1>1, <1>3, <1>4, <1>7 DEF Contents!RemoveAt
<1> QED BY <1>1, <1>10, <1>11, <1>12 DEF IsRemoved

\* The ring of l after an item is linked in, as its links spell it.
LEMMA SpellsLinked ==
    ASSUME NEW l \in Lists, NEW nx \in [Nodes -> Nodes \cup {Null}], NEW pv \in [Nodes -> Nodes \cup {Null}],
           NEW s, Spells(nx, pv, l, s), NEW n \in 1 .. Len(s) + 1,
           NEW i \in Items, \A k \in 1 .. Len(s) : s[k] # i,
           NEW p, p = Node(l, s, n - 1), NEW q, q = Node(l, s, n),
           NEW nx2, nx2 = [nx EXCEPT ![i] = q, ![p] = i],
           NEW pv2, pv2 = [pv EXCEPT ![i] = p, ![q] = i]
    PROVE  Spells(nx2, pv2, l, Contents!InsertAt(s, n, i))
<1>1. PICK m \in Nat : m = Len(s) /\ n \in 1 .. m + 1
  BY DEF Spells
<1>2. /\ \A j \in 0 .. m, k \in 0 .. m : Node(l, s, j) = Node(l, s, k) => j = k
      /\ \A j \in 1 .. m + 1, k \in 1 .. m + 1 : Node(l, s, j) = Node(l, s, k) => j = k
      /\ l \notin Items /\ l # i
  BY <1>1, NodesApart, ListAssumption
<1>3. PICK t : t = Contents!InsertAt(s, n, i)
  OBVIOUS
<1>4. /\ t \in Seq(Items) /\ Len(t) = m + 1
      /\ \A k \in 1 .. m + 1 : t[k] = IF k < n THEN s[k] ELSE IF k = n THEN i ELSE s[k - 1]
  BY <1>1, <1>3, Inserted DEF IsInserted, Spells
<1>5. \A k \in 0 .. m + 1 : Node(l, s, k) # i /\ Node(l, s, k) \in Nodes
  BY <1>1, <1>2 DEF Node, Nodes, Spells
<1>6. ASSUME NEW k \in 0 .. m + 2
      PROVE  Node(l, t, k) = IF k < n THEN Node(l, s, k) ELSE IF k = n THEN i ELSE Node(l, s, k - 1)
  <2>1. CASE k \in 1 .. m + 1
    <3>1. k < n => k \in 1 .. m
      BY <1>1, <2>1
    <3>2. k > n => k - 1 \in 1 .. m
      BY <1>1, <2>1
    <3>3. Node(l, t, k) = t[k]
      BY <1>4, <2>1 DEF Node
    <3>4. k < n \/ k = n \/ k > n
      BY <1>1
    <3> QED BY <1>1, <1>4, <2>1, <3>1, <3>2, <3>3, <3>4 DEF Node
  <2>2. CASE k = 0
    BY <1>1, <1>4, <2>2 DEF Node
  <2>3. CASE k = m + 2
    <3>1. k \notin 1 .. Len(t) /\ k - 1 \notin 1 .. Len(s) /\ ~ (k < n) /\ k # n
      BY <1>1, <1>4, <2>3
    <3> QED BY <3>1 DEF Node
  <2> QED BY <2>1, <2>2, <2>3
<1>7. \A x \in Nodes : /\ nx2[x] = IF x = p THEN i ELSE IF x = i THEN q ELSE nx[x]
                       /\ pv2[x] = IF x = q THEN i ELSE IF x = i THEN p ELSE pv[x]
  OBVIOUS
<1>8. i \in Nodes /\ p # i /\ q # i
  <2>1. n - 1 \in 0 .. m + 1 /\ n \in 0 .. m + 1
    BY <1>1
  <2> QED BY <1>5, <2>1 DEF Nodes
<1>9. \A k \in 0 .. m : nx[Node(l, s, k)] = Node(l, s, k + 1) /\ pv[Node(l, s, k + 1)] = Node(l, s, k)
  BY <1>1 DEF Spells
<1>10. ASSUME NEW k \in 0 .. m + 1
       PROVE  /\ nx2[Node(l, t, k)] = Node(l, t, k + 1)
              /\ pv2[Node(l, t, k + 1)] = Node(l, t, k)
  <2>0. k \in 0 .. m + 2 /\ k + 1 \in 0 .. m + 2
    BY <1>1
  <2>1. CASE k < n - 1
    <3>1. k < n /\ k + 1 < n /\ k \in 0 .. m /\ k # n - 1 /\ k + 1 \in 1 .. m + 1 /\ k + 1 # n
          /\ n - 1 \in 0 .. m /\ k \in 0 .. m + 1 /\ k + 1 \in 0 .. m + 1
      BY <1>1, <2>1
    <3>2. Node(l, t, k) = Node(l, s, k) /\ Node(l, t, k + 1) = Node(l, s, k + 1)
      BY <1>6, <2>0, <3>1
    <3>3. Node(l, s, k) # p /\ Node(l, s, k + 1) # q
      BY <1>1, <1>2, <3>1
    <3> QED BY <1>5, <1>7, <1>9, <3>1, <3>2, <3>3
  <2>2. CASE k = n - 1
    <3>1. k < n /\ k + 1 = n /\ k \in 0 .. m + 1
      BY <1>1, <2>2
    <3>2. Node(l, t, k) = p /\ Node(l, t, k + 1) = i
      BY <1>6, <2>0, <2>2, <3>1
    <3> QED BY <1>5, <1>7, <1>8, <2>2, <3>1, <3>2
  <2>3. CASE k = n
    <3>1. ~ (k < n) /\ ~ (k + 1 < n) /\ k + 1 # n /\ (k + 1) - 1 = n /\ n \in 0 .. m + 1
      BY <1>1, <2>3
    <3>2. Node(l, t, k) = i /\ Node(l, t, k + 1) = q
      BY <1>6, <2>0, <2>3, <3>1
    <3> QED BY <1>5, <1>7, <1>8, <3>1, <3>2
  <2>4. CASE k > n
    <3>1. /\ ~ (k < n) /\ ~ (k + 1 < n) /\ k # n /\ k + 1 # n /\ (k + 1) - 1 = k
          /\ k - 1 \in 0 .. m /\ k - 1 # n - 1 /\ n - 1 \in 0 .. m /\ (k - 1) + 1 = k
          /\ k \in 1 .. m + 1 /\ k \in 0 .. m + 1 /\ k - 1 \in 0 .. m + 1
      BY <1>1, <2>4
    <3>2. Node(l, t, k) = Node(l, s, k - 1) /\ Node(l, t, k + 1) = Node(l, s, k)
      <4>1. Node(l, t, k) = Node(l, s, k - 1)
        BY <1>6, <2>0, <3>1
      <4>2. Node(l, t, k + 1) = Node(l, s, (k + 1) - 1)
        BY <1>6, <2>0, <3>1
      <4> QED BY <3>1, <4>1, <4>2
    <3>3. Node(l, s, k - 1) # p /\ Node(l, s, k) # q
      BY <1>1, <1>2, <3>1
    <3>4. nx[Node(l, s, k - 1)] = Node(l, s, k) /\ pv[Node(l, s, k)] = Node(l, s, k - 1)
      BY <1>9, <3>1
    <3> QED BY <1>5, <1>7, <3>1, <3>2, <3>3, <3>4
  <2> QED BY <1>1, <2>1, <2>2, <2>3, <2>4
<1>11. ASSUME NEW j \in 1 .. m + 1, NEW k \in 1 .. m + 1, t[j] = t[k] PROVE j = k
  <2> DEFINE from(x) == IF x < n THEN x ELSE x - 1
  <2>1. ASSUME NEW x \in 1 .. m + 1, x # n
        PROVE  from(x) \in 1 .. m /\ t[x] = s[from(x)] /\ t[x] # i
    <3>1. CASE x < n
      <4>1. x \in 1 .. m
        BY <1>1, <3>1
      <4> QED BY <1>1, <1>4, <3>1, <4>1
    <3>2. CASE x > n
      <4>1. x - 1 \in 1 .. m /\ ~ (x < n)
        BY <1>1, <3>2
      <4> QED BY <1>1, <1>4, <2>1, <3>2, <4>1
    <3> QED BY <1>1, <2>1, <3>1, <3>2
  <2>2. t[n] = i
    BY <1>1, <1>4
  <2>3. CASE j = n \/ k = n
    BY <1>11, <2>1, <2>2, <2>3
  <2>4. CASE j # n /\ k # n
    <3>1. from(j) = from(k)
      <4> HIDE DEF from
      <4>1. from(j) \in 1 .. m /\ t[j] = s[from(j)] /\ from(k) \in 1 .. m /\ t[k] = s[from(k)]
        BY <2>1, <2>4
      <4> QED BY <1>1, <1>11, <4>1 DEF Spells
    <3> QED BY <1>1, <2>4, <3>1
  <2> QED BY <2>3, <2>4
<1>12. Spells(nx2, pv2, l, t)
  BY <1>4, <1>10, <1>11 DEF Spells
<1> QED BY <1>3, <1>12

\* The ring of l after an item is taken out.
LEMMA SpellsUnlinked ==
    ASSUME NEW l \in Lists, NEW nx \in [Nodes -> Nodes \cup {Null}], NEW pv \in [Nodes -> Nodes \cup {Null}],
           NEW s, Spells(nx, pv, l, s), NEW n \in 1 .. Len(s),
           NEW i, i = s[n], NEW p, p = pv[i], NEW q, q = nx[i],
           NEW nx2, nx2 = [nx EXCEPT ![p] = q, ![i] = Null],
           NEW pv2, pv2 = [pv EXCEPT ![q] = p, ![i] = Null]
    PROVE  Spells(nx2, pv2, l, Contents!RemoveAt(s, n))
<1>1. PICK m \in Nat : m = Len(s) /\ n \in 1 .. m
  BY DEF Spells
<1>2. /\ \A j \in 0 .. m, k \in 0 .. m : Node(l, s, j) = Node(l, s, k) => j = k
      /\ \A j \in 1 .. m + 1, k \in 1 .. m + 1 : Node(l, s, j) = Node(l, s, k) => j = k
      /\ l \notin Items
  BY <1>1, NodesApart, ListAssumption
<1>3. PICK t : t = Contents!RemoveAt(s, n)
  OBVIOUS
<1>4. /\ t \in Seq(Items) /\ Len(t) = m - 1
      /\ \A k \in 1 .. m - 1 : t[k] = IF k < n THEN s[k] ELSE s[k + 1]
  BY <1>1, <1>3, Removed DEF IsRemoved, Spells
<1>5. \A k \in 0 .. m + 1 : Node(l, s, k) \in Nodes
  BY <1>1, <1>2 DEF Node, Nodes, Spells
<1>6. ASSUME NEW k \in 0 .. m
      PROVE  Node(l, t, k) = IF k < n THEN Node(l, s, k) ELSE Node(l, s, k + 1)
  <2>1. CASE k \in 1 .. m - 1
    <3>1. k \in 1 .. m /\ k + 1 \in 1 .. m
      BY <1>1, <2>1
    <3> QED BY <1>1, <1>4, <2>1, <3>1 DEF Node
  <2>2. CASE k = 0
    BY <1>1, <1>4, <2>2 DEF Node
  <2>3. CASE k = m
    <3>1. k \notin 1 .. Len(t) /\ k + 1 \notin 1 .. Len(s) /\ ~ (k < n)
      BY <1>1, <1>4, <2>3
    <3> QED BY <3>1 DEF Node
  <2> QED BY <1>1, <2>1, <2>2, <2>3
<1>9. \A k \in 0 .. m : nx[Node(l, s, k)] = Node(l, s, k + 1) /\ pv[Node(l, s, k + 1)] = Node(l, s, k)
  BY <1>1 DEF Spells
<1>7. i = Node(l, s, n) /\ p = Node(l, s, n - 1) /\ q = Node(l, s, n + 1)
  <2>1. n - 1 \in 0 .. m /\ n \in 0 .. m /\ (n - 1) + 1 = n
    BY <1>1
  <2>2. i = Node(l, s, n)
    BY <1>1 DEF Node
  <2>3. pv[Node(l, s, (n - 1) + 1)] = Node(l, s, n - 1)
    BY <1>9, <2>1
  <2> QED BY <1>9, <2>1, <2>2, <2>3
<1>8. \A x \in Nodes : /\ nx2[x] = IF x = i THEN Null ELSE IF x = p THEN q ELSE nx[x]
                       /\ pv2[x] = IF x = i THEN Null ELSE IF x = q THEN p ELSE pv[x]
  OBVIOUS
<1>10. ASSUME NEW k \in 0 .. m - 1
       PROVE  /\ nx2[Node(l, t, k)] = Node(l, t, k + 1)
              /\ pv2[Node(l, t, k + 1)] = Node(l, t, k)
  <2>0. k \in 0 .. m /\ k + 1 \in 0 .. m /\ n - 1 \in 0 .. m /\ n \in 0 .. m /\ n + 1 \in 1 .. m + 1 /\ n \in 1 .. m + 1
    BY <1>1
  <2>1. CASE k < n - 1
    <3>1. k < n /\ k + 1 < n /\ k # n - 1 /\ k # n /\ k + 1 # n /\ k + 1 # n + 1
          /\ k + 1 \in 1 .. m + 1 /\ k \in 0 .. m + 1 /\ k + 1 \in 0 .. m + 1
      BY <1>1, <2>1
    <3>2. Node(l, t, k) = Node(l, s, k) /\ Node(l, t, k + 1) = Node(l, s, k + 1)
      BY <1>6, <2>0, <3>1
    <3>3. Node(l, s, k) # p /\ Node(l, s, k + 1) # q /\ Node(l, s, k) # i /\ Node(l, s, k + 1) # i
      BY <1>2, <1>7, <2>0, <3>1
    <3> QED BY <1>5, <1>8, <1>9, <2>0, <3>1, <3>2, <3>3
  <2>2. CASE k = n - 1
    <3>1. k < n /\ k + 1 = n /\ ~ (k + 1 < n) /\ k \in 0 .. m + 1 /\ n + 1 \in 0 .. m + 1 /\ n - 1 # n /\ n # n + 1
      BY <1>1, <2>2
    <3>2. Node(l, t, k) = p /\ Node(l, t, k + 1) = q
      <4>1. Node(l, t, k) = p
        BY <1>6, <1>7, <2>0, <2>2, <3>1
      <4>2. Node(l, t, n) = Node(l, s, n + 1)
        BY <1>1, <1>6, <2>0
      <4> QED BY <1>7, <3>1, <4>1, <4>2
    <3>3. p # i /\ q # i /\ p \in Nodes /\ q \in Nodes
      <4>1. p # i
        BY <1>2, <1>7, <2>0, <3>1
      <4>2. q # i
        BY <1>2, <1>7, <2>0, <3>1
      <4>3. p \in Nodes
        BY <1>5, <1>7, <2>2, <3>1
      <4>4. q \in Nodes
        BY <1>5, <1>7, <3>1
      <4> QED BY <4>1, <4>2, <4>3, <4>4
    <3> QED BY <1>8, <3>2, <3>3
  <2>3. CASE k >= n
    <3>1. ~ (k < n) /\ ~ (k + 1 < n) /\ k + 1 # n - 1 /\ k + 1 # n /\ (k + 1) + 1 # n + 1 /\ (k + 1) + 1 # n
          /\ (k + 1) + 1 \in 1 .. m + 1 /\ k + 1 \in 0 .. m + 1 /\ (k + 1) + 1 \in 0 .. m + 1
      BY <1>1, <2>3
    <3>2. Node(l, t, k) = Node(l, s, k + 1) /\ Node(l, t, k + 1) = Node(l, s, (k + 1) + 1)
      BY <1>6, <2>0, <3>1
    <3>3. Node(l, s, k + 1) # p /\ Node(l, s, (k + 1) + 1) # q /\ Node(l, s, k + 1) # i
          /\ Node(l, s, (k + 1) + 1) # i
      BY <1>2, <1>7, <2>0, <3>1
    <3> QED BY <1>5, <1>8, <1>9, <2>0, <3>1, <3>2, <3>3
  <2> QED BY <1>1, <2>1, <2>2, <2>3
<1>11. ASSUME NEW j \in 1 .. m - 1, NEW k \in 1 .. m - 1, t[j] = t[k] PROVE j = k
  <2> DEFINE from(x) == IF x < n THEN x ELSE x + 1
  <2>1. ASSUME NEW x \in 1 .. m - 1
        PROVE  from(x) \in 1 .. m /\ t[x] = s[from(x)]
    BY <1>1, <1>4
  <2>2. from(j) = from(k)
    <3> HIDE DEF from
    <3>1. from(j) \in 1 .. m /\ t[j] = s[from(j)] /\ from(k) \in 1 .. m /\ t[k] = s[from(k)]
      BY <2>1
    <3> QED BY <1>1, <1>11, <3>1 DEF Spells
  <2> QED BY <1>1, <2>2
<1>12. Spells(nx2, pv2, l, t)
  BY <1>1, <1>4, <1>10, <1>11 DEF Spells
<1> QED BY <1>3, <1>12


-----------------------------------------------------------------------------
(* A walk through a ring.                                                  *)

\* A set that holds zero and the successor of each number in it holds every
\* number.
LEMMA Induction ==
    ASSUME NEW S, 0 \in S, \A n \in Nat : n \in S => n + 1 \in S
    PROVE  Nat \subseteq S
<1> DEFINE T == {n \in Nat : n \notin S}
<1>1. SUFFICES ASSUME T # {} PROVE FALSE
  OBVIOUS
<1>2. \E x \in T : \A y \in T : ~ (y < x)
  <2> DEFINE R == {ss \in Nat \X Nat : ss[1] < ss[2]}
  <2>1. IsWellFoundedOn(R, Nat)
    <3>1. R = OpToRel(<, Nat)
      BY Zenon DEF OpToRel
    <3> QED BY <3>1, NatLessThanWellFounded, Zenon
  <2>2. T \subseteq Nat
    OBVIOUS
  <2>3. \A x, y \in Nat : <<y, x>> \in R <=> y < x
    OBVIOUS
  <2> HIDE DEF T, R
  <2>4. \E x \in T : \A y \in T : ~ (<<y, x>> \in R)
    BY <1>1, <2>1, <2>2, WFMin, Zenon
  <2> QED BY <2>2, <2>3, <2>4
<1>3. PICK x \in T : \A y \in T : ~ (y < x)
  BY <1>2
<1>4. x \in Nat /\ x # 0 /\ x - 1 \in Nat
  OBVIOUS
<1>5. x - 1 \in S
  BY <1>3, <1>4
<1>6. x - 1 + 1 \in S
  BY <1>4, <1>5
<1> QED BY <1>4, <1>6

\* s is the function of the sums of f's first 0 .. n values.

\* Walk as a function of the pointers, and what it computes with get_next.
WalkOf(nx, l) ==
    LET max == Cardinality(Items) + 1
        node[n \in 0 .. max] ==
          IF n = 0 THEN nx[l]
          ELSE IF node[n - 1] \in Items THEN nx[node[n - 1]] ELSE l
        ends == {n \in 0 .. max : node[n] \notin Items}
        len  == IF ends = {} THEN max ELSE CHOOSE n \in ends : \A k \in ends : n <= k
    IN  [n \in 1 .. len |-> node[n - 1]]

Follows(nx, l, m, f) ==
    f = [n \in 0 .. m |-> IF n = 0 THEN nx[l] ELSE IF f[n - 1] \in Items THEN nx[f[n - 1]] ELSE l]

\* Of a ring that spells s, the walk meets the items of s and then the head.
LEMMA NodesFollow ==
    ASSUME NEW l \in Lists, NEW nx, NEW pv, NEW s, Spells(nx, pv, l, s), NEW m \in Nat
    PROVE  Follows(nx, l, m, [n \in 0 .. m |-> Node(l, s, n + 1)])
<1> DEFINE f == [n \in 0 .. m |-> Node(l, s, n + 1)]
<1>1. Len(s) \in Nat /\ l \notin Items /\ \A k \in 1 .. Len(s) : s[k] \in Items
  BY ListAssumption DEF Spells
<1>2. ASSUME NEW n \in 0 .. m
      PROVE  Node(l, s, n + 1)
               = IF n = 0 THEN nx[l] ELSE IF f[n - 1] \in Items THEN nx[f[n - 1]] ELSE l
  <2>1. CASE n = 0
    <3>1. 0 \in 0 .. Len(s) /\ Node(l, s, 0) = l
      BY <1>1 DEF Node
    <3> QED BY <2>1, <3>1 DEF Spells
  <2>2. CASE n # 0
    <3>1. n - 1 \in 0 .. m /\ (n - 1) + 1 = n
      BY <2>2
    <3>2. f[n - 1] = Node(l, s, n)
      BY <3>1
    <3>3. CASE n \in 1 .. Len(s)
      <4>1. n \in 0 .. Len(s) /\ Node(l, s, n) \in Items
        BY <1>1, <3>3 DEF Node
      <4>2. nx[Node(l, s, n)] = Node(l, s, n + 1)
        BY <4>1 DEF Spells
      <4> HIDE DEF f
      <4> QED BY <2>2, <3>2, <4>1, <4>2
    <3>4. CASE n \notin 1 .. Len(s)
      <4>1. n + 1 \notin 1 .. Len(s)
        BY <1>1, <2>2, <3>4
      <4>2. Node(l, s, n) = l /\ Node(l, s, n + 1) = l
        BY <3>4, <4>1 DEF Node
      <4> HIDE DEF f
      <4> QED BY <1>1, <2>2, <3>2, <4>2
    <3> QED BY <3>3, <3>4
  <2> QED BY <2>1, <2>2
<1>3. f = [n \in 0 .. m |-> IF n = 0 THEN nx[l] ELSE IF f[n - 1] \in Items THEN nx[f[n - 1]] ELSE l]
  <2> DEFINE g(n) == IF n = 0 THEN nx[l] ELSE IF f[n - 1] \in Items THEN nx[f[n - 1]] ELSE l
  <2>1. \A n \in 0 .. m : f[n] = g(n)
    <3>1. \A n \in 0 .. m : f[n] = Node(l, s, n + 1)
      OBVIOUS
    <3> HIDE DEF f
    <3> QED BY <1>2, <3>1
  <2>2. f = [n \in 0 .. m |-> f[n]]
    OBVIOUS
  <2> HIDE DEF f, g
  <2>3. f = [n \in 0 .. m |-> g(n)]
    BY <2>1, <2>2
  <2> QED BY <2>3 DEF g
<1> HIDE DEF f
<1>4. Follows(nx, l, m, f)
  BY <1>3 DEF Follows
<1> QED BY <1>4 DEF f

\* There is one such walk.
LEMMA WalksAgree ==
    ASSUME NEW l, NEW nx, NEW m \in Nat, NEW f, Follows(nx, l, m, f), NEW g, Follows(nx, l, m, g)
    PROVE  f = g
<1> DEFINE S == {n \in Nat : n <= m => f[n] = g[n]}
<1>0. /\ \A n \in 0 .. m : f[n] = IF n = 0 THEN nx[l] ELSE IF f[n - 1] \in Items THEN nx[f[n - 1]] ELSE l
      /\ \A n \in 0 .. m : g[n] = IF n = 0 THEN nx[l] ELSE IF g[n - 1] \in Items THEN nx[g[n - 1]] ELSE l
  BY DEF Follows
<1>1. 0 \in S
  <2>1. 0 \in 0 .. m
    OBVIOUS
  <2>2. f[0] = nx[l] /\ g[0] = nx[l]
    BY <1>0, <2>1
  <2> QED BY <2>2
<1>2. ASSUME NEW n \in Nat, n \in S PROVE n + 1 \in S
  <2> SUFFICES ASSUME n + 1 <= m PROVE f[n + 1] = g[n + 1]
    OBVIOUS
  <2>1. f[n] = g[n] /\ n + 1 \in 0 .. m /\ n + 1 # 0 /\ (n + 1) - 1 = n
    BY <1>2
  <2>2. /\ f[n + 1] = IF f[n] \in Items THEN nx[f[n]] ELSE l
        /\ g[n + 1] = IF g[n] \in Items THEN nx[g[n]] ELSE l
    BY <1>0, <2>1
  <2> QED BY <2>1, <2>2
<1> HIDE DEF S
<1>3. Nat \subseteq S
  BY <1>1, <1>2, Induction
<1>4. \A n \in 0 .. m : f[n] = g[n]
  BY <1>3 DEF S
<1>5. f = [n \in 0 .. m |-> f[n]] /\ g = [n \in 0 .. m |-> g[n]]
  BY DEF Follows
<1> QED BY <1>4, <1>5

\* A list has no more items than there are.
LEMMA ShortWalks ==
    ASSUME NEW l, NEW nx, NEW pv, NEW s, Spells(nx, pv, l, s)
    PROVE  Len(s) \in Nat /\ Cardinality(Items) \in Nat /\ Len(s) <= Cardinality(Items)
<1>1. Len(s) \in Nat /\ \A k \in 1 .. Len(s) : s[k] \in Items
  BY DEF Spells
<1>2. Cardinality(Items) \in Nat
  BY ListAssumption, FS_CardinalityType
<1>3. s \in Injection(1 .. Len(s), Items)
  BY <1>1 DEF Spells, Injection, IsInjective
<1>4. Cardinality(1 .. Len(s)) <= Cardinality(Items)
  BY <1>3, ListAssumption, FS_Injection
<1>5. Cardinality(1 .. Len(s)) = Len(s)
  <2>1. Cardinality(1 .. Len(s)) = IF 1 > Len(s) THEN 0 ELSE Len(s) - 1 + 1
    BY <1>1, FS_Interval
  <2> QED BY <1>1, <2>1
<1> QED BY <1>1, <1>2, <1>4, <1>5

\* A walk reads what the links spell.
LEMMA WalkReads ==
    ASSUME NEW l \in Lists, NEW nx, NEW pv, NEW s, Spells(nx, pv, l, s)
    PROVE  WalkOf(nx, l) = s
<1>1. PICK m \in Nat : m = Cardinality(Items) + 1 /\ Len(s) \in Nat /\ Len(s) < m
  BY ShortWalks
<1> DEFINE g == [n \in 0 .. m |-> Node(l, s, n + 1)]
           f == CHOOSE f : Follows(nx, l, m, f)
           ends == {n \in 0 .. m : f[n] \notin Items}
           len  == IF ends = {} THEN m ELSE CHOOSE n \in ends : \A k \in ends : n <= k
<1>2. Follows(nx, l, m, g)
  BY <1>1, NodesFollow
<1>3. Follows(nx, l, m, f)
  <2> HIDE DEF g
  <2> QED BY <1>2
<1>4. \A n \in 0 .. m : f[n] = Node(l, s, n + 1)
  <2>1. f = g
    <3> HIDE DEF f, g
    <3> QED BY <1>1, <1>2, <1>3, WalksAgree
  <2> HIDE DEF f
  <2> QED BY <2>1
<1>5. WalkOf(nx, l) = [n \in 1 .. len |-> f[n - 1]]
  BY <1>1 DEF WalkOf, Follows
<1> HIDE DEF f
<1>6. len = Len(s)
  <2>1. \A n \in 0 .. m : f[n] \notin Items <=> n >= Len(s)
    <3> SUFFICES ASSUME NEW n \in 0 .. m PROVE f[n] \notin Items <=> n >= Len(s)
      OBVIOUS
    <3>1. n + 1 \in 1 .. Len(s) <=> ~ (n >= Len(s))
      BY <1>1
    <3>2. n + 1 \in 1 .. Len(s) => s[n + 1] \in Items
      BY DEF Spells
    <3> QED BY <1>4, <3>1, <3>2, ListAssumption DEF Node
  <2>2. Len(s) \in ends /\ \A k \in ends : k \in Int /\ Len(s) <= k
    BY <1>1, <2>1
  <2> HIDE DEF ends
  <2>3. PICK c : c = CHOOSE n \in ends : \A k \in ends : n <= k
    OBVIOUS
  <2>4. c \in ends /\ \A k \in ends : c <= k
    BY <2>2, <2>3
  <2>5. c = Len(s)
    BY <1>1, <2>2, <2>4
  <2> QED BY <2>2, <2>3, <2>5
<1> HIDE DEF len
<1>7. \A n \in 1 .. Len(s) : f[n - 1] = s[n]
  <2> SUFFICES ASSUME NEW n \in 1 .. Len(s) PROVE f[n - 1] = s[n]
    OBVIOUS
  <2>1. n - 1 \in 0 .. m /\ (n - 1) + 1 = n
    BY <1>1
  <2> QED BY <1>4, <2>1 DEF Node
<1>8. s = [n \in 1 .. Len(s) |-> s[n]]
  BY DEF Spells
<1> QED BY <1>5, <1>6, <1>7, <1>8


-----------------------------------------------------------------------------
(* Changes of one list.                                                    *)

\* s is what is on list l, by the links and by the items' own pointers to it.
Reads(nx, pv, ls, l, s) ==
    /\ Spells(nx, pv, l, s)
    /\ \A i \in Items : ls[i] = l <=> \E k \in 1 .. Len(s) : s[k] = i

Linkage == [Nodes -> Nodes \cup {Null}]
Places  == [Items -> Lists \cup {Null}]

\* Nothing of list l differs between two sets of pointers.
Untouched(nx, pv, ls, nx2, pv2, ls2, l) ==
    /\ nx2[l] = nx[l] /\ pv2[l] = pv[l]
    /\ \A i \in Items : ls[i] = l => nx2[i] = nx[i] /\ pv2[i] = pv[i]
    /\ \A i \in Items : ls2[i] = l <=> ls[i] = l

\* A list none of whose nodes is changed reads as before.
LEMMA ReadsElsewhere ==
    ASSUME NEW l \in Lists, NEW nx, NEW pv, NEW ls, NEW s, Reads(nx, pv, ls, l, s),
           NEW nx2, NEW pv2, NEW ls2,
           Untouched(nx, pv, ls, nx2, pv2, ls2, l)
    PROVE  Reads(nx2, pv2, ls2, l, s)
<1>1. ASSUME NEW k \in 0 .. Len(s) + 1
      PROVE  nx2[Node(l, s, k)] = nx[Node(l, s, k)] /\ pv2[Node(l, s, k)] = pv[Node(l, s, k)]
  <2>1. k \in 1 .. Len(s) => s[k] \in Items /\ ls[s[k]] = l
    BY DEF Reads, Spells
  <2> QED BY <2>1 DEF Node, Untouched
<1>2. \A k \in 0 .. Len(s) : k \in 0 .. Len(s) + 1 /\ k + 1 \in 0 .. Len(s) + 1
  BY DEF Reads, Spells
<1>3. Spells(nx2, pv2, l, s)
  BY <1>1, <1>2 DEF Reads, Spells
<1> QED BY <1>3 DEF Reads, Untouched

\* Item i is linked in between nodes p and q of list l.
LinkedIn(nx, pv, ls, nx2, pv2, ls2, l, i, p, q) ==
    /\ ls[i] = Null
    /\ nx2 = [nx EXCEPT ![i] = q, ![p] = i]
    /\ pv2 = [pv EXCEPT ![i] = p, ![q] = i]
    /\ ls2 = [ls EXCEPT ![i] = l]

\* Item i is taken out from between its neighbours.
TakenOut(nx, pv, ls, nx2, pv2, ls2, i) ==
    /\ nx2 = [nx EXCEPT ![pv[i]] = nx[i], ![i] = Null]
    /\ pv2 = [pv EXCEPT ![nx[i]] = pv[i], ![i] = Null]
    /\ ls2 = [ls EXCEPT ![i] = Null]

\* List l reads t, and every other list reads as before.
OneChanged(nx, pv, ls, nx2, pv2, ls2, l, t) ==
    /\ Reads(nx2, pv2, ls2, l, t)
    /\ \A k \in Lists : \A u : k # l /\ Reads(nx, pv, ls, k, u) => Reads(nx2, pv2, ls2, k, u)

\* An item is linked in at place n of list l.
LEMMA ReadsLinked ==
    ASSUME NEW l \in Lists, NEW nx \in Linkage, NEW pv \in Linkage, NEW ls \in Places,
           NEW s, Reads(nx, pv, ls, l, s), NEW n \in 1 .. Len(s) + 1, NEW i \in Items,
           NEW nx2, NEW pv2, NEW ls2,
           LinkedIn(nx, pv, ls, nx2, pv2, ls2, l, i, Node(l, s, n - 1), Node(l, s, n))
    PROVE  OneChanged(nx, pv, ls, nx2, pv2, ls2, l, Contents!InsertAt(s, n, i))
<1>a. PICK p, q : p = Node(l, s, n - 1) /\ q = Node(l, s, n)
  OBVIOUS
<1>b. /\ ls[i] = Null /\ ls2 = [ls EXCEPT ![i] = l]
      /\ nx2 = [nx EXCEPT ![i] = q, ![p] = i] /\ pv2 = [pv EXCEPT ![i] = p, ![q] = i]
  BY <1>a DEF LinkedIn
<1>0. PICK m \in Nat : m = Len(s) /\ s \in Seq(Items) /\ n \in 1 .. m + 1
  BY DEF Reads, Spells
<1>1. \A k \in 1 .. Len(s) : s[k] # i
  BY <1>b, ListAssumption DEF Reads
<1>2. PICK t : t = Contents!InsertAt(s, n, i)
  OBVIOUS
<1>3. Spells(nx2, pv2, l, t)
  BY <1>1, <1>2, <1>a, <1>b, SpellsLinked DEF Reads, Linkage
<1>4. \A j \in Items : ls2[j] = l <=> \E k \in 1 .. Len(t) : t[k] = j
  <2> SUFFICES ASSUME NEW j \in Items PROVE ls2[j] = l <=> \E k \in 1 .. Len(t) : t[k] = j
    OBVIOUS
  <2>1. Len(t) = m + 1
        /\ \A k \in 1 .. m + 1 : t[k] = IF k < n THEN s[k] ELSE IF k = n THEN i ELSE s[k - 1]
    <3>0. s \in Seq(Items) /\ n \in 1 .. Len(s) + 1
      BY <1>0
    <3>1. IsInserted(t, s, n, i)
      BY <1>2, <3>0, Inserted
    <3> QED BY <1>0, <3>1 DEF IsInserted
  <2>2. ls2[j] = l <=> j = i \/ ls[j] = l
    BY <1>b DEF Places
  <2>3. ls[j] = l <=> \E k \in 1 .. m : s[k] = j
    BY <1>0 DEF Reads
  <2>4. ASSUME NEW k \in 1 .. m PROVE \E h \in 1 .. m + 1 : t[h] = s[k]
    <3>1. CASE k < n
      <4>1. k \in 1 .. m + 1
        BY <1>0
      <4> QED BY <2>1, <3>1, <4>1
    <3>2. CASE k >= n
      <4>1. k + 1 \in 1 .. m + 1 /\ ~ (k + 1 < n) /\ k + 1 # n /\ (k + 1) - 1 = k
        BY <1>0, <3>2
      <4> QED BY <2>1, <4>1
    <3> QED BY <1>0, <3>1, <3>2
  <2>5. t[n] = i
    BY <1>0, <2>1
  <2>6. ASSUME NEW h \in 1 .. m + 1 PROVE t[h] = i \/ \E k \in 1 .. m : s[k] = t[h]
    <3>1. CASE h < n
      <4>1. h \in 1 .. m
        BY <1>0, <3>1
      <4> QED BY <2>1, <3>1, <4>1
    <3>2. CASE h > n
      <4>1. h - 1 \in 1 .. m /\ ~ (h < n) /\ h # n
        BY <1>0, <3>2
      <4> QED BY <2>1, <4>1
    <3> QED BY <1>0, <2>5, <3>1, <3>2
  <2>7. (\E k \in 1 .. m + 1 : t[k] = j) <=> j = i \/ \E k \in 1 .. m : s[k] = j
    BY <1>0, <2>4, <2>5, <2>6
  <2> QED BY <2>1, <2>2, <2>3, <2>7
<1>5. Reads(nx2, pv2, ls2, l, t)
  BY <1>3, <1>4 DEF Reads
<1>6. ASSUME NEW k \in Lists, NEW u, k # l, Reads(nx, pv, ls, k, u)
      PROVE  Reads(nx2, pv2, ls2, k, u)
  <2>1. \A j \in 0 .. m + 1 : Node(l, s, j) = l \/ (Node(l, s, j) \in Items /\ ls[Node(l, s, j)] = l)
    BY <1>0 DEF Node, Reads
  <2>2. n - 1 \in 0 .. m + 1 /\ n \in 0 .. m + 1
    BY <1>0
  <2>3. (p = l \/ (p \in Items /\ ls[p] = l)) /\ (q = l \/ (q \in Items /\ ls[q] = l))
    BY <1>a, <2>1, <2>2
  <2>4. k \in Nodes /\ k # i /\ k # p /\ k # q /\ k \notin Items /\ l \notin Items /\ k # Null
    BY <1>6, <2>3, ListAssumption DEF Nodes
  <2>5. /\ nx2[k] = nx[k] /\ pv2[k] = pv[k]
        /\ \A j \in Items : ls[j] = k => nx2[j] = nx[j] /\ pv2[j] = pv[j]
    BY <1>6, <2>3, <2>4, <1>b DEF Nodes, Linkage
  <2>6. \A j \in Items : ls2[j] = k <=> ls[j] = k
    BY <1>6, <2>4, <1>b DEF Places
  <2>7. Untouched(nx, pv, ls, nx2, pv2, ls2, k)
    BY <2>5, <2>6 DEF Untouched
  <2> QED BY <1>6, <2>7, ReadsElsewhere, Zenon
<1> QED BY <1>2, <1>5, <1>6, <1>a DEF OneChanged

\* The item at place n of list l is taken out.
LEMMA ReadsUnlinked ==
    ASSUME NEW l \in Lists, NEW nx \in Linkage, NEW pv \in Linkage, NEW ls \in Places,
           NEW s, Reads(nx, pv, ls, l, s), NEW n \in 1 .. Len(s),
           NEW nx2, NEW pv2, NEW ls2, TakenOut(nx, pv, ls, nx2, pv2, ls2, s[n])
    PROVE  OneChanged(nx, pv, ls, nx2, pv2, ls2, l, Contents!RemoveAt(s, n))
<1>a. PICK i, p, q : i = s[n] /\ p = pv[i] /\ q = nx[i]
  OBVIOUS
<1>b. /\ nx2 = [nx EXCEPT ![p] = q, ![i] = Null] /\ pv2 = [pv EXCEPT ![q] = p, ![i] = Null]
      /\ ls2 = [ls EXCEPT ![i] = Null]
  BY <1>a DEF TakenOut
<1>0. PICK m \in Nat : m = Len(s) /\ s \in Seq(Items) /\ n \in 1 .. m
  BY DEF Reads, Spells
<1>1. i \in Items /\ ls[i] = l
  BY <1>0, <1>a DEF Reads
<1>2. PICK t : t = Contents!RemoveAt(s, n)
  OBVIOUS
<1>3. Spells(nx2, pv2, l, t)
  BY <1>0, <1>2, <1>a, <1>b, SpellsUnlinked DEF Reads, Linkage
<1>4. \A j \in Items : ls2[j] = l <=> \E k \in 1 .. Len(t) : t[k] = j
  <2> SUFFICES ASSUME NEW j \in Items PROVE ls2[j] = l <=> \E k \in 1 .. Len(t) : t[k] = j
    OBVIOUS
  <2>1. Len(t) = m - 1 /\ \A k \in 1 .. m - 1 : t[k] = IF k < n THEN s[k] ELSE s[k + 1]
    BY <1>0, <1>2, Removed DEF IsRemoved
  <2>2. ls2[j] = l <=> j # i /\ ls[j] = l
    BY <1>1, <1>b, ListAssumption DEF Places
  <2>3. ls[j] = l <=> \E k \in 1 .. m : s[k] = j
    BY <1>0 DEF Reads
  <2>4. ASSUME NEW k \in 1 .. m, s[k] # i PROVE \E h \in 1 .. m - 1 : t[h] = s[k]
    <3>1. CASE k < n
      <4>1. k \in 1 .. m - 1
        BY <1>0, <3>1
      <4> QED BY <2>1, <3>1, <4>1
    <3>2. CASE k > n
      <4>1. k - 1 \in 1 .. m - 1 /\ ~ (k - 1 < n) /\ (k - 1) + 1 = k
        BY <1>0, <3>2
      <4> QED BY <2>1, <4>1
    <3> QED BY <1>a, <1>0, <2>4, <3>1, <3>2
  <2>5. ASSUME NEW h \in 1 .. m - 1 PROVE t[h] # i /\ \E k \in 1 .. m : s[k] = t[h]
    <3>1. CASE h < n
      <4>1. h \in 1 .. m /\ h # n
        BY <1>0, <3>1
      <4>2. s[h] # s[n]
        BY <1>0, <4>1 DEF Reads, Spells
      <4> QED BY <2>1, <3>1, <4>1, <4>2, <1>a
    <3>2. CASE ~ (h < n)
      <4>1. h + 1 \in 1 .. m /\ h + 1 # n
        BY <1>0, <3>2
      <4>2. s[h + 1] # s[n]
        BY <1>0, <4>1 DEF Reads, Spells
      <4> QED BY <2>1, <3>2, <4>1, <4>2, <1>a
    <3> QED BY <3>1, <3>2
  <2>6. (\E k \in 1 .. m - 1 : t[k] = j) <=> j # i /\ \E k \in 1 .. m : s[k] = j
    BY <1>a, <2>4, <2>5
  <2> QED BY <2>1, <2>2, <2>3, <2>6
<1>5. Reads(nx2, pv2, ls2, l, t)
  BY <1>3, <1>4 DEF Reads
<1>6. ASSUME NEW k \in Lists, NEW u, k # l, Reads(nx, pv, ls, k, u)
      PROVE  Reads(nx2, pv2, ls2, k, u)
  <2>1. \A j \in 0 .. m + 1 : Node(l, s, j) = l \/ (Node(l, s, j) \in Items /\ ls[Node(l, s, j)] = l)
    BY <1>0 DEF Node, Reads
  <2>2. p = Node(l, s, n - 1) /\ q = Node(l, s, n + 1)
    <3>1. n - 1 \in 0 .. m /\ n \in 0 .. m /\ (n - 1) + 1 = n
      BY <1>0
    <3>2. i = Node(l, s, n)
      BY <1>0, <1>a DEF Node
    <3>3. \A j \in 0 .. m : nx[Node(l, s, j)] = Node(l, s, j + 1) /\ pv[Node(l, s, j + 1)] = Node(l, s, j)
      BY <1>0 DEF Reads, Spells
    <3>4. pv[Node(l, s, (n - 1) + 1)] = Node(l, s, n - 1)
      BY <3>1, <3>3
    <3> QED BY <1>a, <3>1, <3>2, <3>3, <3>4
  <2>3. (p = l \/ (p \in Items /\ ls[p] = l)) /\ (q = l \/ (q \in Items /\ ls[q] = l))
    <3>1. n - 1 \in 0 .. m + 1 /\ n + 1 \in 0 .. m + 1
      BY <1>0
    <3> QED BY <2>1, <2>2, <3>1
  <2>4. k \in Nodes /\ k # i /\ k # p /\ k # q /\ k \notin Items /\ l \notin Items /\ k # Null
    BY <1>1, <1>6, <2>3, ListAssumption DEF Nodes
  <2>5. /\ nx2[k] = nx[k] /\ pv2[k] = pv[k]
        /\ \A j \in Items : ls[j] = k => nx2[j] = nx[j] /\ pv2[j] = pv[j]
    BY <1>1, <1>6, <2>3, <2>4, <1>b DEF Nodes, Linkage
  <2>6. \A j \in Items : ls2[j] = k <=> ls[j] = k
    BY <1>1, <1>6, <2>4, <1>b DEF Places
  <2>7. Untouched(nx, pv, ls, nx2, pv2, ls2, k)
    BY <2>5, <2>6 DEF Untouched
  <2> QED BY <1>6, <2>7, ReadsElsewhere, Zenon
<1> QED BY <1>2, <1>5, <1>6, <1>a DEF OneChanged


-----------------------------------------------------------------------------
(* What the lists hold.                                                    *)

\* What is on list l now, and next.
Reading(l, s) == Reads(next, prev, lst, l, s)

Spelled == \A l \in Lists : \E s : Reading(l, s)

SInv == IInv /\ Spelled

Walks == [l \in Lists |-> Walk(l)]

\* A walk tells what is on a list.
LEMMA WalkRead ==
    ASSUME NEW l \in Lists, NEW s
    PROVE  /\ Reading(l, s) => Walk(l) = s
           /\ Reading(l, s)' => Walk(l)' = s
<1>1. Walk(l) = WalkOf(next, l)
  BY DEF Walk, WalkOf
<1>2. Walk(l)' = WalkOf(next', l)
  BY DEF Walk, WalkOf
<1>3. ASSUME NEW nx, NEW pv, NEW ls, Reads(nx, pv, ls, l, s) PROVE WalkOf(nx, l) = s
  BY <1>3, WalkReads DEF Reads
<1>4. Reads(next, prev, lst, l, s) => WalkOf(next, l) = s
  BY <1>3, Zenon
<1>5. Reads(next', prev', lst', l, s) => WalkOf(next', l) = s
  BY <1>3, Zenon
<1> QED BY <1>1, <1>2, <1>4, <1>5 DEF Reading

\* A call that changes list l from s to t, and no other list.
LEMMA OneListChanged ==
    ASSUME Spelled, NEW l \in Lists, NEW s, Reading(l, s), NEW t, Reading(l, t)',
           \A k \in Lists : \A u : k # l /\ Reading(k, u) => Reading(k, u)'
    PROVE  /\ Spelled'
           /\ Walks[l] = s
           /\ Walks' = [Walks EXCEPT ![l] = t]
<1>1. ASSUME NEW k \in Lists, k # l PROVE \E u : Reading(k, u)' /\ Walk(k) = u /\ Walk(k)' = u
  <2>1. PICK u : Reading(k, u)
    BY DEF Spelled
  <2>2. Reading(k, u)'
    BY <1>1, <2>1
  <2> QED BY <2>1, <2>2, WalkRead
<1>2. Walk(l) = s /\ Walk(l)' = t
  BY WalkRead
<1>3. \A k \in Lists : \E u : Reading(k, u)'
  BY <1>1
<1>4. \A k \in Lists : k # l => Walk(k)' = Walk(k)
  BY <1>1
<1>5. Walks' = [k \in Lists |-> Walk(k)']
  BY DEF Walks
<1> DEFINE W(k) == Walk(k)
<1>6. Walks = [k \in Lists |-> W(k)] /\ \A k \in Lists : W(k) = Walk(k)
  BY DEF Walks
<1>7. Walks' = [k \in Lists |-> W(k)']
  BY <1>5
<1>8. \A k \in Lists : W(k)' = IF k = l THEN t ELSE W(k)
  BY <1>2, <1>4
<1>9. W(l) = s
  BY <1>2
<1> HIDE DEF W
<1>10. Walks' = [Walks EXCEPT ![l] = t] /\ Walks[l] = s
  BY <1>6, <1>7, <1>8, <1>9
<1> QED BY <1>3, <1>10 DEF Spelled

\* Calls that change no pointer.
LEMMA NoListChanged ==
    ASSUME Spelled, UNCHANGED <<next, prev, lst>>
    PROVE  Spelled' /\ Walks' = Walks
<1>1. \A k \in Lists : \A u : Reading(k, u)' <=> Reading(k, u)
  BY DEF Reading
<1>2. \A k \in Lists : Walk(k)' = Walk(k)
  <2> SUFFICES ASSUME NEW k \in Lists PROVE Walk(k)' = Walk(k)
    OBVIOUS
  <2>1. PICK u : Reading(k, u)
    BY DEF Spelled
  <2> QED BY <1>1, <2>1, WalkRead
<1>3. Walks' = [k \in Lists |-> Walk(k)']
  BY DEF Walks
<1>4. Walks' = Walks
  BY <1>2, <1>3 DEF Walks
<1>5. Spelled'
  BY <1>1 DEF Spelled
<1> QED BY <1>4, <1>5

\* The pointers from a node, and the item there, if any.
LEMMA NodeFacts ==
    ASSUME NEW l \in Lists, NEW s, Reading(l, s)
    PROVE  /\ s \in Seq(Items) /\ Len(s) \in Nat
           /\ \A k \in 0 .. Len(s) : next[Node(l, s, k)] = Node(l, s, k + 1)
           /\ \A k \in 1 .. Len(s) + 1 : prev[Node(l, s, k)] = Node(l, s, k - 1)
           /\ \A k \in Int : Item(l, Node(l, s, k)) = IF k \in 1 .. Len(s) THEN s[k] ELSE Null
           /\ Node(l, s, 0) = l /\ Node(l, s, Len(s) + 1) = l
<1>1. /\ s \in Seq(Items) /\ Len(s) \in Nat
      /\ \A k \in 0 .. Len(s) : /\ next[Node(l, s, k)] = Node(l, s, k + 1)
                                /\ prev[Node(l, s, k + 1)] = Node(l, s, k)
  BY DEF Reading, Reads, Spells
<1>2. ASSUME NEW k \in 1 .. Len(s) + 1 PROVE prev[Node(l, s, k)] = Node(l, s, k - 1)
  <2>1. k - 1 \in 0 .. Len(s) /\ (k - 1) + 1 = k
    BY <1>1
  <2>2. prev[Node(l, s, (k - 1) + 1)] = Node(l, s, k - 1)
    BY <1>1, <2>1
  <2> QED BY <2>1, <2>2
<1>3. ASSUME NEW k \in Int PROVE Item(l, Node(l, s, k)) = IF k \in 1 .. Len(s) THEN s[k] ELSE Null
  <2>1. k \in 1 .. Len(s) => s[k] \in Items /\ s[k] # l
    BY <1>1, ListAssumption
  <2> QED BY <2>1 DEF Item, Node
<1>4. Node(l, s, 0) = l /\ Node(l, s, Len(s) + 1) = l
  BY <1>1 DEF Node
<1> QED BY <1>1, <1>2, <1>3, <1>4

\* The place of an item on its list.
LEMMA PlaceOf ==
    ASSUME NEW l \in Lists, NEW s, Reading(l, s), Walks[l] = s, NEW i \in Items
    PROVE  /\ lst[i] = l <=> i \in Contents!OnList(l)
           /\ lst[i] = l =>
                \E n \in 1 .. Len(s) : s[n] = i /\ Contents!At(l, i) = n /\ Node(l, s, n) = i
<1>1. /\ s \in Seq(Items) /\ Len(s) \in Nat
      /\ \A j \in 1 .. Len(s), k \in 1 .. Len(s) : s[j] = s[k] => j = k
      /\ lst[i] = l <=> \E k \in 1 .. Len(s) : s[k] = i
  BY DEF Reading, Reads, Spells
<1>2. Walk(l) = s
  BY DEF Walks
<1>3. DOMAIN s = 1 .. Len(s)
  BY <1>1, LenProperties
<1>4. Contents!OnList(l) = {s[k] : k \in DOMAIN s}
  BY <1>2 DEF Contents!OnList, Contents!ToSet
<1>5. ASSUME lst[i] = l
      PROVE  \E n \in 1 .. Len(s) : s[n] = i /\ Contents!At(l, i) = n /\ Node(l, s, n) = i
  <2>1. PICK n \in 1 .. Len(s) : s[n] = i
    BY <1>1, <1>5
  <2>2. PICK c : c = CHOOSE k \in 1 .. Len(s) : s[k] = i
    OBVIOUS
  <2>3. c \in 1 .. Len(s) /\ s[c] = i
    BY <2>1, <2>2
  <2>4. c = n
    BY <1>1, <2>1, <2>3
  <2>5. Contents!At(l, i) = c
    BY <1>2, <2>2 DEF Contents!At
  <2> QED BY <2>1, <2>4, <2>5 DEF Node
<1> QED BY <1>1, <1>3, <1>4, <1>5

\* The item at a place of a list, if any, in ListContents.
LEMMA ItemThere ==
    ASSUME NEW l \in Lists, NEW s, Reading(l, s), Walks[l] = s, NEW n \in Int
    PROVE  Contents!ItemAt(l, n) = Item(l, Node(l, s, n))
<1>1. Walk(l) = s
  BY DEF Walks
<1>2. Contents!ItemAt(l, n) = IF n \in 1 .. Len(s) THEN s[n] ELSE Null
  BY <1>1 DEF Contents!ItemAt
<1> QED BY <1>2, NodeFacts


-----------------------------------------------------------------------------
(* The calls, each against ListContents.                                   *)

\* An item put at place n of a list.
LEMMA LinkInserts ==
    ASSUME SInv, NEW l \in Lists, NEW s, Reading(l, s), NEW n \in 1 .. Len(s) + 1, NEW i \in Items,
           Link(l, i, Node(l, s, n - 1), Node(l, s, n))
    PROVE  /\ Spelled'
           /\ Walks[l] = s
           /\ Contents!Insert(l, i, n)
<1>1. Spelled /\ next \in Linkage /\ prev \in Linkage /\ lst \in Places /\ lst[i] = Null
  BY DEF SInv, IInv, TypeOK, Linkage, Places, Link
<1>2. PICK nx, pv, ls : nx = next /\ pv = prev /\ ls = lst
  OBVIOUS
<1>3. PICK nx2, pv2, ls2 : nx2 = next' /\ pv2 = prev' /\ ls2 = lst'
  OBVIOUS
<1>4. nx \in Linkage /\ pv \in Linkage /\ ls \in Places /\ Reads(nx, pv, ls, l, s)
  BY <1>1, <1>2 DEF Reading
<1>5. PICK t : t = Contents!InsertAt(s, n, i)
  OBVIOUS
<1>6. OneChanged(nx, pv, ls, nx2, pv2, ls2, l, t)
  <2>1. LinkedIn(nx, pv, ls, nx2, pv2, ls2, l, i, Node(l, s, n - 1), Node(l, s, n))
    BY <1>2, <1>3 DEF Link, LinkedIn
  <2> QED BY <1>4, <1>5, <2>1, ReadsLinked
<1>7. /\ Reading(l, t)'
      /\ \A k \in Lists : \A u : k # l /\ Reading(k, u) => Reading(k, u)'
  BY <1>2, <1>3, <1>6, Zenon DEF Reading, OneChanged
<1>8. Spelled' /\ Walks[l] = s /\ Walks' = [Walks EXCEPT ![l] = t]
  BY <1>1, <1>7, OneListChanged
<1>9. Contents!Free(i)
  <2> SUFFICES ASSUME NEW k \in Lists PROVE i \notin Contents!OnList(k)
    BY DEF Contents!Free
  <2>1. PICK u : Reading(k, u)
    BY <1>1 DEF Spelled
  <2>2. Walks[k] = u
    BY <2>1, WalkRead DEF Walks
  <2>3. lst[i] # k
    BY <1>1, ListAssumption
  <2> QED BY <2>1, <2>2, <2>3, PlaceOf
<1>10. Walks' = [Walks EXCEPT ![l] = Contents!InsertAt(@, n, i)]
  BY <1>5, <1>8
<1>11. Contents!Insert(l, i, n)
  BY <1>9, <1>10 DEF Contents!Insert, Walks, Link
<1> QED BY <1>8, <1>11

\* The item at place n of a list taken out.
LEMMA UnlinkDrops ==
    ASSUME SInv, NEW l \in Lists, NEW s, Reading(l, s), NEW n \in 1 .. Len(s), NEW i \in Items,
           i = s[n], Unlink(l, i)
    PROVE  /\ Spelled'
           /\ Walks[l] = s
           /\ Contents!Drop(l, i)
<1>1. Spelled /\ next \in Linkage /\ prev \in Linkage /\ lst \in Places
  BY DEF SInv, IInv, TypeOK, Linkage, Places
<1>2. PICK nx, pv, ls : nx = next /\ pv = prev /\ ls = lst
  OBVIOUS
<1>3. PICK nx2, pv2, ls2 : nx2 = next' /\ pv2 = prev' /\ ls2 = lst'
  OBVIOUS
<1>4. nx \in Linkage /\ pv \in Linkage /\ ls \in Places /\ Reads(nx, pv, ls, l, s)
  BY <1>1, <1>2 DEF Reading
<1>5. PICK t : t = Contents!RemoveAt(s, n)
  OBVIOUS
<1>6. OneChanged(nx, pv, ls, nx2, pv2, ls2, l, t)
  <2>1. TakenOut(nx, pv, ls, nx2, pv2, ls2, s[n])
    BY <1>2, <1>3 DEF Unlink, TakenOut
  <2> QED BY <1>4, <1>5, <2>1, ReadsUnlinked
<1>7. /\ Reading(l, t)'
      /\ \A k \in Lists : \A u : k # l /\ Reading(k, u) => Reading(k, u)'
  BY <1>2, <1>3, <1>6, Zenon DEF Reading, OneChanged
<1>8. Spelled' /\ Walks[l] = s /\ Walks' = [Walks EXCEPT ![l] = t]
  BY <1>1, <1>7, OneListChanged
<1>9. Contents!At(l, i) = n
  <2>1. lst[i] = l
    BY DEF Reading, Reads
  <2>2. PICK m \in 1 .. Len(s) : s[m] = i /\ Contents!At(l, i) = m
    BY <1>8, <2>1, PlaceOf
  <2> QED BY <2>2 DEF Reading, Reads, Spells
<1>10. Walks' = [Walks EXCEPT ![l] = Contents!RemoveAt(@, Contents!At(l, i))]
  BY <1>5, <1>8, <1>9
<1>11. Contents!Drop(l, i)
  BY <1>10 DEF Contents!Drop, Walks
<1> QED BY <1>8, <1>11

\* The item next to the head dequeued, at either end.
LEMMA DequeueDrops ==
    ASSUME SInv, NEW l \in Lists, NEW s, Reading(l, s), NEW n \in Int, s # << >> => n \in 1 .. Len(s),
           Dequeue(l, Node(l, s, n))
    PROVE  Spelled' /\ Walks[l] = s /\ Contents!Dequeue(l, n)
<1>1. Walks[l] = s /\ Walk(l) = s
  BY WalkRead DEF Walks
<1>2. s \in Seq(Items) /\ l \notin Items
  BY NodeFacts, ListAssumption
<1>3. result' = Contents!ItemAt(l, n)
  BY <1>1, ItemThere DEF Dequeue
<1>4. CASE s = << >>
  <2>1. Node(l, s, n) = l
    BY <1>4 DEF Node
  <2>2. UNCHANGED <<next, prev, lst>>
    BY <2>1 DEF Dequeue
  <2>3. Spelled' /\ Walks' = Walks
    BY <2>2, NoListChanged DEF SInv
  <2>4. Contents!Dequeue(l, n)
    BY <1>1, <1>3, <1>4, <2>3 DEF Contents!Dequeue, Walks
  <2> QED BY <1>1, <2>3, <2>4
<1>5. CASE s # << >>
  <2>1. n \in 1 .. Len(s) /\ Node(l, s, n) = s[n] /\ s[n] \in Items
    BY <1>2, <1>5 DEF Node
  <2>2. PICK i \in Items : i = s[n]
    BY <2>1
  <2>3. Unlink(l, i) /\ result' = i
    BY <1>2, <2>1, <2>2 DEF Dequeue, Item
  <2>4. Spelled' /\ Contents!Drop(l, i)
    BY <2>1, <2>2, <2>3, UnlinkDrops
  <2>5. Contents!Drop(l, result')
    BY <2>3, <2>4, Zenon
  <2>6. Contents!Dequeue(l, n)
    BY <1>1, <1>3, <1>5, <2>5 DEF Contents!Dequeue
  <2> QED BY <1>1, <2>4, <2>6
<1> QED BY <1>4, <1>5

\* What is put in front of a sequence.
LEMMA InFront ==
    ASSUME NEW t \in Seq(Items), NEW i \in Items
    PROVE  Contents!InsertAt(t, 1, i) = <<i>> \o t
<1>1. PICK m \in Nat : m = Len(t)
  OBVIOUS
<1>2. 1 \in 1 .. Len(t) + 1
  BY <1>1
<1>3. PICK d : d = Contents!InsertAt(t, 1, i)
  OBVIOUS
<1>4. /\ d \in Seq(Items) /\ Len(d) = m + 1
      /\ \A k \in 1 .. m + 1 : d[k] = IF k < 1 THEN t[k] ELSE IF k = 1 THEN i ELSE t[k - 1]
  <2>1. IsInserted(d, t, 1, i)
    BY <1>2, <1>3, Inserted
  <2> QED BY <1>1, <2>1 DEF IsInserted
<1>5. PICK c : c = <<i>> \o t
  OBVIOUS
<1>6. /\ c \in Seq(Items) /\ Len(c) = m + 1
      /\ \A k \in 1 .. m + 1 : c[k] = IF k <= 1 THEN i ELSE t[k - 1]
  <2>1. <<i>> \in Seq(Items) /\ Len(<<i>>) = 1 /\ <<i>>[1] = i
    OBVIOUS
  <2>2. /\ c \in Seq(Items) /\ Len(c) = Len(<<i>>) + Len(t)
        /\ \A k \in 1 .. Len(<<i>>) + Len(t) :
             c[k] = IF k <= Len(<<i>>) THEN <<i>>[k] ELSE t[k - Len(<<i>>)]
    BY <1>5, <2>1, ConcatProperties
  <2>3. 1 + m = m + 1 /\ \A k \in 1 .. m + 1 : k <= 1 => k = 1
    BY <1>1
  <2> QED BY <1>1, <2>1, <2>2, <2>3
<1>7. \A k \in 1 .. m + 1 : d[k] = c[k]
  <2> SUFFICES ASSUME NEW k \in 1 .. m + 1 PROVE d[k] = c[k]
    OBVIOUS
  <2>1. ~ (k < 1) /\ (k <= 1 <=> k = 1)
    BY <1>1
  <2> QED BY <1>4, <1>6, <2>1
<1>8. d = c
  BY <1>4, <1>6, <1>7, SeqEqual
<1> QED BY <1>3, <1>5, <1>8

\* What is on a list after one change and then another.
LEMMA ChangedTwice ==
    ASSUME NEW nx, NEW pv, NEW ls, NEW nx1, NEW pv1, NEW ls1, NEW nx2, NEW pv2, NEW ls2,
           NEW l, NEW t, NEW u,
           OneChanged(nx, pv, ls, nx1, pv1, ls1, l, t),
           OneChanged(nx1, pv1, ls1, nx2, pv2, ls2, l, u)
    PROVE  OneChanged(nx, pv, ls, nx2, pv2, ls2, l, u)
BY Zenon DEF OneChanged

\* The pointers of promote are those of a removal and an insertion at the head.
LEMMA PromoteLinks ==
    ASSUME NEW l \in Lists, NEW nx \in Linkage, NEW pv \in Linkage, NEW ls \in Places,
           NEW s, Reads(nx, pv, ls, l, s), NEW n \in 1 .. Len(s), NEW i \in Items, i = s[n],
           NEW nx2, NEW pv2, NEW first,
           first = IF nx[l] = i THEN nx[i] ELSE nx[l],
           nx2 = [nx EXCEPT ![pv[i]] = nx[i], ![i] = first, ![l] = i],
           pv2 = [pv EXCEPT ![nx[i]] = pv[i], ![i] = l, ![first] = i]
    PROVE  OneChanged(nx, pv, ls, nx2, pv2, ls, l, <<i>> \o Contents!RemoveAt(s, n))
<1>1. PICK nx1, pv1, ls1 : /\ nx1 = [nx EXCEPT ![pv[i]] = nx[i], ![i] = Null]
                           /\ pv1 = [pv EXCEPT ![nx[i]] = pv[i], ![i] = Null]
                           /\ ls1 = [ls EXCEPT ![i] = Null]
  OBVIOUS
<1>2. PICK t : t = Contents!RemoveAt(s, n)
  OBVIOUS
<1>3. OneChanged(nx, pv, ls, nx1, pv1, ls1, l, t)
  <2>1. TakenOut(nx, pv, ls, nx1, pv1, ls1, s[n])
    BY <1>1 DEF TakenOut
  <2> QED BY <1>2, <2>1, ReadsUnlinked
<1>4. nx[l] = i <=> pv[i] = l
  <2>1. PICK m \in Nat : m = Len(s) /\ s \in Seq(Items) /\ n \in 1 .. m
    BY DEF Reads, Spells
  <2>2. \A k \in 0 .. m : nx[Node(l, s, k)] = Node(l, s, k + 1) /\ pv[Node(l, s, k + 1)] = Node(l, s, k)
    BY <2>1 DEF Reads, Spells
  <2>3. Node(l, s, 0) = l /\ Node(l, s, n) = i /\ 0 \in 0 .. m /\ n - 1 \in 0 .. m /\ (n - 1) + 1 = n
    BY <2>1 DEF Node
  <2>4. nx[l] = Node(l, s, 1) /\ pv[Node(l, s, 1)] = l
    BY <2>2, <2>3
  <2>5. nx[Node(l, s, n - 1)] = i /\ pv[i] = Node(l, s, n - 1)
    <3>1. nx[Node(l, s, n - 1)] = Node(l, s, (n - 1) + 1) /\ pv[Node(l, s, (n - 1) + 1)] = Node(l, s, n - 1)
      BY <2>2, <2>3
    <3> QED BY <2>3, <3>1
  <2> QED BY <2>4, <2>5
<1>5. ls[i] = l /\ l # i /\ l \in Nodes /\ i \in Nodes
  BY ListAssumption DEF Reads, Nodes
<1>6. nx1 \in Linkage /\ pv1 \in Linkage /\ ls1 \in Places
  <2>1. nx[i] \in Nodes \cup {Null} /\ pv[i] \in Nodes \cup {Null}
    BY <1>5 DEF Linkage
  <2> QED BY <1>1, <2>1 DEF Linkage, Places
<1>7. /\ Reads(nx1, pv1, ls1, l, t) /\ t \in Seq(Items) /\ Len(t) \in Nat
      /\ Node(l, t, 0) = l /\ Node(l, t, 1) = nx1[l]
  <2>1. Reads(nx1, pv1, ls1, l, t) /\ t \in Seq(Items) /\ Len(t) \in Nat
    BY <1>3 DEF OneChanged, Reads, Spells
  <2>2. Node(l, t, 0) = l /\ 0 \in 0 .. Len(t) /\ 0 + 1 = 1
    BY <2>1 DEF Node
  <2>3. nx1[Node(l, t, 0)] = Node(l, t, 0 + 1)
    BY <2>1, <2>2 DEF Reads, Spells
  <2> QED BY <2>1, <2>2, <2>3
<1>8. nx1[l] = first
  BY <1>1, <1>4, <1>5 DEF Linkage
<1>9. LinkedIn(nx1, pv1, ls1, nx2, pv2, ls, l, i, l, first)
  <2>1. ls1[i] = Null /\ ls = [ls1 EXCEPT ![i] = l]
    BY <1>1, <1>5 DEF Places
  <2>2. nx2 = [nx1 EXCEPT ![i] = first, ![l] = i]
    BY <1>1, <1>5, <1>6 DEF Linkage
  <2>3. pv2 = [pv1 EXCEPT ![i] = l, ![first] = i]
    BY <1>1, <1>5, <1>6 DEF Linkage
  <2> QED BY <2>1, <2>2, <2>3 DEF LinkedIn
<1>10. OneChanged(nx1, pv1, ls1, nx2, pv2, ls, l, Contents!InsertAt(t, 1, i))
  <2>1. 1 \in 1 .. Len(t) + 1 /\ 1 - 1 = 0
    BY <1>7
  <2>2. LinkedIn(nx1, pv1, ls1, nx2, pv2, ls, l, i, Node(l, t, 1 - 1), Node(l, t, 1))
    BY <1>7, <1>8, <1>9, <2>1
  <2> QED BY <1>6, <1>7, <2>1, <2>2, ReadsLinked
<1>11. OneChanged(nx, pv, ls, nx2, pv2, ls, l, Contents!InsertAt(t, 1, i))
  BY <1>3, <1>10, ChangedTwice
<1> QED BY <1>2, <1>7, <1>11, InFront

\* promote.
LEMMA PromoteMoves ==
    ASSUME SInv, NEW l \in Lists, NEW i \in Items, Promote(l, i)
    PROVE  Spelled' /\ Contents!Promote(l, i)
<1>1. Spelled /\ next \in Linkage /\ prev \in Linkage /\ lst \in Places /\ lst[i] = l
  BY DEF SInv, IInv, TypeOK, Linkage, Places, Promote
<1>2. PICK s : Reading(l, s)
  BY <1>1 DEF Spelled
<1>3. Walks[l] = s
  BY <1>2, WalkRead DEF Walks
<1>4. PICK n \in 1 .. Len(s) : s[n] = i /\ Contents!At(l, i) = n
  BY <1>1, <1>2, <1>3, PlaceOf
<1>5. PICK nx, pv, ls, first : /\ nx = next /\ pv = prev /\ ls = lst
                               /\ first = IF next[l] = i THEN next[i] ELSE next[l]
  OBVIOUS
<1>6. PICK nx2, pv2 : nx2 = next' /\ pv2 = prev'
  OBVIOUS
<1>7. PICK t : t = <<i>> \o Contents!RemoveAt(s, n)
  OBVIOUS
<1>8. OneChanged(nx, pv, ls, nx2, pv2, ls, l, t)
  <2>1. /\ nx \in Linkage /\ pv \in Linkage /\ ls \in Places /\ Reads(nx, pv, ls, l, s)
        /\ first = IF nx[l] = i THEN nx[i] ELSE nx[l]
        /\ nx2 = [nx EXCEPT ![pv[i]] = nx[i], ![i] = first, ![l] = i]
        /\ pv2 = [pv EXCEPT ![nx[i]] = pv[i], ![i] = l, ![first] = i]
    BY <1>1, <1>2, <1>5, <1>6 DEF Promote, Reading
  <2> QED BY <1>4, <1>7, <2>1, PromoteLinks
<1>9. ls = lst'
  BY <1>5 DEF Promote
<1>10. /\ Reading(l, t)'
       /\ \A k \in Lists : \A u : k # l /\ Reading(k, u) => Reading(k, u)'
  BY <1>5, <1>6, <1>8, <1>9, Zenon DEF Reading, OneChanged
<1>11. Spelled' /\ Walks' = [Walks EXCEPT ![l] = t]
  BY <1>1, <1>2, <1>10, OneListChanged
<1>12. Walks' = [Walks EXCEPT ![l] = <<i>> \o Contents!RemoveAt(@, Contents!At(l, i))]
  BY <1>3, <1>4, <1>7, <1>11
<1>13. i \in Contents!OnList(l)
  BY <1>1, <1>2, <1>3, PlaceOf
<1>14. Contents!Promote(l, i)
  BY <1>12, <1>13 DEF Contents!Promote, Walks, Promote
<1> QED BY <1>11, <1>14

\* An item that is deleted and constructed again was on no list.
LEMMA ConstructHides ==
    ASSUME SInv, NEW i \in Items, Construct(i)
    PROVE  Spelled' /\ UNCHANGED Contents!vars
<1>1. PICK nx, pv, ls, nx2, pv2 : /\ nx = next /\ pv = prev /\ ls = lst
                                  /\ nx2 = next' /\ pv2 = prev'
  OBVIOUS
<1>2. /\ nx2 = [nx EXCEPT ![i] = i] /\ pv2 = [pv EXCEPT ![i] = i]
      /\ ls[i] = Null /\ nx \in Linkage /\ pv \in Linkage
  BY <1>1 DEF SInv, IInv, TypeOK, Linkage, Construct
<1>3. ASSUME NEW k \in Lists, NEW u, Reads(nx, pv, ls, k, u) PROVE Reads(nx2, pv2, ls, k, u)
  <2>1. Untouched(nx, pv, ls, nx2, pv2, ls, k)
    BY <1>2, ListAssumption DEF Untouched, Linkage, Nodes
  <2> QED BY <1>3, <2>1, ReadsElsewhere
<1>4. lst' = ls
  BY <1>1 DEF Construct
<1>5. \A k \in Lists : \A u : Reading(k, u) => Reading(k, u)'
  BY <1>1, <1>3, <1>4, Zenon DEF Reading
<1>6. \A k \in Lists : \E u : Reading(k, u) /\ Reading(k, u)'
  BY <1>5 DEF SInv, Spelled
<1>7. \A k \in Lists : Walk(k)' = Walk(k)
  BY <1>6, WalkRead
<1>8. Walks' = [k \in Lists |-> Walk(k)']
  BY DEF Walks
<1>9. Walks' = Walks
  BY <1>7, <1>8 DEF Walks
<1>10. Spelled'
  BY <1>6 DEF Spelled
<1> QED BY <1>9, <1>10 DEF Contents!vars, Walks, Construct

\* add_head, add_tail.
LEMMA AddsAtEnds ==
    ASSUME SInv, NEW l \in Lists, NEW i \in Items
    PROVE  /\ AddHead(l, i) => Spelled' /\ Contents!AddHead(l, i)
           /\ AddTail(l, i) => Spelled' /\ Contents!AddTail(l, i)
<1>1. PICK s : Reading(l, s)
  BY DEF SInv, Spelled
<1>2. PICK m \in Nat : m = Len(s)
  BY <1>1, NodeFacts
<1>3. Walk(l) = s
  BY <1>1, WalkRead
<1>4. ASSUME AddHead(l, i) PROVE Spelled' /\ Contents!AddHead(l, i)
  <2>1. 1 \in 1 .. m + 1 /\ 1 - 1 = 0 /\ 0 \in 0 .. m /\ 0 + 1 = 1
    OBVIOUS
  <2>2. Node(l, s, 0) = l /\ next[Node(l, s, 0)] = Node(l, s, 0 + 1)
    BY <1>1, <1>2, <2>1, NodeFacts
  <2>3. Link(l, i, Node(l, s, 1 - 1), Node(l, s, 1))
    BY <1>4, <2>1, <2>2 DEF AddHead
  <2> QED BY <1>1, <1>2, <2>1, <2>3, LinkInserts DEF Contents!AddHead
<1>5. ASSUME AddTail(l, i) PROVE Spelled' /\ Contents!AddTail(l, i)
  <2>1. m + 1 \in 1 .. m + 1 /\ (m + 1) - 1 = m
    OBVIOUS
  <2>2. Node(l, s, m + 1) = l /\ prev[Node(l, s, m + 1)] = Node(l, s, (m + 1) - 1)
    BY <1>1, <1>2, <2>1, NodeFacts
  <2>3. Link(l, i, Node(l, s, (m + 1) - 1), Node(l, s, m + 1))
    BY <1>5, <2>1, <2>2 DEF AddTail
  <2>4. Spelled' /\ Contents!Insert(l, i, m + 1)
    BY <1>1, <1>2, <2>1, <2>3, LinkInserts
  <2> QED BY <1>2, <1>3, <2>4 DEF Contents!AddTail
<1> QED BY <1>4, <1>5

\* add_before, add_after.
LEMMA AddsAtItems ==
    ASSUME SInv, NEW l \in Lists, NEW i \in Items, NEW e \in Items
    PROVE  /\ AddBefore(l, i, e) => Spelled' /\ Contents!AddBefore(l, i, e)
           /\ AddAfter(l, i, e) => Spelled' /\ Contents!AddAfter(l, i, e)
<1>1. PICK s : Reading(l, s)
  BY DEF SInv, Spelled
<1>2. PICK m \in Nat : m = Len(s)
  BY <1>1, NodeFacts
<1>3. Walks[l] = s
  BY <1>1, WalkRead DEF Walks
<1>4. ASSUME lst[e] = l
      PROVE  \E n \in 1 .. m : /\ e \in Contents!OnList(l) /\ Contents!At(l, e) = n
                               /\ Node(l, s, n) = e
  BY <1>1, <1>2, <1>3, <1>4, PlaceOf
<1>5. ASSUME AddBefore(l, i, e) PROVE Spelled' /\ Contents!AddBefore(l, i, e)
  <2>1. PICK n \in 1 .. m : /\ e \in Contents!OnList(l) /\ Contents!At(l, e) = n
                            /\ Node(l, s, n) = e
    BY <1>4, <1>5 DEF AddBefore
  <2>2. n \in 1 .. m + 1
    OBVIOUS
  <2>3. prev[Node(l, s, n)] = Node(l, s, n - 1)
    BY <1>1, <1>2, <2>2, NodeFacts
  <2>4. Link(l, i, Node(l, s, n - 1), Node(l, s, n))
    BY <1>5, <2>1, <2>3 DEF AddBefore
  <2>5. Spelled' /\ Contents!Insert(l, i, n)
    BY <1>1, <1>2, <2>2, <2>4, LinkInserts
  <2> QED BY <2>1, <2>5 DEF Contents!AddBefore
<1>6. ASSUME AddAfter(l, i, e) PROVE Spelled' /\ Contents!AddAfter(l, i, e)
  <2>1. PICK n \in 1 .. m : /\ e \in Contents!OnList(l) /\ Contents!At(l, e) = n
                            /\ Node(l, s, n) = e
    BY <1>4, <1>6 DEF AddAfter
  <2>2. n + 1 \in 1 .. m + 1 /\ n \in 0 .. m /\ (n + 1) - 1 = n
    OBVIOUS
  <2>3. next[Node(l, s, n)] = Node(l, s, n + 1)
    BY <1>1, <1>2, <2>2, NodeFacts
  <2>4. Link(l, i, Node(l, s, (n + 1) - 1), Node(l, s, n + 1))
    BY <1>6, <2>1, <2>2, <2>3 DEF AddAfter
  <2>5. Spelled' /\ Contents!Insert(l, i, n + 1)
    BY <1>1, <1>2, <2>2, <2>4, LinkInserts
  <2> QED BY <2>1, <2>5 DEF Contents!AddAfter
<1> QED BY <1>5, <1>6

\* remove.
LEMMA RemoveDrops ==
    ASSUME SInv, NEW l \in Lists, NEW i \in Items, Remove(l, i)
    PROVE  Spelled' /\ Contents!RemoveItem(l, i)
<1>1. PICK s : Reading(l, s)
  BY DEF SInv, Spelled
<1>2. Walks[l] = s
  BY <1>1, WalkRead DEF Walks
<1>3. PICK n \in 1 .. Len(s) : s[n] = i /\ i \in Contents!OnList(l)
  BY <1>1, <1>2, PlaceOf DEF Remove
<1>4. Unlink(l, i)
  BY DEF Remove
<1>5. Spelled' /\ Contents!Drop(l, i)
  BY <1>1, <1>3, <1>4, UnlinkDrops
<1> QED BY <1>3, <1>5 DEF Contents!RemoveItem, Remove

\* dequeue_head, dequeue_tail, get_head, get_tail.
LEMMA EndCalls ==
    ASSUME SInv, NEW l \in Lists
    PROVE  /\ DequeueHead(l) => Spelled' /\ Contents!DequeueHead(l)
           /\ DequeueTail(l) => Spelled' /\ Contents!DequeueTail(l)
           /\ GetHead(l) => Spelled' /\ Contents!GetHead(l)
           /\ GetTail(l) => Spelled' /\ Contents!GetTail(l)
<1>1. PICK s : Reading(l, s)
  BY DEF SInv, Spelled
<1>2. PICK m \in Nat : m = Len(s) /\ s \in Seq(Items)
  BY <1>1, NodeFacts
<1>3. Walk(l) = s /\ Walks[l] = s
  BY <1>1, WalkRead DEF Walks
<1>4. next[l] = Node(l, s, 1) /\ prev[l] = Node(l, s, m)
  <2>1. 0 \in 0 .. m /\ 0 + 1 = 1 /\ m + 1 \in 1 .. m + 1 /\ (m + 1) - 1 = m
    OBVIOUS
  <2>2. Node(l, s, 0) = l /\ Node(l, s, m + 1) = l
    BY <1>1, <1>2, NodeFacts
  <2>3. next[Node(l, s, 0)] = Node(l, s, 0 + 1) /\ prev[Node(l, s, m + 1)] = Node(l, s, (m + 1) - 1)
    BY <1>1, <1>2, <2>1, NodeFacts
  <2> QED BY <2>1, <2>2, <2>3
<1>5. s # << >> => 1 \in 1 .. m /\ m \in 1 .. m
  BY <1>2
<1>6. DequeueHead(l) => Spelled' /\ Contents!DequeueHead(l)
  BY <1>1, <1>2, <1>4, <1>5, DequeueDrops DEF DequeueHead, Contents!DequeueHead
<1>7. DequeueTail(l) => Spelled' /\ Contents!DequeueTail(l)
  <2> SUFFICES ASSUME DequeueTail(l) PROVE Spelled' /\ Contents!DequeueTail(l)
    OBVIOUS
  <2>1. Spelled' /\ Contents!Dequeue(l, m)
    BY <1>1, <1>2, <1>4, <1>5, DequeueDrops DEF DequeueTail
  <2> QED BY <1>2, <1>3, <2>1 DEF Contents!DequeueTail
<1>8. ASSUME UNCHANGED <<next, prev, lst>>
      PROVE  Spelled' /\ [k \in Lists |-> Walk(k)]' = [k \in Lists |-> Walk(k)]
  BY <1>8, NoListChanged DEF SInv, Walks
<1>9. Contents!ItemAt(l, 1) = Item(l, next[l]) /\ Contents!ItemAt(l, m) = Item(l, prev[l])
  BY <1>1, <1>3, <1>4, ItemThere
<1>10. GetHead(l) => Spelled' /\ Contents!GetHead(l)
  BY <1>8, <1>9 DEF GetHead, Answer, Contents!GetHead, Contents!Answer
<1>11. GetTail(l) => Spelled' /\ Contents!GetTail(l)
  BY <1>2, <1>3, <1>8, <1>9 DEF GetTail, Answer, Contents!GetTail, Contents!Answer
<1> QED BY <1>6, <1>7, <1>10, <1>11

\* get_next, get_prev.
LEMMA NeighbourCalls ==
    ASSUME SInv, NEW l \in Lists, NEW i \in Items
    PROVE  /\ GetNext(l, i) => Spelled' /\ Contents!GetNext(l, i)
           /\ GetPrev(l, i) => Spelled' /\ Contents!GetPrev(l, i)
<1>1. PICK s : Reading(l, s)
  BY DEF SInv, Spelled
<1>2. PICK m \in Nat : m = Len(s)
  BY <1>1, NodeFacts
<1>3. Walks[l] = s
  BY <1>1, WalkRead DEF Walks
<1>4. SUFFICES ASSUME lst[i] = l, UNCHANGED <<next, prev, lst>>
               PROVE  /\ GetNext(l, i) => Spelled' /\ Contents!GetNext(l, i)
                      /\ GetPrev(l, i) => Spelled' /\ Contents!GetPrev(l, i)
  BY DEF GetNext, GetPrev, Answer
<1>5. PICK n \in 1 .. m : /\ i \in Contents!OnList(l) /\ Contents!At(l, i) = n
                          /\ Node(l, s, n) = i
  BY <1>1, <1>2, <1>3, <1>4, PlaceOf
<1>6. next[i] = Node(l, s, n + 1) /\ prev[i] = Node(l, s, n - 1)
  <2>1. n \in 0 .. m /\ n \in 1 .. m + 1
    OBVIOUS
  <2> QED BY <1>1, <1>2, <1>5, <2>1, NodeFacts
<1>7. Contents!ItemAt(l, n + 1) = Item(l, next[i]) /\ Contents!ItemAt(l, n - 1) = Item(l, prev[i])
  BY <1>1, <1>3, <1>6, ItemThere
<1>8. Spelled' /\ [k \in Lists |-> Walk(k)]' = [k \in Lists |-> Walk(k)]
  BY <1>4, NoListChanged DEF SInv, Walks
<1>9. GetNext(l, i) => Contents!GetNext(l, i)
  BY <1>5, <1>7, <1>8 DEF GetNext, Answer, Contents!GetNext, Contents!Answer
<1>10. GetPrev(l, i) => Contents!GetPrev(l, i)
  BY <1>5, <1>7, <1>8 DEF GetPrev, Answer, Contents!GetPrev, Contents!Answer
<1> QED BY <1>8, <1>9, <1>10

\* Every call is the call of the same name in ListContents.
LEMMA CallsSame == SInv => SameCall
BY ConstructHides, EndCalls, AddsAtEnds, AddsAtItems, RemoveDrops, PromoteMoves, NeighbourCalls
   DEF SameCall

\* Every call leaves links that spell out lists.
LEMMA SpelledNext == SInv /\ [Next]_vars => SInv'
<1> SUFFICES ASSUME SInv, [Next]_vars PROVE Spelled'
  BY InvNext DEF SInv
<1>1. CASE UNCHANGED vars
  BY <1>1, NoListChanged DEF vars, SInv
<1>2. ASSUME NEW i \in Items, Construct(i) PROVE Spelled'
  BY <1>2, ConstructHides
<1>3. ASSUME NEW l \in Lists, DequeueHead(l) \/ DequeueTail(l) \/ GetHead(l) \/ GetTail(l)
      PROVE  Spelled'
  BY <1>3, EndCalls
<1>4. ASSUME NEW l \in Lists, NEW i \in Items,
             \/ AddHead(l, i) \/ AddTail(l, i)
             \/ \E e \in Items : AddBefore(l, i, e) \/ AddAfter(l, i, e)
             \/ Remove(l, i) \/ Promote(l, i)
             \/ GetNext(l, i) \/ GetPrev(l, i)
      PROVE  Spelled'
  BY <1>4, AddsAtEnds, AddsAtItems, RemoveDrops, PromoteMoves, NeighbourCalls
<1> QED BY <1>1, <1>2, <1>3, <1>4 DEF Next

\* New lists are empty.
LEMMA SpelledInit == Init => SInv /\ Contents!Init
<1> SUFFICES ASSUME Init PROVE Spelled /\ Contents!Init
  BY InvInit DEF SInv
<1>1. ASSUME NEW l \in Lists PROVE Reading(l, << >>)
  <2>1. l \in Nodes /\ next[l] = l /\ prev[l] = l
    BY DEF Init, Nodes
  <2>2. \A k : Node(l, << >>, k) = l
    BY DEF Node
  <2>3. Spells(next, prev, l, << >>)
    BY <2>1, <2>2 DEF Spells
  <2>4. \A i \in Items : lst[i] # l
    BY ListAssumption DEF Init
  <2> QED BY <2>3, <2>4 DEF Reading, Reads
<1>2. \A l \in Lists : Walk(l) = << >>
  BY <1>1, WalkRead
<1> QED BY <1>1, <1>2 DEF Spelled, Contents!Init, Init

\* Links::Links, List's constructors and every call of List: what the pointers
\* hold is a list of items for each List, and each call does to it, and returns,
\* what its name says.
THEOREM ListImplementsLists == Spec => ImplementsLists
<1>1. SInv /\ [Next]_vars => [SameCall]_vars
  BY CallsSame
<1> QED BY <1>1, SpelledInit, SpelledNext, PTL DEF Spec, ImplementsLists
=============================================================================
