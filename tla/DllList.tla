------------------------------- MODULE DllList -------------------------------
(***************************************************************************)
(* DLL3::List (lib/dll3.h, lib/dll3.tcc) at the level of its pointers: a   *)
(* ring of Links through the list's own head, which every messageList_t    *)
(* and the list of pools are.                                              *)
(*                                                                         *)
(* A caller holds the list's lock, so a call is one step.  checkvalid and  *)
(* lockwarn print an error and go on: what they test is the caller's duty  *)
(* and is a guard here.                                                    *)
(***************************************************************************)
EXTENDS Integers, FiniteSets

CONSTANTS
    Lists,   \* a list stands for its head as well
    Items,
    Null

ASSUME ListAssumption ==
    /\ IsFiniteSet(Items)
    /\ Lists \cap Items = {}
    /\ Null \notin Lists \cup Items

Nodes == Lists \cup Items

VARIABLES
    next, prev,   \* of every Links
    lst,          \* per item: the list it is on, or Null
    cnt,          \* per list
    result        \* what the last call returned: an item or Null

vars == <<next, prev, lst, cnt, result>>

OnList(l) == {i \in Items : lst[i] = l}

\* Links::Links and List::List.
Init ==
    /\ next = [n \in Nodes |-> n]
    /\ prev = [n \in Nodes |-> n]
    /\ lst = [i \in Items |-> Null]
    /\ cnt = [l \in Lists |-> 0]
    /\ result = Null

\* An item that was deleted and a new one in its place.
Construct(i) ==
    /\ lst[i] = Null
    /\ next' = [next EXCEPT ![i] = i]
    /\ prev' = [prev EXCEPT ![i] = i]
    /\ UNCHANGED <<lst, cnt, result>>

\* The common part of the four add functions: item i on list l, between p and n.
Link(l, i, p, n) ==
    /\ lst[i] = Null
    /\ next' = [next EXCEPT ![i] = n, ![p] = i]
    /\ prev' = [prev EXCEPT ![i] = p, ![n] = i]
    /\ lst' = [lst EXCEPT ![i] = l]
    /\ cnt' = [cnt EXCEPT ![l] = @ + 1]
    /\ result' = Null

AddHead(l, i) == Link(l, i, l, next[l])

\* Mutant: the successor of the head is taken for the last item.
M_AddTailFirst(l, i) == Link(l, i, l, next[l])

AddTail(l, i) == Link(l, i, prev[l], l)

AddBefore(l, i, e) == lst[e] = l /\ Link(l, i, prev[e], e)
AddAfter(l, i, e)  == lst[e] = l /\ Link(l, i, e, next[e])

\* Mutant: the successor keeps its pointer to the item.
M_UnlinkForward(l, i) ==
    /\ next' = [next EXCEPT ![prev[i]] = next[i], ![i] = Null]
    /\ prev' = [prev EXCEPT ![i] = Null]
    /\ lst' = [lst EXCEPT ![i] = Null]
    /\ cnt' = [cnt EXCEPT ![l] = @ - 1]

\* _remove.
Unlink(l, i) ==
    /\ next' = [next EXCEPT ![prev[i]] = next[i], ![i] = Null]
    /\ prev' = [prev EXCEPT ![next[i]] = prev[i], ![i] = Null]
    /\ lst' = [lst EXCEPT ![i] = Null]
    /\ cnt' = [cnt EXCEPT ![l] = @ - 1]

Remove(l, i) ==
    /\ lst[i] = l
    /\ Unlink(l, i)
    /\ result' = Null

\* The node next to the head, unless it is the head itself.
Item(l, n) == IF n # l THEN n ELSE Null

Dequeue(l, n) ==
    /\ result' = Item(l, n)
    /\ IF n # l THEN Unlink(l, n) ELSE UNCHANGED <<next, prev, lst, cnt>>

DequeueHead(l) == Dequeue(l, next[l])
DequeueTail(l) == Dequeue(l, prev[l])

\* _remove, then _add_head: what head.next is once i is off the list.
Promote(l, i) ==
    /\ lst[i] = l
    /\ LET first == IF next[l] = i THEN next[i] ELSE next[l]
           p == prev[i]
           n == next[i]
       IN  /\ next' = [next EXCEPT ![p] = n, ![i] = first, ![l] = i]
           /\ prev' = [prev EXCEPT ![n] = p, ![i] = l, ![first] = i]
    /\ result' = Null
    /\ UNCHANGED <<lst, cnt>>

Answer(x) == result' = x /\ UNCHANGED <<next, prev, lst, cnt>>

GetHead(l)    == Answer(Item(l, next[l]))
GetTail(l)    == Answer(Item(l, prev[l]))
GetNext(l, i) == lst[i] = l /\ Answer(Item(l, next[i]))
GetPrev(l, i) == lst[i] = l /\ Answer(Item(l, prev[i]))

Next ==
    \/ \E i \in Items : Construct(i)
    \/ \E l \in Lists :
         \/ DequeueHead(l) \/ DequeueTail(l) \/ GetHead(l) \/ GetTail(l)
         \/ \E i \in Items :
              \/ AddHead(l, i) \/ AddTail(l, i)
              \/ \E e \in Items : AddBefore(l, i, e) \/ AddAfter(l, i, e)
              \/ Remove(l, i) \/ Promote(l, i)
              \/ GetNext(l, i) \/ GetPrev(l, i)

Spec == Init /\ [][Next]_vars
-----------------------------------------------------------------------------
TypeOK ==
    /\ next \in [Nodes -> Nodes \cup {Null}]
    /\ prev \in [Nodes -> Nodes \cup {Null}]
    /\ lst \in [Items -> Lists \cup {Null}]
    /\ cnt \in [Lists -> Int]
    /\ result \in Items \cup {Null}

Ring(l) == {l} \cup OnList(l)

\* Whatever calls were made, the links of a list lead from its own nodes to its
\* own nodes, forwards and backwards alike, and cnt counts its items.  No call
\* on one list, or with an item used before, disturbs another list.
RingsAgree ==
    \A l \in Lists :
      /\ \A n \in Ring(l) :
           /\ next[n] \in Ring(l) /\ prev[next[n]] = n
           /\ prev[n] \in Ring(l) /\ next[prev[n]] = n
      /\ cnt[l] = Cardinality(OnList(l))

\* The items of a list as a walk with get_head and get_next finds them.
Walk(l) ==
    LET max == Cardinality(Items) + 1
        node[n \in 0 .. max] ==
          IF n = 0 THEN next[l]
          ELSE IF node[n - 1] \in Items THEN next[node[n - 1]] ELSE l
        ends == {n \in 0 .. max : node[n] \notin Items}
        len  == IF ends = {} THEN max ELSE CHOOSE n \in ends : \A k \in ends : n <= k
    IN  [n \in 1 .. len |-> node[n - 1]]

Contents == INSTANCE ListContents WITH items <- [l \in Lists |-> Walk(l)]

\* Each call is the call of the same name in ListContents.
SameCall ==
    /\ \A i \in Items : Construct(i) => UNCHANGED Contents!vars
    /\ \A l \in Lists :
         /\ DequeueHead(l) => Contents!DequeueHead(l)
         /\ DequeueTail(l) => Contents!DequeueTail(l)
         /\ GetHead(l) => Contents!GetHead(l)
         /\ GetTail(l) => Contents!GetTail(l)
         /\ \A i \in Items :
              /\ AddHead(l, i) => Contents!AddHead(l, i)
              /\ AddTail(l, i) => Contents!AddTail(l, i)
              /\ \A e \in Items :
                   /\ AddBefore(l, i, e) => Contents!AddBefore(l, i, e)
                   /\ AddAfter(l, i, e) => Contents!AddAfter(l, i, e)
              /\ Remove(l, i) => Contents!RemoveItem(l, i)
              /\ Promote(l, i) => Contents!Promote(l, i)
              /\ GetNext(l, i) => Contents!GetNext(l, i)
              /\ GetPrev(l, i) => Contents!GetPrev(l, i)

\* The pointers implement lists: every call, on whatever lists the calls before
\* it built, changes the order of the items and returns what its name says.
\* As Next is the disjunction of the calls, this is more than Contents!Spec,
\* which would allow add_tail to do what add_head does.
ImplementsLists == Contents!Init /\ [][SameCall]_vars
=============================================================================
