----------------------------- MODULE ListContents -----------------------------
(***************************************************************************)
(* What DLL3::List promises (lib/dll3.h): some lists of items, each item   *)
(* on one of them at most, and the results of the calls that return one.   *)
(***************************************************************************)
EXTENDS SequencesExt

CONSTANTS Lists, Items, Null

VARIABLES
    items,   \* per list: its items, head first
    result   \* of the last call: an item or Null

vars == <<items, result>>

OnList(l) == ToSet(items[l])
Free(i)   == \A l \in Lists : i \notin OnList(l)

\* The index of i, and the item there, if any.
At(l, i)     == CHOOSE n \in 1 .. Len(items[l]) : items[l][n] = i
ItemAt(l, n) == IF n \in 1 .. Len(items[l]) THEN items[l][n] ELSE Null

Init ==
    /\ items = [l \in Lists |-> << >>]
    /\ result = Null

\* add_head, add_tail, add_before, add_after.
Insert(l, i, n) ==
    /\ Free(i)
    /\ items' = [items EXCEPT ![l] = InsertAt(@, n, i)]
    /\ result' = Null

AddHead(l, i)      == Insert(l, i, 1)
AddTail(l, i)      == Insert(l, i, Len(items[l]) + 1)
AddBefore(l, i, e) == e \in OnList(l) /\ Insert(l, i, At(l, e))
AddAfter(l, i, e)  == e \in OnList(l) /\ Insert(l, i, At(l, e) + 1)

Drop(l, i) == items' = [items EXCEPT ![l] = RemoveAt(@, At(l, i))]

RemoveItem(l, i) ==
    /\ i \in OnList(l)
    /\ Drop(l, i)
    /\ result' = Null

\* dequeue_head, dequeue_tail: Null from an empty list.
Dequeue(l, n) ==
    /\ result' = ItemAt(l, n)
    /\ IF items[l] = << >> THEN UNCHANGED items ELSE Drop(l, result')

DequeueHead(l) == Dequeue(l, 1)
DequeueTail(l) == Dequeue(l, Len(items[l]))

Promote(l, i) ==
    /\ i \in OnList(l)
    /\ items' = [items EXCEPT ![l] = <<i>> \o RemoveAt(@, At(l, i))]
    /\ result' = Null

\* get_head, get_tail, get_next, get_prev.
Answer(x) == result' = x /\ UNCHANGED items

GetHead(l)    == Answer(ItemAt(l, 1))
GetTail(l)    == Answer(ItemAt(l, Len(items[l])))
GetNext(l, i) == i \in OnList(l) /\ Answer(ItemAt(l, At(l, i) + 1))
GetPrev(l, i) == i \in OnList(l) /\ Answer(ItemAt(l, At(l, i) - 1))

Next == \E l \in Lists :
    \/ DequeueHead(l) \/ DequeueTail(l) \/ GetHead(l) \/ GetTail(l)
    \/ \E i \in Items :
         \/ AddHead(l, i) \/ AddTail(l, i)
         \/ \E e \in Items : AddBefore(l, i, e) \/ AddAfter(l, i, e)
         \/ RemoveItem(l, i) \/ Promote(l, i)
         \/ GetNext(l, i) \/ GetPrev(l, i)

Spec == Init /\ [][Next]_vars
=============================================================================
