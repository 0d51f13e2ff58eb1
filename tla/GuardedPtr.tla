----------------------------- MODULE GuardedPtr -----------------------------
(***************************************************************************)
(* Threads that share a pxfe_shared_ptr (lib/posix_fe.h) under a Waitable  *)
(* (lib/LockWait.h): a thread reads and writes the global pointer while    *)
(* one of its Locks is locked, may wait in between, and works on its own   *)
(* pointer and on what it has _taken at any time.                          *)
(***************************************************************************)
EXTENDS LockGuards, SharedPtr

ASSUME UsersAssumption == Users = Threads

vars == <<lockVars, ptrVars>>

TypeOK == LockTypeOK /\ PtrTypeOK

Init == LockInit /\ PtrInit

\* The pointers a thread may use.
Mine(t) == {t} \cup (IF Holding(t) # {} THEN {Global} ELSE {})

\* A call on these pointers.  No pointer is assigned to itself, and what is
\* given was taken before.
PtrCall(t) ==
    \/ \E v \in Mine(t) :
          \/ Drop(t, [kind |-> "clear", to |-> v])
          \/ exists # Objects /\ Drop(t, [kind |-> "new", to |-> v])
          \/ hand[t] # NULL /\ Drop(t, [kind |-> "give", to |-> v])
          \/ ptr[v] # NULL /\ Take(t, v)
    \/ \E v, w \in Mine(t) :
          /\ v # w
          /\ \/ Drop(t, [kind |-> "copy", to |-> v, from |-> w])
             \/ Drop(t, [kind |-> "move", to |-> v, from |-> w])

PtrStep(t) == Running(t) /\ (PtrCall(t) \/ Fill(t))

Next ==
    \/ \E t \in Threads : PtrStep(t) /\ UNCHANGED lockVars
    \/ /\ \/ \E t \in Threads : (half[t] = Idle /\ LockStep(t)) \/ WaitEnds(t)
          \/ WaiterSignal \/ WaiterBroadcast
       /\ UNCHANGED ptrVars

Spec == Init /\ [][Next]_vars
=============================================================================
