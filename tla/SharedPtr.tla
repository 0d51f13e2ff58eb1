------------------------------ MODULE SharedPtr ------------------------------
(***************************************************************************)
(* pxfe_shared_ptr and pxfe_shared_ptr_base (lib/posix_fe.h): pointers     *)
(* that count themselves in the object they point to.                      *)
(*                                                                         *)
(* The count is atomic, a pointer is not.  A call that points a pointer to *)
(* another object is two steps: deref() of the old one, which deletes it   *)
(* when the count was 1 or less, and then the new value with its ref().    *)
(***************************************************************************)
EXTENDS Integers, FiniteSets

CONSTANTS
    Users,     \* threads, each with one pointer of its own, named as the thread
    Global,    \* a pointer they share
    Objects,   \* objects derived from pxfe_shared_ptr_base
    NULL

ASSUME PtrAssumption ==
    /\ IsFiniteSet(Users)
    /\ Global \notin Users /\ NULL \notin Objects

Ptrs == Users \cup {Global}

VARIABLES
    ptr,       \* as in the code, of each pointer
    count,     \* __pxfe_sp_refcount of each object
    exists,    \* the objects that were created and are not deleted
    hand,      \* per thread: the object it has _taken, as a plain T *
    half       \* per thread: the call whose second half is to come

ptrVars == <<ptr, count, exists, hand, half>>

Idle  == [kind |-> "idle"]
Calls == [kind : {"clear", "new", "give"}, to : Ptrs] \cup
         [kind : {"copy", "move"}, to : Ptrs, from : Ptrs]

PtrTypeOK ==
    /\ ptr \in [Ptrs -> Objects \cup {NULL}]
    /\ count \in [Objects -> Int]
    /\ exists \subseteq Objects
    /\ hand \in [Users -> Objects \cup {NULL}]
    /\ half \in [Users -> Calls \cup {Idle}]

PtrInit ==
    /\ ptr = [v \in Ptrs |-> NULL]
    /\ count = [o \in Objects |-> 0]
    /\ exists = {}
    /\ hand = [t \in Users |-> NULL]
    /\ half = [t \in Users |-> Idle]
-----------------------------------------------------------------------------
\* Mutant: the object is deleted only when the count was 0.
M_DerefLate(v) ==
    IF ptr[v] = NULL THEN UNCHANGED <<ptr, count, exists>>
    ELSE /\ count' = [count EXCEPT ![ptr[v]] = @ - 1]
         /\ IF count[ptr[v]] < 1
            THEN exists' = exists \ {ptr[v]} /\ ptr' = [ptr EXCEPT ![v] = NULL]
            ELSE UNCHANGED <<exists, ptr>>

\* deref().
Deref(v) ==
    IF ptr[v] = NULL THEN UNCHANGED <<ptr, count, exists>>
    ELSE /\ count' = [count EXCEPT ![ptr[v]] = @ - 1]
         /\ IF count[ptr[v]] <= 1
            THEN exists' = exists \ {ptr[v]} /\ ptr' = [ptr EXCEPT ![v] = NULL]
            ELSE UNCHANGED <<exists, ptr>>

\* The first half of every call that points call.to to something else: the
\* destructor, reset(), a failed cast ("clear"), reset(new T) ("new"), _give(),
\* and assignment from a pointer by copy or by move.
Drop(t, c) ==
    /\ half[t] = Idle
    /\ Deref(c.to)
    /\ half' = [half EXCEPT ![t] = c]
    /\ UNCHANGED hand

Counted(o) == [count EXCEPT ![o] = @ + 1]

\* The second half.
Clear(t) ==
    /\ half[t].kind = "clear"
    /\ ptr' = [ptr EXCEPT ![half[t].to] = NULL]
    /\ UNCHANGED <<count, exists, hand>>

New(t) ==
    /\ half[t].kind = "new"
    /\ \E o \in Objects \ exists :
          /\ ptr' = [ptr EXCEPT ![half[t].to] = o]
          /\ exists' = exists \cup {o}
          /\ count' = [count EXCEPT ![o] = 1]
    /\ UNCHANGED hand

Give(t) ==
    /\ half[t].kind = "give"
    /\ ptr' = [ptr EXCEPT ![half[t].to] = hand[t]]
    /\ hand' = [hand EXCEPT ![t] = NULL]
    /\ UNCHANGED <<count, exists>>

Copy(t) ==
    /\ half[t].kind = "copy"
    /\ LET o == ptr[half[t].from]
       IN  /\ ptr' = [ptr EXCEPT ![half[t].to] = o]
           /\ count' = IF o = NULL THEN count ELSE Counted(o)
    /\ UNCHANGED <<exists, hand>>

Move(t) ==
    /\ half[t].kind = "move"
    /\ ptr' = [ptr EXCEPT ![half[t].to] = ptr[half[t].from], ![half[t].from] = NULL]
    /\ UNCHANGED <<count, exists, hand>>

Fill(t) ==
    /\ Clear(t) \/ New(t) \/ Give(t) \/ Copy(t) \/ Move(t)
    /\ half' = [half EXCEPT ![t] = Idle]

\* _take().
Take(t, v) ==
    /\ half[t] = Idle /\ hand[t] = NULL
    /\ hand' = [hand EXCEPT ![t] = ptr[v]]
    /\ ptr' = [ptr EXCEPT ![v] = NULL]
    /\ UNCHANGED <<count, exists, half>>
-----------------------------------------------------------------------------
\* The pointers and the hands that hold a count of o; a pointer that is the target
\* of a call has dropped its own.
PtrHolders(o) ==
    {v \in Ptrs : ptr[v] = o /\ \A t \in Users : half[t] # Idle => half[t].to # v}

HandHolders(o) == {t \in Users : hand[t] = o}

\* The count of an object is the number of its holders, and an object lives
\* exactly as long as it has one, whatever other threads do with their pointers
\* between the two halves of an assignment (posix_fe.h:421-428, 494-519): it is
\* neither used after it was deleted, nor deleted twice, nor leaked.
CountExact ==
    \A o \in Objects :
       /\ o \in exists => count[o] = Cardinality(PtrHolders(o)) + Cardinality(HandHolders(o))
       /\ o \in exists <=> PtrHolders(o) \cup HandHolders(o) # {}
=============================================================================
