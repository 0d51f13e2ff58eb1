------------------------------- MODULE PollSet -------------------------------
(***************************************************************************)
(* pxfe_poll (lib/posix_fe.h): the set of descriptors to poll, kept as the *)
(* vector that poll(2) takes, an index from descriptors to its slots, and  *)
(* a stack of the slots that are free.                                     *)
(*                                                                         *)
(* The descriptors are those of module Descriptors; set() is called with   *)
(* the one of an open object, for by_fd has no entry for -1.               *)
(* Vectors are sequences: descriptor f is entry f + 1 of by_fd, and slot i *)
(* of the code is slot i + 1 here.  None is the index -1.                  *)
(***************************************************************************)
EXTENDS Descriptors, Sequences, SequencesExt

CONSTANT Events    \* the sets of events asked for, and reported

ASSUME EventsAssumption == Events \subseteq Nat \ {0}

None == 0

VARIABLES
    by_fd, freestack, fds,
    asked,     \* ghost: the events last set for each descriptor
    heard,     \* ghost: what the last poll reported of each descriptor
    polled     \* ghost: the descriptors of that poll that were not removed since

pollVars == <<by_fd, freestack, fds, asked, heard, polled>>

Slots == DOMAIN fds

PollTypeOK ==
    /\ by_fd \in Seq(Slots \cup {None})
    /\ freestack \in Seq(Slots)
    /\ fds \in Seq([fd : Fds \cup {-1}, events : Events \cup {0}, revents : Events \cup {0}])

PollInit ==
    /\ by_fd = << >> /\ freestack = << >> /\ fds = << >>
    /\ asked = [f \in Fds |-> 0]
    /\ heard = [f \in Fds |-> 0]
    /\ polled = {}

\* by_fd.resize(fd + 1), if it is shorter.
Grown(f) == by_fd \o [k \in 1 .. (f + 1 - Len(by_fd)) |-> None]

Index(f) == IF f < Len(by_fd) THEN by_fd[f + 1] ELSE None

\* set(fd, 0): the slot goes to the stack of free ones.
Unset(f) ==
    /\ IF Index(f) = None
       THEN by_fd' = Grown(f) /\ UNCHANGED <<freestack, fds>>
       ELSE /\ fds' = [fds EXCEPT ![Index(f)].fd = -1, ![Index(f)].events = 0]
            /\ freestack' = Append(freestack, Index(f))
            /\ by_fd' = [by_fd EXCEPT ![f + 1] = None]
    /\ asked' = [asked EXCEPT ![f] = 0]
    /\ polled' = polled \ {f}
    /\ UNCHANGED heard

\* set(fd, events) for events other than 0: the slot it has, a free one, or a
\* new one.
Set(f, events) ==
    /\ \/ /\ Index(f) # None
          /\ fds' = [fds EXCEPT ![Index(f)].events = events]
          /\ UNCHANGED <<by_fd, freestack>>
       \/ /\ Index(f) = None /\ freestack = << >>
          /\ fds' = Append(fds, [fd |-> f, events |-> events, revents |-> 0])
          /\ by_fd' = [Grown(f) EXCEPT ![f + 1] = Len(fds) + 1]
          /\ UNCHANGED freestack
       \/ /\ Index(f) = None /\ freestack # << >>
          /\ fds' = [fds EXCEPT ![Last(freestack)].fd = f, ![Last(freestack)].events = events]
          /\ by_fd' = [Grown(f) EXCEPT ![f + 1] = Last(freestack)]
          /\ freestack' = Front(freestack)
    /\ asked' = [asked EXCEPT ![f] = events]
    /\ UNCHANGED <<heard, polled>>

\* poll(): the kernel reports events of the slots that have a descriptor.  A
\* poll that fails leaves everything as it is.
Poll ==
    /\ \E reports \in [Slots -> Events \cup {0}] :
          /\ \A i \in Slots : fds[i].fd = -1 => reports[i] = 0
          /\ fds' = [i \in Slots |-> [fds[i] EXCEPT !.revents = reports[i]]]
          /\ heard' = [f \in Fds |-> IF asked[f] = 0 THEN 0 ELSE reports[Index(f)]]
    /\ polled' = {f \in Fds : asked[f] # 0}
    /\ UNCHANGED <<by_fd, freestack, asked>>

\* One round of compact(): slot ind is erased and the later ones move down.
Erase(v, ind) ==
    [index |-> [k \in DOMAIN v.index |->
                   IF \E j \in ind + 1 .. Len(v.slots) : v.slots[j].fd = k - 1
                   THEN v.index[k] - 1 ELSE v.index[k]],
     slots |-> RemoveAt(v.slots, ind)]

\* The rounds of compact(), for the slots on the stack from its top down.
Rounds(stack, v) ==
    LET after[n \in 0 .. Len(stack)] ==
            IF n = 0 THEN v ELSE Erase(after[n - 1], stack[Len(stack) + 1 - n])
    IN  after[Len(stack)]

\* std::sort: the arrangements of a stack in ascending order.
Sorted(stack) ==
    LET D == DOMAIN stack
    IN  {s \in {[k \in D |-> stack[order[k]]] : order \in Bijection(D, D)} :
            \A j \in D, k \in D : j < k => s[j] <= s[k]}

\* Where the entries of by_fd end when those at its end that are -1 are cut off.
Ends(index) ==
    {n \in 0 .. Len(index) : /\ n > 0 => index[n] # None
                             /\ \A k \in n + 1 .. Len(index) : index[k] = None}

CompactFrom(stack) ==
    LET v == Rounds(stack, [index |-> by_fd, slots |-> fds])
    IN  /\ \E n \in Ends(v.index) : by_fd' = SubSeq(v.index, 1, n)
        /\ fds' = v.slots
        /\ freestack' = << >>
        /\ UNCHANGED <<asked, heard, polled>>

\* Mutant: the stack is taken as it is, not sorted.
M_CompactUnsorted == CompactFrom(freestack)

\* compact(): the free slots are erased, the last one first.
Compact == \E stack \in Sorted(freestack) : CompactFrom(stack)

\* eget() and rget().
Eget(f) == IF Index(f) = None THEN 0 ELSE fds[Index(f)].events
Rget(f) == IF Index(f) = None THEN 0 ELSE fds[Index(f)].revents
-----------------------------------------------------------------------------
\* The three vectors agree: a descriptor that is set has one slot, which is the
\* one its index names, and the free slots are those on the stack, each once.
VectorsAgree ==
    /\ \A f \in Fds : Index(f) # None => Index(f) \in Slots /\ fds[Index(f)].fd = f
    /\ \A i \in Slots : fds[i].fd # -1 => Index(fds[i].fd) = i
    /\ {i \in Slots : fds[i].fd = -1} = ToSet(freestack)
    /\ IsInjective(freestack)

\* After any calls of set and compact the vectors agree, so that eget() answers the
\* events set last, and rget() of a descriptor that took part in the last poll
\* what it reported (posix_fe.h:2353-2371): nobody is told of another's events.
AnswersRight ==
    /\ VectorsAgree
    /\ \A f \in Fds : Eget(f) = asked[f]
    /\ \A f \in polled : Rget(f) = heard[f]
=============================================================================
