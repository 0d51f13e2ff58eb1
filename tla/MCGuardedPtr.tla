---------------------------- MODULE MCGuardedPtr ----------------------------
(* GuardedPtr with two threads, two objects and two Locks per thread.       *)
EXTENDS GuardedPtr, TLC

\* Threads and objects are interchangeable; Global is a pointer of nobody's.
Twins == Permutations(Threads) \cup Permutations(Objects)
=============================================================================
