---------------------------- MODULE MCLockStages ----------------------------
(* A small instance of LockStages: four stages whose counts have the order *)
(* of those of pll_coeff.py, lock < unlock of the other stages < lock_fail *)
(* and unlock of stage 0.                                                  *)
EXTENDS LockStages

MCLock     == [i \in Stages |-> 2]
MCLockFail == [i \in Stages |-> 5]
MCUnlock   == [i \in Stages |-> IF i = 0 THEN 6 ELSE 3]
=============================================================================
