------------------------------ MODULE Timespec ------------------------------
(***************************************************************************)
(* The arithmetic of pxfe_timespec (lib/posix_fe.h): += and -= with their  *)
(* carry and borrow, <, and nsecs().                                       *)
(*                                                                         *)
(* The carry of += tests "> 1000000000", so a sum of exactly one second is *)
(* left in tv_nsec.  That is modelled as it is, and the theorems in        *)
(* PhaseLoop_proofs say what still holds: values are exact, tv_nsec        *)
(* stays within 0 .. NSEC, and < is the numeric order when its left        *)
(* operand is a clock reading.                                             *)
(***************************************************************************)
EXTENDS Integers

CONSTANT
    NSEC         \* nanoseconds in a second: 1000000000 in the code

ASSUME NSECAssumption == NSEC \in Nat \ {0}

\* A struct timespec, and one that clock_gettime can return.
Timespecs  == [sec : Int, nsec : 0 .. NSEC]
Normalised == [sec : Int, nsec : 0 .. NSEC - 1]

\* The time a timespec stands for, in nanoseconds.
Val(t) == t.sec * NSEC + t.nsec

\* clock_gettime at time n.
FromClock(n) == [sec |-> n \div NSEC, nsec |-> n % NSEC]

\* Mutant: the carry is taken out of tv_nsec and not added to tv_sec.
M_AddNoCarry(a, b) ==
    LET nsec == a.nsec + b.nsec
    IN  IF nsec > NSEC
        THEN [sec |-> a.sec + b.sec, nsec |-> nsec - NSEC]
        ELSE [sec |-> a.sec + b.sec, nsec |-> nsec]

\* operator+= and operator+.
Add(a, b) ==
    LET nsec == a.nsec + b.nsec
    IN  IF nsec > NSEC
        THEN [sec |-> a.sec + b.sec + 1, nsec |-> nsec - NSEC]
        ELSE [sec |-> a.sec + b.sec, nsec |-> nsec]

\* Mutant: the borrow is decided with >=.
M_SubBorrowsAlways(a, b) ==
    IF b.nsec >= a.nsec
    THEN [sec |-> a.sec - b.sec - 1, nsec |-> a.nsec - b.nsec + NSEC]
    ELSE [sec |-> a.sec - b.sec, nsec |-> a.nsec - b.nsec]

\* operator-= and operator-.
Sub(a, b) ==
    IF b.nsec > a.nsec
    THEN [sec |-> a.sec - b.sec - 1, nsec |-> a.nsec - b.nsec + NSEC]
    ELSE [sec |-> a.sec - b.sec, nsec |-> a.nsec - b.nsec]

\* operator<.
Less(a, b) == a.sec < b.sec \/ (a.sec = b.sec /\ a.nsec < b.nsec)

\* Mutant: the cast to int64_t is left out.
M_NsecsUnsigned(t, word) == ((t.sec % word) * NSEC + t.nsec) % word

\* (int64_t) nsecs(): the sum is computed in unsigned words, modulo word, and
\* the result read as a signed one.
SignedNsecs(t, word) ==
    LET u == ((t.sec % word) * NSEC + t.nsec) % word
    IN  IF u >= word \div 2 THEN u - word ELSE u
=============================================================================
