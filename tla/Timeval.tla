------------------------------ MODULE Timeval ------------------------------
(***************************************************************************)
(* The arithmetic of pxfe_timeval and the conversions of pxfe_timeval and  *)
(* pxfe_timespec (lib/posix_fe.h): from one to the other, from seconds in  *)
(* floating point, and into hours, minutes and seconds, milliseconds,      *)
(* microseconds and nanoseconds in unsigned words.                         *)
(*                                                                         *)
(* += carries, as that of pxfe_timespec, only when the sum is more than a  *)
(* second.  A floating-point number of seconds is a fraction, exact; its   *)
(* rounding to the nearest double is left out.                             *)
(***************************************************************************)
EXTENDS Timespec

CONSTANT
    KILO         \* 1000 in the code

\* Microseconds in a second: 1000000 in the code.
USEC == KILO * KILO

ASSUME KiloAssumption == KILO \in Nat \ {0} /\ NSEC = USEC * KILO

\* A struct timeval, the time it stands for, and what gettimeofday returns.
Timevals     == [sec : Int, usec : 0 .. USEC]
TvNormalised == [sec : Int, usec : 0 .. USEC - 1]
TvVal(t)     == t.sec * USEC + t.usec
-----------------------------------------------------------------------------
\* operator-= and operator+= of pxfe_timeval, and operator- and operator+.
TvSub(a, b) ==
    LET borrow == IF b.usec > a.usec THEN 1 ELSE 0
    IN  [sec |-> a.sec - b.sec - borrow, usec |-> a.usec - b.usec + borrow * USEC]

TvAdd(a, b) ==
    LET carry == IF a.usec + b.usec > USEC THEN 1 ELSE 0
    IN  [sec |-> a.sec + b.sec + carry, usec |-> a.usec + b.usec - carry * USEC]

\* The comparisons.
TvEqual(a, b)   == a.sec = b.sec /\ a.usec = b.usec
TvLess(a, b)    == a.sec < b.sec \/ (a.sec = b.sec /\ a.usec < b.usec)
TvGreater(a, b) == a.sec > b.sec \/ (a.sec = b.sec /\ a.usec > b.usec)
Equal(a, b)     == a.sec = b.sec /\ a.nsec = b.nsec
Greater(a, b)   == a.sec > b.sec \/ (a.sec = b.sec /\ a.nsec > b.nsec)
-----------------------------------------------------------------------------
\* A conversion of a floating-point number to an integer.
Truncated(n, d) == IF n >= 0 THEN n \div d ELSE - ((- n) \div d)

\* set(double): n / (unit * k) seconds into a pair of seconds and units.
Whole(n, k, unit) == Truncated(n, unit * k)
Part(n, k, unit)  == Truncated(2 * (n - Whole(n, k, unit) * (unit * k)) + k, 2 * k)

TvOfSeconds(n, k) == [sec |-> Whole(n, k, USEC), usec |-> Part(n, k, USEC)]
OfSeconds(n, k)   == [sec |-> Whole(n, k, NSEC), nsec |-> Part(n, k, NSEC)]

\* The assignment operators from one struct to the other.
ToTimespec(t) == [sec |-> t.sec, nsec |-> t.usec * KILO]
ToTimeval(t)  == [sec |-> t.sec, usec |-> t.nsec \div KILO]
-----------------------------------------------------------------------------
\* breakdown(): seconds become an unsigned word of `word' values.
HoursMinutes(seconds) ==
    LET hours == seconds \div 3600
        rest  == seconds - hours * 3600
    IN  [hours |-> hours, minutes |-> rest \div 60,
         seconds |-> rest - (rest \div 60) * 60]

TvBreakdown(t, word) == HoursMinutes(t.sec % word)
Breakdown(t, word)   == HoursMinutes(t.sec % word)

\* msecs(): the sum is signed and its low word is returned.
TvMsecs(t, word) == (t.sec * KILO + t.usec \div KILO) % word
Msecs(t, word)   == (t.sec * KILO + t.nsec \div USEC) % word

\* usecs(), nsecs(): the sum is computed in unsigned words.
TvUsecs(t, word) == ((t.sec % word) * USEC + t.usec) % word
Usecs(t, word)   == ((t.sec % word) * USEC + t.nsec \div KILO) % word
TvNsecs(t, word) == ((t.sec % word) * NSEC + t.usec * KILO) % word
=============================================================================
