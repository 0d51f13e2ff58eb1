---------------------------- MODULE PosixFe_proofs ----------------------------
(***************************************************************************)
(* What lib/posix_fe.h promises, proved for every value of the constants:  *)
(*   - the arithmetic of pxfe_timeval and the conversions are exact, or    *)
(*     round as they should, whatever the number of parts a second has;    *)
(*   - a ticker that is idle is clean, and pauses with one late tick;      *)
(*   - a descriptor has one owner and a socket its name;                   *)
(*   - a poll set answers right, through any compact().                    *)
(***************************************************************************)
EXTENDS Timeval, Ticker, EventLoop, FiniteSetTheorems, SequenceTheorems,
        WellFoundedInduction, TLAPS

-----------------------------------------------------------------------------
(* pxfe_timeval and the conversions. *)

\* Products with a length are plain sums when one factor is a sum.
LEMMA Distribute ==
    ASSUME NEW x \in Int, NEW y \in Int, NEW k \in Int
    PROVE  /\ x * k \in Int
           /\ (x + y) * k = x * k + y * k
           /\ (x + y + 1) * k = x * k + y * k + k
           /\ (x - y) * k = x * k - y * k
           /\ (x - y - 1) * k = x * k - y * k - k
OBVIOUS

\* A whole second more is at least a second's length more.
LEMMA MultiplyMonotone ==
    ASSUME NEW x \in Int, NEW y \in Int, NEW k \in Nat, x + 1 <= y
    PROVE  x * k + k <= y * k
<1>1. PICK d \in Nat : y = x + 1 + d
  <2>1. y - (x + 1) \in Nat /\ y = x + 1 + (y - (x + 1))
    OBVIOUS
  <2> QED BY <2>1
<1>2. y * k = x * k + k + d * k
  BY <1>1
<1>3. d * k >= 0
  OBVIOUS
<1>4. x * k \in Int /\ d * k \in Int /\ y * k \in Int
  OBVIOUS
<1> QED BY <1>2, <1>3, <1>4

\* The units the conversions multiply and divide by.
LEMMA Units ==
    /\ KILO \in Nat /\ KILO > 0 /\ KILO \in Int
    /\ USEC \in Nat /\ USEC > 0 /\ USEC \in Int
    /\ NSEC \in Nat /\ NSEC > 0 /\ NSEC = USEC * KILO
<1>1. KILO \in Nat /\ KILO > 0 /\ KILO \in Int
  BY KiloAssumption
<1>2. USEC \in Nat /\ USEC > 0 /\ USEC \in Int
  BY <1>1 DEF USEC
<1> QED BY <1>1, <1>2, KiloAssumption, NSECAssumption

\* The fields of a timeval are integers within their bounds.
LEMMA TvFields ==
    ASSUME NEW t \in Timevals
    PROVE  /\ t = [sec |-> t.sec, usec |-> t.usec]
           /\ t.sec \in Int /\ t.usec \in Int /\ 0 <= t.usec /\ t.usec <= USEC
           /\ t.sec * USEC \in Int
BY Units DEF Timevals

\* operator+= of pxfe_timeval never loses time, and keeps tv_usec within
\* 0 .. USEC (posix_fe.h:130).
THEOREM TvAddExact ==
    ASSUME NEW a \in Timevals, NEW b \in Timevals
    PROVE  TvAdd(a, b) \in Timevals /\ TvVal(TvAdd(a, b)) = TvVal(a) + TvVal(b)
<1>1. /\ a.sec \in Int /\ a.usec \in Int /\ 0 <= a.usec /\ a.usec <= USEC
      /\ b.sec \in Int /\ b.usec \in Int /\ 0 <= b.usec /\ b.usec <= USEC
      /\ USEC \in Nat /\ USEC \in Int /\ a.sec * USEC \in Int /\ b.sec * USEC \in Int
  BY TvFields, Units
<1>2. /\ (a.sec + b.sec) * USEC = a.sec * USEC + b.sec * USEC
      /\ (a.sec + b.sec + 1) * USEC = a.sec * USEC + b.sec * USEC + USEC
  BY <1>1, Distribute
<1>3. CASE a.usec + b.usec > USEC
  <2>1. TvAdd(a, b) = [sec |-> a.sec + b.sec + 1, usec |-> a.usec + b.usec - USEC]
    BY <1>1, <1>3 DEF TvAdd
  <2> QED BY <1>1, <1>2, <1>3, <2>1 DEF TvVal, Timevals
<1>4. CASE ~ (a.usec + b.usec > USEC)
  <2>1. TvAdd(a, b) = [sec |-> a.sec + b.sec, usec |-> a.usec + b.usec]
    BY <1>1, <1>4 DEF TvAdd
  <2> QED BY <1>1, <1>2, <1>4, <2>1 DEF TvVal, Timevals
<1> QED BY <1>3, <1>4

\* operator-= of pxfe_timeval is exact and stays in the same range
\* (posix_fe.h:116).
THEOREM TvSubExact ==
    ASSUME NEW a \in Timevals, NEW b \in Timevals
    PROVE  TvSub(a, b) \in Timevals /\ TvVal(TvSub(a, b)) = TvVal(a) - TvVal(b)
<1>1. /\ a.sec \in Int /\ a.usec \in Int /\ 0 <= a.usec /\ a.usec <= USEC
      /\ b.sec \in Int /\ b.usec \in Int /\ 0 <= b.usec /\ b.usec <= USEC
      /\ USEC \in Nat /\ USEC \in Int /\ a.sec * USEC \in Int /\ b.sec * USEC \in Int
  BY TvFields, Units
<1>2. /\ (a.sec - b.sec) * USEC = a.sec * USEC - b.sec * USEC
      /\ (a.sec - b.sec - 1) * USEC = a.sec * USEC - b.sec * USEC - USEC
  BY <1>1, Distribute
<1>3. CASE b.usec > a.usec
  <2>1. TvSub(a, b) = [sec |-> a.sec - b.sec - 1, usec |-> a.usec - b.usec + USEC]
    BY <1>1, <1>3 DEF TvSub
  <2> QED BY <1>1, <1>2, <1>3, <2>1 DEF TvVal, Timevals
<1>4. CASE ~ (b.usec > a.usec)
  <2>1. TvSub(a, b) = [sec |-> a.sec - b.sec, usec |-> a.usec - b.usec]
    BY <1>1, <1>4 DEF TvSub
  <2> QED BY <1>1, <1>2, <1>4, <2>1 DEF TvVal, Timevals
<1> QED BY <1>3, <1>4

\* Pairs of a number and a part of a unit are ordered like what they stand for.
LEMMA PairOrder ==
    ASSUME NEW p \in Int, NEW r \in Int, NEW unit \in Nat,
           NEW x \in 0 .. unit - 1, NEW y \in 0 .. unit - 1
    PROVE  p < r \/ (p = r /\ x < y) <=> p * unit + x < r * unit + y
<1>1. x \in Int /\ y \in Int /\ p * unit \in Int /\ r * unit \in Int
  BY Distribute
<1>2. CASE p < r
  <2>1. p * unit + unit <= r * unit
    BY <1>2, MultiplyMonotone
  <2> QED BY <1>1, <1>2, <2>1
<1>3. CASE r < p
  <2>1. r * unit + unit <= p * unit
    BY <1>3, MultiplyMonotone
  <2> QED BY <1>1, <1>3, <2>1
<1>4. CASE p = r
  BY <1>1, <1>4
<1> QED BY <1>2, <1>3, <1>4

\* The comparisons of normalised timevals, and of normalised timespecs, are those
\* of the times they stand for (posix_fe.h:140, 218-233, 294, 366-381).
THEOREM OrderExact ==
    ASSUME NEW a \in TvNormalised, NEW b \in TvNormalised,
           NEW c \in Normalised, NEW d \in Normalised
    PROVE  /\ TvLess(a, b)    <=> TvVal(a) < TvVal(b)
           /\ TvGreater(a, b) <=> TvVal(b) < TvVal(a)
           /\ TvEqual(a, b)   <=> TvVal(a) = TvVal(b)
           /\ Less(c, d)      <=> Val(c) < Val(d)
           /\ Greater(c, d)   <=> Val(d) < Val(c)
           /\ Equal(c, d)     <=> Val(c) = Val(d)
<1>1. /\ a.sec \in Int /\ a.usec \in 0 .. USEC - 1 /\ b.sec \in Int /\ b.usec \in 0 .. USEC - 1
      /\ c.sec \in Int /\ c.nsec \in 0 .. NSEC - 1 /\ d.sec \in Int /\ d.nsec \in 0 .. NSEC - 1
      /\ USEC \in Nat /\ NSEC \in Nat
  BY Units DEF TvNormalised, Normalised
<1>2. TvVal(a) \in Int /\ TvVal(b) \in Int /\ Val(c) \in Int /\ Val(d) \in Int
  BY <1>1, Distribute DEF TvVal, Val
<1>3. TvLess(a, b) <=> TvVal(a) < TvVal(b)
  BY <1>1, PairOrder DEF TvLess, TvVal
<1>4. TvGreater(a, b) <=> TvVal(b) < TvVal(a)
  <2>1. TvGreater(a, b) <=> b.sec < a.sec \/ (b.sec = a.sec /\ b.usec < a.usec)
    BY <1>1 DEF TvGreater
  <2> QED BY <1>1, <2>1, PairOrder DEF TvVal
<1>5. Less(c, d) <=> Val(c) < Val(d)
  BY <1>1, PairOrder DEF Less, Val
<1>6. Greater(c, d) <=> Val(d) < Val(c)
  <2>1. Greater(c, d) <=> d.sec < c.sec \/ (d.sec = c.sec /\ d.nsec < c.nsec)
    BY <1>1 DEF Greater
  <2> QED BY <1>1, <2>1, PairOrder DEF Val
<1>7. TvEqual(a, b) <=> TvVal(a) = TvVal(b)
  <2>1. TvEqual(a, b) => TvVal(a) = TvVal(b)
    BY DEF TvEqual, TvVal
  <2>2. ~ TvLess(a, b) /\ ~ TvGreater(a, b) => TvEqual(a, b)
    BY <1>1 DEF TvLess, TvGreater, TvEqual
  <2> QED BY <1>2, <1>3, <1>4, <2>1, <2>2
<1>8. Equal(c, d) <=> Val(c) = Val(d)
  <2>1. Equal(c, d) => Val(c) = Val(d)
    BY DEF Equal, Val
  <2>2. ~ Less(c, d) /\ ~ Greater(c, d) => Equal(c, d)
    BY <1>1 DEF Less, Greater, Equal
  <2> QED BY <1>2, <1>5, <1>6, <2>1, <2>2
<1> QED BY <1>3, <1>4, <1>5, <1>6, <1>7, <1>8
-----------------------------------------------------------------------------
\* Division rounds down.
LEMMA Division ==
    ASSUME NEW n \in Int, NEW k \in Nat, k > 0
    PROVE  /\ n \div k \in Int
           /\ (n \div k) * k \in Int
           /\ (n \div k) * k <= n /\ n < (n \div k) * k + k
           /\ n >= 0 => n \div k >= 0
OBVIOUS

\* The quotient is the one integer whose multiple is not above the dividend
\* and less than a divisor below it.
LEMMA Quotient ==
    ASSUME NEW q \in Int, NEW n \in Int, NEW k \in Nat, k > 0,
           q * k <= n, n < q * k + k
    PROVE  n \div k = q
<1>1. /\ n \div k \in Int /\ q * k \in Int /\ (n \div k) * k \in Int
      /\ (n \div k) * k <= n /\ n < (n \div k) * k + k
  BY Division
<1>2. ~ (n \div k + 1 <= q)
  <2>1. SUFFICES ASSUME n \div k + 1 <= q PROVE FALSE
    OBVIOUS
  <2>2. (n \div k) * k + k <= q * k
    BY <1>1, <2>1, MultiplyMonotone
  <2> QED BY <1>1, <2>2
<1>3. ~ (q + 1 <= n \div k)
  <2>1. SUFFICES ASSUME q + 1 <= n \div k PROVE FALSE
    OBVIOUS
  <2>2. q * k + k <= (n \div k) * k
    BY <1>1, <2>1, MultiplyMonotone
  <2> QED BY <1>1, <2>2
<1> QED BY <1>1, <1>2, <1>3

\* A timeval is converted to a timespec without loss, and back to itself
\* (posix_fe.h:264, 110).
THEOREM RoundTrip ==
    ASSUME NEW t \in Timevals
    PROVE  /\ ToTimespec(t) \in Timespecs
           /\ Val(ToTimespec(t)) = TvVal(t) * KILO
           /\ ToTimeval(ToTimespec(t)) = t
<1>1. /\ t = [sec |-> t.sec, usec |-> t.usec]
      /\ t.sec \in Int /\ t.usec \in Int /\ 0 <= t.usec /\ t.usec <= USEC
      /\ t.sec * USEC \in Int
  BY TvFields
<1>2. t.usec * KILO \in 0 .. NSEC
  <2>1. t.usec * KILO <= USEC * KILO
    <3>1. CASE t.usec = USEC
      BY <3>1, Units
    <3>2. CASE t.usec + 1 <= USEC
      <4>1. t.usec * KILO + KILO <= USEC * KILO
        BY <1>1, <3>2, Units, MultiplyMonotone
      <4> QED BY <4>1, <1>1, Units
    <3> QED BY <1>1, <3>1, <3>2, Units
  <2>2. t.usec * KILO \in Int /\ t.usec * KILO >= 0
    BY <1>1, Units
  <2> QED BY <2>1, <2>2, Units
<1>3. ToTimespec(t) \in Timespecs
  BY <1>1, <1>2 DEF ToTimespec, Timespecs
<1>4. Val(ToTimespec(t)) = TvVal(t) * KILO
  <2>1. (t.sec * USEC + t.usec) * KILO = (t.sec * USEC) * KILO + t.usec * KILO
    BY <1>1, Units, Distribute
  <2>2. (t.sec * USEC) * KILO = t.sec * NSEC
    BY <1>1, Units
  <2> QED BY <2>1, <2>2 DEF ToTimespec, Val, TvVal
<1>5. (t.usec * KILO) \div KILO = t.usec
  BY <1>1, Units, Quotient
<1>6. ToTimeval(ToTimespec(t)) = t
  BY <1>1, <1>5 DEF ToTimespec, ToTimeval
<1> QED BY <1>3, <1>4, <1>6

\* A timespec is converted to a timeval by cutting off less than a microsecond.
THEOREM ToTimevalCuts ==
    ASSUME NEW s \in Timespecs
    PROVE  /\ ToTimeval(s) \in Timevals
           /\ TvVal(ToTimeval(s)) * KILO <= Val(s)
           /\ Val(s) < TvVal(ToTimeval(s)) * KILO + KILO
<1>1. s.sec \in Int /\ s.nsec \in Int /\ 0 <= s.nsec /\ s.nsec <= NSEC
  BY Units DEF Timespecs
<1> DEFINE u == s.nsec \div KILO
<1>2. u \in Int /\ u >= 0 /\ u * KILO \in Int /\ u * KILO <= s.nsec /\ s.nsec < u * KILO + KILO
  BY <1>1, Units, Division
<1>3. u <= USEC
  <2>1. SUFFICES ASSUME USEC + 1 <= u PROVE FALSE
    BY <1>2, Units
  <2>2. USEC * KILO + KILO <= u * KILO
    BY <1>2, <2>1, Units, MultiplyMonotone
  <2> QED BY <1>1, <1>2, <2>2, Units
<1>4. ToTimeval(s) = [sec |-> s.sec, usec |-> u]
  BY DEF ToTimeval
<1> HIDE DEF u
<1>5. ToTimeval(s) \in Timevals
  BY <1>1, <1>2, <1>3, <1>4, Units DEF Timevals
<1>6. TvVal(ToTimeval(s)) * KILO = s.sec * NSEC + u * KILO
  <2>1. s.sec * USEC \in Int
    BY <1>1, Units
  <2>2. (s.sec * USEC + u) * KILO = (s.sec * USEC) * KILO + u * KILO
    BY <1>2, <2>1, Units, Distribute
  <2>3. (s.sec * USEC) * KILO = s.sec * NSEC
    BY <1>1, Units
  <2> QED BY <1>4, <2>2, <2>3 DEF TvVal
<1>7. s.sec * NSEC \in Int
  BY <1>1, Units
<1> QED BY <1>1, <1>2, <1>5, <1>6, <1>7, Units DEF Val
-----------------------------------------------------------------------------
\* The whole and the part of n/k together are n/k rounded to the nearest unit.
LEMMA WholePart ==
    ASSUME NEW n \in Nat, NEW k \in Nat, k > 0, NEW unit \in Nat, unit > 0
    PROVE  /\ Whole(n, k, unit) \in Int
           /\ Part(n, k, unit) \in 0 .. unit
           /\ LET v == (Whole(n, k, unit) * unit + Part(n, k, unit)) * k
              IN  2 * v <= 2 * n + k /\ 2 * n < 2 * v + k
<1> DEFINE d == unit * k
           w == n \div d
           r == n - w * d
<1>1. d \in Nat /\ d > 0
  OBVIOUS
<1>2. w \in Int /\ w >= 0 /\ w * d \in Int /\ 0 <= r /\ r < d /\ r \in Int
  BY <1>1, Division
<1>3. Whole(n, k, unit) = w
  BY DEF Whole, Truncated
<1> DEFINE m == 2 * r + k
           u == m \div (2 * k)
<1>4. Part(n, k, unit) = u
  <2>1. Part(n, k, unit) = Truncated(m, 2 * k)
    BY <1>3 DEF Part
  <2>2. m \in Int /\ m >= 0
    BY <1>2
  <2> HIDE DEF m
  <2> QED BY <2>1, <2>2 DEF Truncated
<1>5. m \in Int /\ m >= 0 /\ 2 * k \in Nat /\ 2 * k > 0
  BY <1>2
<1>6. u \in Int /\ u >= 0 /\ u * (2 * k) <= m /\ m < u * (2 * k) + 2 * k
  BY <1>5, Division
<1>7. u * (2 * k) = 2 * (u * k) /\ u * k \in Int
  BY <1>6
<1> HIDE DEF w, u, d
<1>8. u <= unit
  <2>1. SUFFICES ASSUME unit + 1 <= u PROVE FALSE
    BY <1>6
  <2>2. unit * k + k <= u * k
    BY <1>6, <2>1, MultiplyMonotone
  <2>3. d + k <= u * k
    BY <2>2 DEF d
  <2> QED BY <1>1, <1>2, <1>6, <1>7, <2>3
<1>9. (w * unit + u) * k = w * d + u * k
  <2>1. w * unit \in Int
    BY <1>2
  <2>2. (w * unit + u) * k = (w * unit) * k + u * k
    BY <1>6, <2>1, Distribute
  <2>3. (w * unit) * k = w * d
    BY <1>2 DEF d
  <2> QED BY <2>2, <2>3
<1>10. n = w * d + r
  BY <1>2
<1> QED BY <1>2, <1>3, <1>4, <1>6, <1>7, <1>8, <1>9, <1>10

\* A number of seconds that is not negative becomes the nearest timeval and the
\* nearest timespec, within 0 .. a whole second in the small field
\* (posix_fe.h:97, 251).
THEOREM SecondsRound ==
    ASSUME NEW n \in Nat, NEW k \in Nat, k > 0
    PROVE  /\ TvOfSeconds(n, k) \in Timevals
           /\ LET v == TvVal(TvOfSeconds(n, k)) * k
              IN  2 * v <= 2 * n + k /\ 2 * n < 2 * v + k
           /\ OfSeconds(n, k) \in Timespecs
           /\ LET v == Val(OfSeconds(n, k)) * k
              IN  2 * v <= 2 * n + k /\ 2 * n < 2 * v + k
<1>1. /\ Whole(n, k, USEC) \in Int /\ Part(n, k, USEC) \in 0 .. USEC
      /\ LET v == (Whole(n, k, USEC) * USEC + Part(n, k, USEC)) * k
         IN  2 * v <= 2 * n + k /\ 2 * n < 2 * v + k
  BY Units, WholePart
<1>2. /\ Whole(n, k, NSEC) \in Int /\ Part(n, k, NSEC) \in 0 .. NSEC
      /\ LET v == (Whole(n, k, NSEC) * NSEC + Part(n, k, NSEC)) * k
         IN  2 * v <= 2 * n + k /\ 2 * n < 2 * v + k
  BY Units, WholePart
<1>3. TvVal(TvOfSeconds(n, k)) = Whole(n, k, USEC) * USEC + Part(n, k, USEC)
  BY DEF TvVal, TvOfSeconds
<1>4. Val(OfSeconds(n, k)) = Whole(n, k, NSEC) * NSEC + Part(n, k, NSEC)
  BY DEF Val, OfSeconds
<1>5. TvOfSeconds(n, k) \in Timevals
  BY <1>1 DEF TvOfSeconds, Timevals
<1>6. OfSeconds(n, k) \in Timespecs
  BY <1>2 DEF OfSeconds, Timespecs
<1> QED BY <1>1, <1>2, <1>3, <1>4, <1>5, <1>6

\* Hours, minutes and seconds add up to the seconds they were made from.
LEMMA HoursMinutesExact ==
    ASSUME NEW s \in Nat
    PROVE  LET b == HoursMinutes(s)
           IN  /\ b.hours * 3600 + b.minutes * 60 + b.seconds = s
               /\ b.minutes \in 0 .. 59 /\ b.seconds \in 0 .. 59
<1>1. PICK h \in Int : h = s \div 3600 /\ h * 3600 <= s /\ s < h * 3600 + 3600
  BY Division
<1>2. PICK rest \in Int : rest = s - h * 3600
  BY <1>1
<1>3. 0 <= rest /\ rest < 3600
  BY <1>1, <1>2
<1>4. PICK min \in Int : min = rest \div 60 /\ min * 60 <= rest /\ rest < min * 60 + 60
  BY <1>2, Division
<1>5. HoursMinutes(s) = [hours |-> h, minutes |-> min, seconds |-> rest - min * 60]
  BY <1>1, <1>2, <1>4 DEF HoursMinutes
<1>6. min \in 0 .. 59 /\ rest - min * 60 \in 0 .. 59
  BY <1>3, <1>4
<1>7. h * 3600 + min * 60 + (rest - min * 60) = s
  BY <1>1, <1>2, <1>4
<1> QED BY <1>5, <1>6, <1>7

\* breakdown splits a duration exactly, and its minutes and seconds are below 60
\* (posix_fe.h:174, 328).
THEOREM BreakdownExact ==
    ASSUME NEW word \in Nat, NEW t, t.sec \in 0 .. word - 1
    PROVE  LET b == Breakdown(t, word)
           IN  /\ b.hours * 3600 + b.minutes * 60 + b.seconds = t.sec
               /\ b.minutes \in 0 .. 59 /\ b.seconds \in 0 .. 59
               /\ TvBreakdown(t, word) = b
<1>1. PICK s \in Nat : s = t.sec
  OBVIOUS
<1>2. s % word = s
  BY <1>1
<1>3. Breakdown(t, word) = HoursMinutes(s) /\ TvBreakdown(t, word) = HoursMinutes(s)
  BY <1>1, <1>2 DEF Breakdown, TvBreakdown
<1> QED BY <1>1, <1>3, HoursMinutesExact

\* The order in which three factors are multiplied.
LEMMA Associate ==
    ASSUME NEW a \in Int, NEW b \in Int, NEW c \in Int
    PROVE  (a * b) * c = a * (b * c)
OBVIOUS

\* A time in a coarser unit, cut off: at most the time, and less than a unit
\* below it.
CutOff(m, v, unit) == m * unit <= v /\ v < m * unit + unit

\* Seconds of k units and a field of which `unit' make a unit, as long as the
\* word holds them.
LEMMA CutOffSum ==
    ASSUME NEW x \in Nat, NEW y \in Nat, NEW k \in Nat, NEW unit \in Nat, unit > 0,
           NEW word \in Nat, (x * k) * unit + y < word * unit
    PROVE  CutOff((x * k + y \div unit) % word, (x * k) * unit + y, unit)
<1>1. PICK d \in Int : /\ d = y \div unit /\ d * unit \in Int
                       /\ d * unit <= y /\ y < d * unit + unit
  BY Division
<1>2. d >= 0
  <2>1. SUFFICES ASSUME d + 1 <= 0 PROVE FALSE
    OBVIOUS
  <2>2. d * unit + unit <= 0 * unit
    BY <2>1, MultiplyMonotone
  <2> QED BY <1>1, <2>2
<1>3. PICK w \in Nat : w = x * k
  OBVIOUS
<1>4. (w + d) * unit = w * unit + d * unit /\ w * unit \in Int
  BY Distribute
<1>5. w + d < word
  <2>1. SUFFICES ASSUME word <= w + d PROVE FALSE
    BY <1>2
  <2>2. word * unit <= (w + d) * unit
    <3>1. CASE word = w + d
      BY <3>1, <1>4, <1>1
    <3>2. CASE word + 1 <= w + d
      <4>1. word * unit + unit <= (w + d) * unit
        BY <3>2, MultiplyMonotone
      <4>2. word * unit \in Int
        BY Distribute
      <4> QED BY <1>1, <1>4, <4>1, <4>2
    <3> QED BY <2>1, <3>1, <3>2
  <2>3. word * unit \in Int
    BY Distribute
  <2> QED BY <1>1, <1>3, <1>4, <2>2, <2>3
<1>6. (w + d) % word = w + d
  BY <1>2, <1>5
<1> QED BY <1>1, <1>3, <1>4, <1>6 DEF CutOff

\* As long as the word holds them, usecs() and nsecs() of a timeval are the time,
\* and msecs() of a timeval, msecs() and usecs() of a timespec are the time cut
\* off by less than one unit (posix_fe.h:186-197, 337-344).
THEOREM CountsExact ==
    ASSUME NEW word \in Nat,
           NEW t \in Timevals, t.sec \in 0 .. word - 1,
           NEW s \in Timespecs, s.sec \in 0 .. word - 1
    PROVE  /\ TvVal(t) < word => TvUsecs(t, word) = TvVal(t)
           /\ TvVal(t) * KILO < word => TvNsecs(t, word) = TvVal(t) * KILO
           /\ TvVal(t) < word * KILO => CutOff(TvMsecs(t, word), TvVal(t), KILO)
           /\ Val(s) < word * USEC => CutOff(Msecs(s, word), Val(s), USEC)
           /\ Val(s) < word * KILO => CutOff(Usecs(s, word), Val(s), KILO)
<1>1. /\ t.sec \in Int /\ t.usec \in Int /\ 0 <= t.usec /\ t.sec * USEC \in Int
      /\ t.sec % word = t.sec
  BY TvFields
<1>2. t.sec * USEC >= 0 /\ TvVal(t) \in Int /\ TvVal(t) >= 0
  BY <1>1, Units DEF TvVal
<1>3. TvVal(t) < word => TvUsecs(t, word) = TvVal(t)
  BY <1>1, <1>2 DEF TvUsecs, TvVal
<1>4. TvVal(t) * KILO = t.sec * NSEC + t.usec * KILO
  <2>1. (t.sec * USEC + t.usec) * KILO = (t.sec * USEC) * KILO + t.usec * KILO
    BY <1>1, Units, Distribute
  <2>2. (t.sec * USEC) * KILO = t.sec * NSEC
    BY <1>1, Units
  <2> QED BY <2>1, <2>2 DEF TvVal
<1>5. TvVal(t) * KILO \in Int /\ TvVal(t) * KILO >= 0
  BY <1>2, Units
<1>6. TvNsecs(t, word) = (TvVal(t) * KILO) % word
  BY <1>1, <1>4 DEF TvNsecs
<1>7. TvVal(t) * KILO < word => TvNsecs(t, word) = TvVal(t) * KILO
  BY <1>5, <1>6
<1>8. /\ s.sec \in Nat /\ s.nsec \in Nat /\ s.sec % word = s.sec
      /\ t.sec \in Nat /\ t.usec \in Nat
  <2>1. s.sec \in Nat /\ t.sec \in Nat
    OBVIOUS
  <2>2. s.nsec \in Nat
    BY Units DEF Timespecs
  <2>3. t.usec \in Nat
    BY <1>1
  <2>4. PICK n \in Nat : n = s.sec /\ n \in 0 .. word - 1
    BY <2>1
  <2>5. n % word = n
    BY <2>4
  <2> QED BY <2>1, <2>2, <2>3, <2>4, <2>5
<1>9. /\ (t.sec * KILO) * KILO = t.sec * USEC
      /\ (s.sec * KILO) * USEC = s.sec * NSEC
      /\ (s.sec * USEC) * KILO = s.sec * NSEC
  <2>1. /\ (t.sec * KILO) * KILO = t.sec * (KILO * KILO)
        /\ (s.sec * KILO) * USEC = s.sec * (KILO * USEC)
        /\ (s.sec * USEC) * KILO = s.sec * (USEC * KILO)
    BY <1>8, Units, Associate
  <2>2. KILO * KILO = USEC /\ KILO * USEC = NSEC /\ USEC * KILO = NSEC
    BY Units DEF USEC
  <2> QED BY <1>8, <2>1, <2>2, Units
<1>10. TvVal(t) < word * KILO => CutOff(TvMsecs(t, word), TvVal(t), KILO)
  BY <1>8, <1>9, Units, CutOffSum DEF TvMsecs, TvVal
<1>11. Val(s) < word * USEC => CutOff(Msecs(s, word), Val(s), USEC)
  BY <1>8, <1>9, Units, CutOffSum DEF Msecs, Val
<1>12. Val(s) < word * KILO => CutOff(Usecs(s, word), Val(s), KILO)
  BY <1>8, <1>9, Units, CutOffSum DEF Usecs, Val
<1> QED BY <1>3, <1>7, <1>10, <1>11, <1>12

-----------------------------------------------------------------------------
(* pxfe_ticker. *)
\* How the state goes with the thread and the stop byte: at most the thread created
\* last is there.
Phase ==
    /\ \A i \in Ids : i # id => thread[i] = "free"
    /\ \A i \in Ids : body[i] = "write" => thread[i] = "entry"
    /\ closer \in {0, 1}
    /\ closer = 1 <=> state = "STOPPING" /\ thread[id] \in {"starting", "entry"}
    /\ state = "INIT" => thread[id] = "free"
    /\ thread[id] = "born" => state = "NEWBORN"
    /\ state = "NEWBORN" => thread[id] \in {"free", "born"}
    /\ state = "RUNNING" => thread[id] \in {"starting", "entry"}
    /\ state = "STOPPING" => thread[id] \in {"starting", "entry", "ending"}
    /\ state = "ZOMBIE" => thread[id] \in {"dead", "free"}

\* How far a call has come, and what that says of the object.
Creating == {"create", "failed"}
Waiting  == {"created", "waiting"}
Joining  == {"join", "stopjoin", "destroy"}

Calling ==
    /\ \A u \in Users :
         /\ op[u] = "none" <=> call[u] = "idle"
         /\ op[u] = "start" => call[u] \in {"test", "returned"} \cup Creating \cup Waiting
         /\ op[u] = "stop" => call[u] \in {"stop", "returned"}
         /\ op[u] \in Joining => call[u] \in {"stop", "stopped", "join", "joined", "returned"}
         /\ call[u] \in Creating => state = "NEWBORN" /\ thread[id] = "free"
         /\ call[u] = "join" => state \in {"STOPPING", "ZOMBIE"} /\ thread[id] # "free"
         /\ call[u] = "joined" => state = "ZOMBIE" /\ thread[id] = "free"
    /\ \A u \in Users, v \in Users :
         /\ u # v => ~ (call[u] \in Creating /\ call[v] \in Creating)
         /\ u # v => ~ (op[u] \in Joining /\ op[v] \in Joining)
         /\ u # v /\ op[u] = "destroy" => op[v] = "none"
    /\ state = "NEWBORN" =>
         \E u \in Users : IF thread[id] = "free" THEN call[u] \in Creating ELSE call[u] \in Waiting
    /\ state = "ZOMBIE" /\ thread[id] = "free" => \E u \in Users : call[u] = "joined"
    /\ \A u \in Users : op[u] = "destroy" =>
         /\ call[u] = "stopped" => state \in {"INIT", "STOPPING", "ZOMBIE"}
         /\ call[u] = "returned" => state = "INIT"

Lateness == paused => late <= 1 /\ ((\E i \in Ids : body[i] = "write") => late = 0)
TInv == TypeOK /\ Phase /\ Calling /\ Lateness

\* A call of stop, join or stopjoin keeps the invariant.
LEMMA TickerStopKeeps ==
    ASSUME TInv, NEW u \in Users, CallStop(u)
    PROVE  TInv'
<1> USE CapAssumption DEF TInv, threadVars, CallStop, Calls, Goes
<1>1. TypeOK' /\ Phase' /\ Lateness'
  BY DEF TypeOK, ThreadTypeOK, Phase, Lateness
<1>2. Calling'
  BY DEF TypeOK, ThreadTypeOK, Calling, Creating, Waiting, Joining, InUse, MayJoin
<1> QED BY ONLY <1>1, <1>2 DEF TInv

\* stop() keeps the invariant: it sends one byte to a thread that runs.
LEMMA TickerSendKeeps ==
    ASSUME TInv, NEW u \in Users, TickerStop(u)
    PROVE  TInv'
<1> USE CapAssumption DEF TInv, TickerStop, Stop, Goes, SendStop, Joins
<1>1. TypeOK'
  BY DEF TypeOK, ThreadTypeOK, Phase
<1>2. Phase'
  BY DEF TypeOK, ThreadTypeOK, Phase
<1>3. Calling'
  BY DEF TypeOK, ThreadTypeOK, Phase, Calling, Creating, Waiting, Joining
<1>4. Lateness'
  BY DEF Lateness
<1> QED BY ONLY <1>1, <1>2, <1>3, <1>4 DEF TInv

\* pause() and resume() keep the invariant.
LEMMA TickerPauseKeeps ==
    ASSUME TInv, Pause \/ Resume
    PROVE  TInv'
<1> USE DEF TInv, Pause, Resume, SetPaused, threadVars
<1>1. paused' \in BOOLEAN
  BY Zenon
<1>2. late' = 0
  OBVIOUS
<1>3. TypeOK'
  BY <1>1, <1>2 DEF TypeOK, ThreadTypeOK
<1>4. Phase' /\ Calling'
  BY DEF Phase, Calling, Creating, Waiting, Joining
<1>5. Lateness'
  BY <1>2 DEF Lateness
<1> QED BY ONLY <1>3, <1>4, <1>5 DEF TInv

\* A call of start, and a reader of the ticks, keep the invariant.
LEMMA TickerCallsKeep ==
    ASSUME TInv
    PROVE  /\ \A u \in Users : Start(u) => TInv'
           /\ Read => TInv'
<1> USE CapAssumption DEF TInv, TypeOK, ThreadTypeOK, Phase, Calling, Lateness, tickVars,
         threadVars, Creating, Waiting, Joining
<1>1. ASSUME NEW u \in Users, Start(u) PROVE TInv'
  BY <1>1 DEF Start, Calls, Goes, InUse
<1>2. Read => TInv'
  BY DEF Read
<1> QED BY ONLY <1>1, <1>2

\* The steps of create keep the invariant.
LEMMA TickerCreateKeeps ==
    ASSUME TInv
    PROVE  /\ \A u \in Users : Create(u) /\ UNCHANGED tickVars => TInv'
           /\ \A u \in Users : Spawn(u) /\ UNCHANGED tickVars => TInv'
           /\ \A u \in Users : SpawnFails(u) /\ UNCHANGED tickVars => TInv'
           /\ \A u \in Users : CreateFails(u) /\ UNCHANGED tickVars => TInv'
           /\ \A u \in Users : Await(u) /\ UNCHANGED tickVars => TInv'
           /\ \A u \in Users : WaitEnds(u) /\ UNCHANGED tickVars => TInv'
<1> USE CapAssumption DEF TInv, TypeOK, ThreadTypeOK, Phase, Calling, Lateness, tickVars,
         threadVars, Creating, Waiting, Joining
<1>1. ASSUME NEW u \in Users, Create(u), UNCHANGED tickVars PROVE TInv'
  BY <1>1 DEF Create, Goes
<1>2. ASSUME NEW u \in Users, Spawn(u), UNCHANGED tickVars PROVE TInv'
  BY <1>2 DEF Spawn, Goes, Becomes, Alive
<1>3. ASSUME NEW u \in Users, SpawnFails(u), UNCHANGED tickVars PROVE TInv'
  BY <1>3 DEF SpawnFails, Goes
<1>4. ASSUME NEW u \in Users, CreateFails(u), UNCHANGED tickVars PROVE TInv'
  BY <1>4 DEF CreateFails, Goes
<1>5. ASSUME NEW u \in Users, Await(u), UNCHANGED tickVars PROVE TInv'
  BY <1>5 DEF Await, Goes
<1>6. ASSUME NEW u \in Users, WaitEnds(u), UNCHANGED tickVars PROVE TInv'
  BY <1>6 DEF WaitEnds, Goes
<1> QED BY ONLY <1>1, <1>2, <1>3, <1>4, <1>5, <1>6

\* The steps of join keep the invariant.
LEMMA TickerJoinKeeps ==
    ASSUME TInv
    PROVE  /\ \A u \in Users : Join(u) /\ UNCHANGED tickVars => TInv'
           /\ \A u \in Users : Joined(u) /\ UNCHANGED tickVars => TInv'
           /\ \A u \in Users : JoinEnds(u) /\ UNCHANGED tickVars => TInv'
<1> USE CapAssumption DEF TInv, TypeOK, ThreadTypeOK, Phase, Calling, Lateness, tickVars,
         threadVars, Creating, Waiting, Joining
<1>1. ASSUME NEW u \in Users, Join(u), UNCHANGED tickVars PROVE TInv'
  BY <1>1 DEF Join, Goes
<1>2. ASSUME NEW u \in Users, Joined(u), UNCHANGED tickVars PROVE TInv'
  BY <1>2 DEF Joined, Goes, Becomes
<1>3. ASSUME NEW u \in Users, JoinEnds(u), UNCHANGED tickVars PROVE TInv'
  BY <1>3 DEF JoinEnds, Goes
<1> QED BY ONLY <1>1, <1>2, <1>3

\* The steps of the thread keep the invariant.
LEMMA TickerThreadKeeps ==
    ASSUME TInv
    PROVE  /\ \A i \in Ids : EntryRuns(i) /\ UNCHANGED tickVars => TInv'
           /\ \A i \in Ids : EntrySignals(i) /\ UNCHANGED tickVars => TInv'
           /\ \A i \in Ids : EntryEnds(i) /\ UNCHANGED tickVars => TInv'
           /\ \A i \in Ids : Tick(i) => TInv'
           /\ \A i \in Ids : Write(i) => TInv'
           /\ \A i \in Ids : LeaveLoop(i) => TInv'
<1> USE CapAssumption DEF TInv, TypeOK, ThreadTypeOK, Phase, Calling, Lateness, tickVars,
         threadVars, Creating, Waiting, Joining
<1>1. ASSUME NEW i \in Ids, EntryRuns(i), UNCHANGED tickVars PROVE TInv'
  BY <1>1 DEF EntryRuns, Becomes
<1>2. ASSUME NEW i \in Ids, EntrySignals(i), UNCHANGED tickVars PROVE TInv'
  BY <1>2 DEF EntrySignals, Becomes, Goes
<1>3. ASSUME NEW i \in Ids, EntryEnds(i), UNCHANGED tickVars PROVE TInv'
  BY <1>3 DEF EntryEnds, Becomes
<1>4. ASSUME NEW i \in Ids, Tick(i) PROVE TInv'
  BY <1>4 DEF Tick, InEntry, Readable
<1>5. ASSUME NEW i \in Ids, Write(i) PROVE TInv'
  BY <1>5 DEF Write, InEntry
<1>6. ASSUME NEW i \in Ids, LeaveLoop(i) PROVE TInv'
  BY <1>6 DEF LeaveLoop, InEntry, Readable, Becomes
<1> QED BY ONLY <1>1, <1>2, <1>3, <1>4, <1>5, <1>6

\* The destructor pauses the ticker, if it is not paused already, and stops it.
LEMMA TickerDestroyKeeps ==
    ASSUME TInv, NEW u \in Users, DestroyTicker(u)
    PROVE  TInv'
<1> USE CapAssumption DEF TInv, threadVars, tickVars
<1>1. TypeOK' /\ Lateness'
  <2>1. CASE paused = FALSE
    <3>1. paused' = TRUE /\ late' = 0
      BY <2>1 DEF DestroyTicker, SetPaused
    <3> QED BY <3>1 DEF TypeOK, ThreadTypeOK, Lateness, DestroyTicker, Calls, Goes
  <2>2. CASE paused = TRUE
    <3>1. paused' = TRUE /\ late' = late
      BY <2>2 DEF DestroyTicker
    <3> QED BY <2>2, <3>1 DEF TypeOK, ThreadTypeOK, Lateness, DestroyTicker, Calls, Goes
  <2> QED BY <2>1, <2>2 DEF TypeOK
<1>2. Phase' /\ Calling'
  BY DEF TypeOK, ThreadTypeOK, Phase, Calling, Creating, Waiting, Joining, DestroyTicker,
         Calls, Goes
<1> QED BY <1>1, <1>2

\* A call that returns resumes the ticker when it was start, and after the
\* destructor leaves a new object.
LEMMA TickerReturnKeeps ==
    ASSUME TInv, NEW u \in Users, Return(u)
    PROVE  TInv'
<1> USE CapAssumption DEF TInv, threadVars, tickVars
<1>1. TypeOK'
  <2>1. late' \in Nat /\ closer' \in 0 .. Cap /\ pipe' \in 0 .. Cap
    BY DEF Return, SetPaused, TypeOK
  <2>2. paused' = FALSE \/ paused' = paused
    BY Zenon DEF Return, SetPaused
  <2>3. paused' \in BOOLEAN
    BY <2>2, Zenon DEF TypeOK
  <2> QED BY <2>1, <2>3 DEF TypeOK, ThreadTypeOK, Return, Goes
<1>2. Phase' /\ Calling'
  BY DEF TypeOK, ThreadTypeOK, Phase, Calling, Creating, Waiting, Joining, Return, Goes
<1>3. Lateness'
  BY DEF TypeOK, ThreadTypeOK, Phase, Lateness, Return, Goes, SetPaused
<1> QED BY <1>1, <1>2, <1>3

\* A ticker that nobody has called yet.
LEMMA TickerInit == Init => TInv
<1> SUFFICES ASSUME Init PROVE TInv
  OBVIOUS
<1> USE CapAssumption DEF Init, ThreadInit, NewPipes
<1>1. TypeOK
  <2>1. paused \in BOOLEAN
    BY Zenon
  <2>2. closer \in 0 .. Cap /\ pipe \in 0 .. Cap /\ late \in Nat
    OBVIOUS
  <2> QED BY <2>1, <2>2 DEF TypeOK, ThreadTypeOK
<1>2. Phase
  BY DEF Phase
<1>3. Calling
  BY DEF Calling, Creating, Waiting, Joining
<1>4. Lateness
  BY DEF Lateness
<1> QED BY ONLY <1>1, <1>2, <1>3, <1>4 DEF TInv

\* Every step of the users, the thread and the clock keeps the invariant.
LEMMA TickerNext == TInv /\ [Next]_vars => TInv'
<1> SUFFICES ASSUME TInv, [Next]_vars PROVE TInv'
  OBVIOUS
<1>1. CASE UNCHANGED vars
  BY <1>1 DEF vars, tickVars, threadVars, TInv, TypeOK, ThreadTypeOK, Phase, Calling, Lateness,
              Creating, Waiting, Joining
<1>2. ASSUME NEW u \in Users,
             Start(u) \/ CallStop(u) \/ DestroyTicker(u) \/ UserStep(u) \/ TimeOut(u)
      PROVE  TInv'
  BY <1>2, TickerStopKeeps, TickerSendKeeps, TickerCallsKeep, TickerCreateKeeps, TickerJoinKeeps,
     TickerDestroyKeeps, TickerReturnKeeps, Zenon DEF UserStep, TimeOut, CallStep
<1>3. ASSUME NEW i \in Ids, ThreadStep(i) PROVE TInv'
  BY <1>3, TickerThreadKeeps, Zenon DEF ThreadStep
<1>4. CASE Pause \/ Resume \/ Read
  BY <1>4, TickerCallsKeep, TickerPauseKeeps
<1> QED BY <1>1, <1>2, <1>3, <1>4 DEF Next

\* However its users call it, a ticker keeps the invariant.
LEMMA TickerInvariant == Spec => []TInv
BY TickerInit, TickerNext, PTL DEF Spec

\* Every variable of a ticker stays in its type, however its users call it.
THEOREM TickerTypes == Spec => []TypeOK
<1>1. TInv => TypeOK
  BY DEF TInv
<1> QED BY <1>1, TickerInvariant, PTL

\* Whatever the users do to a ticker, it has one thread at most, and none and no
\* stop byte when its state says INIT or its destructor is through
\* (posix_fe.h:1280-1319).
THEOREM TickerIdleIsClean == Spec => []IdleIsClean
<1>1. TInv => IdleIsClean
  <2> SUFFICES ASSUME TInv PROVE IdleIsClean
    OBVIOUS
  <2> USE DEF TInv, Phase
  <2>1. Alive \subseteq {id}
    BY DEF Alive
  <2>2. Cardinality(Alive) <= 1
    <3>1. Alive = {} \/ Alive = {id}
      BY <2>1
    <3> QED BY <3>1, FS_EmptySet, FS_Singleton
  <2>3. state = "INIT" => Idle
    BY <2>1 DEF Idle, Alive
  <2> QED BY <2>2, <2>3 DEF IdleIsClean, Calling
<1> QED BY <1>1, TickerInvariant, PTL

\* After pause() at most one more tick is written, whichever users pause, resume,
\* start and stop the ticker (posix_fe.h:2429).
THEOREM TickerOneLateTick == Spec => []OneLateTick
<1>1. TInv => OneLateTick
  BY DEF TInv, Lateness, OneLateTick
<1> QED BY <1>1, TickerInvariant, PTL

-----------------------------------------------------------------------------
(* Descriptors and the objects that own them. *)
\* Every open descriptor has a holder, and no two objects hold the same.
FdHeld ==
    /\ \A o \in Objs : fd[o] # -1 => fd[o] \in open
    /\ \A f \in open : \E o \in Objs : fd[o] = f
    /\ \A o \in Objs, n \in Objs : fd[o] = fd[n] /\ fd[o] # -1 => o = n

DInv == FdTypeOK /\ FdHeld /\ NameKept

\* A descriptor is a number of its own, never -1.
LEMMA FdNotNone == -1 \notin Fds /\ \A f \in Fds : f \in Nat
BY FdsAssumption

\* An object without a descriptor is given a free one.
LEMMA FdGiven ==
    ASSUME FdTypeOK, FdHeld, NEW o \in Objs, fd[o] = -1, NEW f \in Fds \ open,
           fd' = [fd EXCEPT ![o] = f], open' = open \cup {f}
    PROVE  FdHeld' /\ fd' \in [Objs -> Fds \cup {-1}] /\ open' \subseteq Fds
<1> USE FdNotNone DEF FdTypeOK, FdHeld
<1>1. fd' \in [Objs -> Fds \cup {-1}] /\ open' \subseteq Fds
  OBVIOUS
<1>2. \A n \in Objs : fd'[n] = IF n = o THEN f ELSE fd[n]
  OBVIOUS
<1>3. \A n \in Objs : fd[n] # f
  OBVIOUS
<1>4. \A n \in Objs : fd'[n] # -1 => fd'[n] \in open'
  BY <1>2
<1>5. ASSUME NEW g \in open' PROVE \E n \in Objs : fd'[n] = g
  <2>1. CASE g = f
    BY <1>2, <2>1
  <2>2. CASE g \in open
    <3>1. PICK n \in Objs : fd[n] = g
      BY <2>2
    <3>2. n # o
      BY <2>2, <3>1
    <3> QED BY <1>2, <3>1, <3>2
  <2> QED BY <2>1, <2>2
<1>6. \A m \in Objs, n \in Objs : fd'[m] = fd'[n] /\ fd'[m] # -1 => m = n
  BY <1>2, <1>3
<1> QED BY ONLY <1>1, <1>4, <1>5, <1>6 DEF FdHeld

\* An object gives up its descriptor, for none or for a free one.
LEMMA FdReleased ==
    ASSUME FdTypeOK, FdHeld, NEW o \in Objs, NEW f \in (Fds \ open) \cup {-1},
           fd' = [fd EXCEPT ![o] = f],
           open' = (open \ {fd[o]}) \cup ({f} \ {-1})
    PROVE  FdHeld' /\ fd' \in [Objs -> Fds \cup {-1}] /\ open' \subseteq Fds
<1> USE FdNotNone DEF FdTypeOK, FdHeld
<1>1. fd' \in [Objs -> Fds \cup {-1}] /\ open' \subseteq Fds
  OBVIOUS
<1>2. \A n \in Objs : fd'[n] = IF n = o THEN f ELSE fd[n]
  OBVIOUS
<1>3. f # -1 => \A n \in Objs : fd[n] # f
  OBVIOUS
<1>4. \A n \in Objs : fd'[n] # -1 => fd'[n] \in open'
  BY <1>2
<1>5. \A g \in open' : \E n \in Objs : fd'[n] = g
  BY <1>2
<1>6. \A m \in Objs, n \in Objs : fd'[m] = fd'[n] /\ fd'[m] # -1 => m = n
  BY <1>2, <1>3
<1> QED BY ONLY <1>1, <1>4, <1>5, <1>6 DEF FdHeld

\* The steps that open a descriptor keep the invariant.
LEMMA OpenKeeps ==
    ASSUME DInv, NEW o \in Objs, OpenStep(o)
    PROVE  DInv'
<1> USE DEF DInv
<1>1. ASSUME NEW n \in Objs, n \in Unix => MayAdopt(n), fd[n] = -1,
             Opens(n) \/ UNCHANGED <<fd, open>>, UNCHANGED <<path, named>>
      PROVE  DInv'
  <2>1. CASE UNCHANGED <<fd, open>>
    BY <1>1, <2>1 DEF FdTypeOK, FdHeld, NameKept
  <2>2. CASE Opens(n)
    <3>1. PICK f \in Fds \ open : fd' = [fd EXCEPT ![n] = f] /\ open' = open \cup {f}
      BY <2>2 DEF Opens, Given, Free
    <3>2. FdTypeOK' /\ FdHeld'
      BY <1>1, <3>1, FdGiven DEF FdTypeOK
    <3>3. NameKept'
      BY <1>1, <3>1, ObjsAssumption DEF MayAdopt, NameKept, FdTypeOK
    <3> QED BY <3>2, <3>3
  <2> QED BY <1>1, <2>1, <2>2
<1>2. ASSUME NEW p \in Paths, InitUnix(o, p) PROVE DInv'
  <2> USE <1>2 DEF InitUnix
  <2>1. CASE UNCHANGED <<fd, open, named>>
    <3>1. FdTypeOK' /\ FdHeld'
      BY <2>1 DEF FdTypeOK, FdHeld
    <3>2. NameKept'
      BY <2>1, ObjsAssumption DEF NameKept, FdTypeOK
    <3> QED BY <3>1, <3>2
  <2>2. CASE Opens(o) /\ named[p] = NoName /\ named' = [named EXCEPT ![p] = o]
    <3>1. PICK f \in Fds \ open : fd' = [fd EXCEPT ![o] = f] /\ open' = open \cup {f}
      BY <2>2 DEF Opens, Given, Free
    <3>2. FdTypeOK' /\ FdHeld'
      BY <2>2, <3>1, FdGiven DEF FdTypeOK
    <3>3. NameKept'
      BY <2>2, <3>1, ObjsAssumption DEF NameKept, FdTypeOK
    <3> QED BY <3>2, <3>3
  <2> QED BY <2>1, <2>2
<1> QED BY <1>1, <1>2, ObjsAssumption DEF OpenStep, Open, InitUdp, InitStream, Accept

\* The steps that close one keep it.
LEMMA CloseKeeps ==
    ASSUME DInv, NEW o \in Objs, CloseStep(o)
    PROVE  DInv'
<1> USE DEF DInv
<1>1. CASE Close(o)
  <2>1. FdTypeOK' /\ FdHeld'
    BY <1>1, FdReleased DEF Close, FdTypeOK
  <2>2. NameKept'
    BY <1>1, ObjsAssumption DEF Close, NameKept, FdTypeOK
  <2> QED BY <2>1, <2>2
<1>2. CASE MayAdopt(o) /\ SetFd(o)
  <2>1. PICK f \in Fds \ open :
          /\ fd' = [fd EXCEPT ![o] = f] /\ open' = (open \ {fd[o]}) \cup {f}
    BY <1>2 DEF SetFd, Free
  <2>2. FdTypeOK' /\ FdHeld'
    <3>1. {f} = {f} \ {-1}
      BY FdNotNone
    <3>2. FdHeld' /\ fd' \in [Objs -> Fds \cup {-1}] /\ open' \subseteq Fds
      BY <2>1, <3>1, FdReleased
    <3> QED BY <1>2, <3>2 DEF SetFd, FdTypeOK
  <2>3. NameKept'
    BY <1>2, <2>1, ObjsAssumption DEF MayAdopt, SetFd, NameKept, FdTypeOK
  <2> QED BY <2>2, <2>3
<1>3. CASE Destroy(o)
  <2>1. FdTypeOK' /\ FdHeld'
    BY <1>3, FdReleased DEF Destroy, FdTypeOK
  <2>2. \A n \in Objs : fd'[n] # -1 => n # o /\ fd'[n] = fd[n] /\ path'[n] = path[n]
    BY <1>3 DEF Destroy, FdTypeOK
  <2>3. ASSUME NEW n \in Unix, n # o, fd[n] # -1, path[n] # NoName PROVE named'[path[n]] = n
    <3>1. named[path[n]] = n /\ path[n] \in Paths
      BY <2>3, ObjsAssumption DEF NameKept, FdTypeOK
    <3>2. CASE o \in Unix /\ fd[o] > 0
      <4>1. fd[o] # -1
        <5>1. ~ (-1 > 0)
          OBVIOUS
        <5> QED BY <3>2, <5>1
      <4>2. path[o] # path[n]
        BY <2>3, <3>1, <3>2, <4>1 DEF NameKept
      <4> QED BY <1>3, <3>1, <4>2 DEF Destroy
    <3>3. CASE ~ (o \in Unix /\ fd[o] > 0)
      BY <1>3, <3>1, <3>3 DEF Destroy
    <3> QED BY <3>2, <3>3
  <2>4. NameKept'
    BY <2>2, <2>3, ObjsAssumption DEF NameKept
  <2> QED BY <2>1, <2>4
<1> QED BY ONLY CloseStep(o), <1>1, <1>2, <1>3 DEF CloseStep

\* No descriptor is open at first, and no name is taken.
LEMMA ServerFdInit == ServerInit => DInv
BY ObjsAssumption DEF ServerInit, FdInit, DInv, FdTypeOK, NameKept, FdHeld

\* Every step of the server keeps the holders and the names: those that leave the
\* descriptors alone do not touch them.
LEMMA ServerFdNext == DInv /\ [ServerNext]_serverVars => DInv'
<1>1. DInv /\ UNCHANGED fdVars => DInv'
  BY DEF DInv, FdTypeOK, NameKept, fdVars, FdHeld
<1> QED BY <1>1, OpenKeeps, CloseKeeps DEF ServerNext, serverVars

\* The holders and the names are right in every state of the server.
LEMMA ServerFds == ServerSpec => []DInv
BY ServerFdInit, ServerFdNext, PTL DEF ServerSpec

\* However sockets are opened, closed and destroyed, every open descriptor has
\* exactly one owner and nobody owns a closed one (posix_fe.h:1139-1146, 1194-1199).
THEOREM DescriptorsOwned == ServerSpec => []Owned
<1>1. DInv => Owned
  <2> SUFFICES ASSUME DInv PROVE Owned
    OBVIOUS
  <2>1. ASSUME NEW f \in open PROVE Cardinality({o \in Objs : fd[o] = f}) = 1
    <3>1. PICK o \in Objs : fd[o] = f
      BY DEF DInv, FdHeld
    <3>2. f # -1
      BY FdNotNone DEF DInv, FdTypeOK
    <3>3. {n \in Objs : fd[n] = f} = {o}
      BY <3>1, <3>2 DEF DInv, FdHeld
    <3> QED BY <3>3, FS_Singleton
  <2> QED BY <2>1 DEF DInv, Owned, FdHeld
<1> QED BY <1>1, ServerFds, PTL

\* A unix socket that is open is found under its path: no other object has removed
\* it (posix_fe.h:1855-1873), if no socket is given a descriptor by open or setFd
\* after its bind failed.
THEOREM DescriptorsNameKept == ServerSpec => []NameKept
<1>1. DInv => NameKept
  BY DEF DInv
<1> QED BY <1>1, ServerFds, PTL

-----------------------------------------------------------------------------
(* pxfe_poll. *)
\* A slot of fds.
Slot == [fd : Fds \cup {-1}, events : Events \cup {0}, revents : Events \cup {0}]

\* The entry of f in an index, as Index has it.
Entry(ix, f) == IF f < Len(ix) THEN ix[f + 1] ELSE None

\* An index and slots agree on who is where, and the free slots are S.
Agreed(ix, sl, S) ==
    /\ ix \in Seq(Nat) /\ sl \in Seq(Slot) /\ S \subseteq 1 .. Len(sl)
    /\ \A f \in Nat : Entry(ix, f) # None => Entry(ix, f) \in 1 .. Len(sl) /\ sl[Entry(ix, f)].fd = f
    /\ \A i \in 1 .. Len(sl) : sl[i].fd # -1 => Entry(ix, sl[i].fd) = i /\ sl[i].events # 0
    /\ \A i \in 1 .. Len(sl) : sl[i].fd = -1 <=> i \in S

\* An index is made longer without a change to its entries.
LEMMA EntryGrown ==
    ASSUME NEW ix \in Seq(Nat), NEW f \in Nat,
           NEW g, g = ix \o [k \in 1 .. (f + 1 - Len(ix)) |-> None]
    PROVE  /\ g \in Seq(Nat) /\ f + 1 \in 1 .. Len(g)
           /\ \A h \in Nat : Entry(g, h) = Entry(ix, h)
<1>1. PICK n \in Nat : n = Len(ix)
  OBVIOUS
<1>2. PICK m \in Nat : 1 .. (f + 1 - n) = 1 .. m /\ f + 1 <= n + m
  <2>1. CASE f < n
    <3>1. 1 .. (f + 1 - n) = {} /\ 1 .. 0 = {} /\ f + 1 <= n + 0
      BY <2>1
    <3> QED BY <3>1
  <2>2. CASE n <= f
    <3>1. f + 1 - n \in Nat /\ f + 1 <= n + (f + 1 - n)
      BY <2>2
    <3> QED BY <3>1
  <2> QED BY <2>1, <2>2
<1>3. PICK t : t = [k \in 1 .. m |-> None]
  OBVIOUS
<1>4. t \in Seq(Nat) /\ Len(t) = m /\ \A k \in 1 .. m : t[k] = None
  BY <1>3 DEF None
<1>5. g = ix \o t
  BY <1>1, <1>2, <1>3
<1>6. /\ g \in Seq(Nat) /\ Len(g) = Len(ix) + Len(t)
      /\ \A i \in 1 .. Len(ix) + Len(t) : g[i] = IF i <= Len(ix) THEN ix[i] ELSE t[i - Len(ix)]
  BY <1>4, <1>5, ConcatProperties, ZenonT(30)
<1>7. /\ g \in Seq(Nat) /\ Len(g) = n + m
      /\ \A i \in 1 .. n + m : g[i] = IF i <= n THEN ix[i] ELSE t[i - n]
  BY <1>1, <1>4, <1>6
<1>8. f + 1 \in 1 .. Len(g)
  <2>1. f + 1 \in 1 .. n + m
    BY <1>2
  <2> QED BY <1>7, <2>1, Zenon
<1>9. ASSUME NEW h \in Nat PROVE Entry(g, h) = Entry(ix, h)
  <2>1. CASE h < n
    <3>1. h + 1 \in 1 .. n + m /\ h + 1 <= n /\ h < n + m
      BY <2>1
    <3> QED BY <1>1, <1>7, <2>1, <3>1 DEF Entry
  <2>2. CASE n <= h /\ h < n + m
    <3>1. h + 1 \in 1 .. n + m /\ ~ (h + 1 <= n) /\ (h + 1) - n \in 1 .. m /\ ~ (h < n)
      BY <2>2
    <3>2. g[h + 1] = t[(h + 1) - n]
      <4>1. g[h + 1] = IF h + 1 <= n THEN ix[h + 1] ELSE t[(h + 1) - n]
        BY <1>7, <3>1, Zenon
      <4> QED BY <3>1, <4>1, Zenon
    <3> QED BY <1>1, <1>4, <1>7, <2>2, <3>1, <3>2 DEF Entry
  <2>3. CASE n + m <= h
    <3>1. ~ (h < n + m) /\ ~ (h < n)
      BY <2>3
    <3> QED BY <1>1, <1>7, <3>1 DEF Entry
  <2> QED BY <2>1, <2>2, <2>3
<1> QED BY <1>7, <1>8, <1>9

\* jx is ix with another entry for f.
Moved(ix, jx, f, e) ==
    jx \in Seq(Nat) /\ \A h \in Nat : Entry(jx, h) = IF h = f THEN e ELSE Entry(ix, h)

\* One entry of an index is given a value.
LEMMA EntrySet ==
    ASSUME NEW ix \in Seq(Nat), NEW f \in Nat, f + 1 \in 1 .. Len(ix), NEW e \in Nat
    PROVE  Moved(ix, [ix EXCEPT ![f + 1] = e], f, e)
<1>1. PICK g : g = [ix EXCEPT ![f + 1] = e]
  OBVIOUS
<1>2. /\ g \in Seq(Nat) /\ Len(g) = Len(ix)
      /\ \A j \in 1 .. Len(ix) : g[j] = IF j = f + 1 THEN e ELSE ix[j]
  BY <1>1, ExceptSeq
<1>3. ASSUME NEW h \in Nat PROVE Entry(g, h) = IF h = f THEN e ELSE Entry(ix, h)
  <2>1. CASE h < Len(ix)
    <3>1. h + 1 \in 1 .. Len(ix) /\ (h + 1 = f + 1 <=> h = f)
      BY <2>1
    <3> QED BY <1>2, <2>1, <3>1 DEF Entry
  <2>2. CASE ~ (h < Len(ix))
    BY <1>2, <2>2 DEF Entry
  <2> QED BY <2>1, <2>2
<1> QED BY <1>1, <1>2, <1>3 DEF Moved

\* The entries that are None at the end of an index can go.
LEMMA EntryTrimmed ==
    ASSUME NEW ix \in Seq(Nat), NEW n \in Ends(ix), NEW g, g = SubSeq(ix, 1, n)
    PROVE  /\ g \in Seq(Nat)
           /\ \A h \in Nat : Entry(g, h) = Entry(ix, h)
<1>1. n \in Nat /\ n <= Len(ix) /\ \A k \in n + 1 .. Len(ix) : ix[k] = None
  BY DEF Ends
<1>2. g \in Seq(Nat) /\ Len(g) = n /\ \A i \in 1 .. n : g[i] = ix[i]
  <2>1. \A i \in 1 .. n : ix[i] \in Nat
    BY <1>1
  <2>2. /\ g \in Seq(Nat) /\ Len(g) = (IF 1 <= n THEN n - 1 + 1 ELSE 0)
        /\ \A i \in 1 .. n - 1 + 1 : g[i] = ix[1 + i - 1]
    BY <1>1, <2>1, SubSeqProperties
  <2> QED BY <1>1, <2>2
<1>3. ASSUME NEW h \in Nat PROVE Entry(g, h) = Entry(ix, h)
  <2>1. CASE h < n
    BY <1>1, <1>2, <2>1 DEF Entry
  <2>2. CASE n <= h /\ h < Len(ix)
    <3>1. h + 1 \in n + 1 .. Len(ix)
      BY <1>1, <2>2
    <3> QED BY <1>1, <1>2, <2>2, <3>1 DEF Entry
  <2>3. CASE Len(ix) <= h
    BY <1>1, <1>2, <2>3 DEF Entry
  <2> QED BY <1>1, <2>1, <2>2, <2>3
<1> QED BY <1>2, <1>3

\* Slots with another descriptor and events in one of them, and with other events.
GivenTo(sl, i, d, ev) == [sl EXCEPT ![i].fd = d, ![i].events = ev]
AskedOf(sl, i, ev)    == [sl EXCEPT ![i].events = ev]

\* A slot is given to a descriptor, or to none.
LEMMA SlotGiven ==
    ASSUME NEW sl \in Seq(Slot), NEW i \in 1 .. Len(sl), NEW d \in Fds \cup {-1},
           NEW ev \in Events \cup {0}
    PROVE  /\ GivenTo(sl, i, d, ev) \in Seq(Slot)
           /\ Len(GivenTo(sl, i, d, ev)) = Len(sl)
           /\ \A j \in 1 .. Len(sl) : j # i => GivenTo(sl, i, d, ev)[j] = sl[j]
           /\ GivenTo(sl, i, d, ev)[i] =
                 [fd |-> d, events |-> ev, revents |-> sl[i].revents]
<1>1. sl[i] \in Slot
  OBVIOUS
<1>2. PICK r : r = [sl[i] EXCEPT !.fd = d, !.events = ev]
  OBVIOUS
<1>3. r \in Slot /\ r = [fd |-> d, events |-> ev, revents |-> sl[i].revents]
  BY <1>1, <1>2 DEF Slot
<1>4. GivenTo(sl, i, d, ev) = [sl EXCEPT ![i] = r]
  BY <1>2 DEF GivenTo
<1> QED BY <1>3, <1>4, ExceptSeq

\* The events of a slot are set.
LEMMA SlotAsked ==
    ASSUME NEW sl \in Seq(Slot), NEW i \in 1 .. Len(sl), NEW ev \in Events \cup {0}
    PROVE  /\ AskedOf(sl, i, ev) \in Seq(Slot)
           /\ Len(AskedOf(sl, i, ev)) = Len(sl)
           /\ \A j \in 1 .. Len(sl) : j # i => AskedOf(sl, i, ev)[j] = sl[j]
           /\ AskedOf(sl, i, ev)[i] =
                 [fd |-> sl[i].fd, events |-> ev, revents |-> sl[i].revents]
<1>1. sl[i] \in Slot
  OBVIOUS
<1>2. PICK r : r = [sl[i] EXCEPT !.events = ev]
  OBVIOUS
<1>3. r \in Slot /\ r = [fd |-> sl[i].fd, events |-> ev, revents |-> sl[i].revents]
  BY <1>1, <1>2 DEF Slot
<1>4. AskedOf(sl, i, ev) = [sl EXCEPT ![i] = r]
  BY <1>2 DEF AskedOf
<1> QED BY <1>3, <1>4, ExceptSeq

\* What an index and slots say of every descriptor but f is said by others too.
Kept(ix, sl, jx, s, f) ==
    \A h \in Nat : h # f /\ Entry(ix, h) # None => s[Entry(jx, h)] = sl[Entry(ix, h)]

\* A descriptor leaves, and its slot becomes free.
LEMMA AgreedUnset ==
    ASSUME NEW ix, NEW sl, NEW S, Agreed(ix, sl, S), NEW f \in Nat,
           NEW e, e = Entry(ix, f), e # None,
           NEW jx, Moved(ix, jx, f, None), NEW s, s = GivenTo(sl, e, -1, 0)
    PROVE  Agreed(jx, s, S \cup {e}) /\ e \notin S /\ Kept(ix, sl, jx, s, f)
<1> USE DEF Agreed, Moved
<1>1. e \in 1 .. Len(sl) /\ sl[e].fd = f /\ f # -1 /\ f \in Fds
  <2>1. e \in 1 .. Len(sl) /\ sl[e].fd = f /\ f # -1
    OBVIOUS
  <2>2. sl[e] \in Slot
    BY <2>1
  <2> QED BY <2>1, <2>2 DEF Slot
<1>2. /\ s \in Seq(Slot) /\ Len(s) = Len(sl)
      /\ \A j \in 1 .. Len(sl) : j # e => s[j] = sl[j]
      /\ s[e].fd = -1
  <2>1. sl \in Seq(Slot) /\ -1 \in Fds \cup {-1} /\ 0 \in Events \cup {0}
    OBVIOUS
  <2>2. /\ GivenTo(sl, e, -1, 0) \in Seq(Slot) /\ Len(GivenTo(sl, e, -1, 0)) = Len(sl)
        /\ \A j \in 1 .. Len(sl) : j # e => GivenTo(sl, e, -1, 0)[j] = sl[j]
        /\ GivenTo(sl, e, -1, 0)[e] = [fd |-> -1, events |-> 0, revents |-> sl[e].revents]
    BY ONLY <1>1, <2>1, SlotGiven, Zenon
  <2> QED BY <2>2
<1>3. ASSUME NEW h \in Nat, Entry(jx, h) # None
      PROVE  /\ Entry(jx, h) \in 1 .. Len(sl) /\ Entry(jx, h) # e
             /\ sl[Entry(jx, h)].fd = h /\ h # f /\ Entry(jx, h) = Entry(ix, h)
  <2>1. h # f /\ Entry(jx, h) = Entry(ix, h)
    BY <1>3
  <2> QED BY <1>1, <1>3, <2>1
<1>4. ASSUME NEW i \in 1 .. Len(s), s[i].fd # -1
      PROVE  Entry(jx, s[i].fd) = i /\ s[i].events # 0
  <2>1. i # e /\ i \in 1 .. Len(sl) /\ s[i] = sl[i]
    BY <1>2, <1>4
  <2>2. Entry(ix, sl[i].fd) = i /\ sl[i].events # 0 /\ sl[i].fd # f
    BY <1>1, <1>4, <2>1
  <2>3. sl[i].fd \in Nat
    <3>1. sl[i] \in Slot
      BY <2>1
    <3> QED BY <1>4, <2>1, <3>1, FdNotNone DEF Slot
  <2> QED BY <2>1, <2>2, <2>3
<1>5. \A i \in 1 .. Len(s) : s[i].fd = -1 <=> i \in S \cup {e}
  BY <1>1, <1>2
<1>6. Kept(ix, sl, jx, s, f)
  BY <1>2, <1>3 DEF Kept
<1>7. e \notin S
  BY <1>1
<1> QED BY <1>1, <1>2, <1>3, <1>4, <1>5, <1>6, <1>7

\* The events of a descriptor in the set are changed.
LEMMA AgreedAsked ==
    ASSUME NEW ix, NEW sl, NEW S, Agreed(ix, sl, S), NEW f \in Nat,
           NEW e, e = Entry(ix, f), e # None, NEW ev \in Events,
           NEW s, s = AskedOf(sl, e, ev)
    PROVE  /\ Agreed(ix, s, S) /\ Kept(ix, sl, ix, s, f)
           /\ s[e].events = ev /\ s[e].revents = sl[e].revents
<1> USE DEF Agreed
<1>1. e \in 1 .. Len(sl) /\ ev # 0
  BY EventsAssumption
<1>2. /\ s \in Seq(Slot) /\ Len(s) = Len(sl)
      /\ \A j \in 1 .. Len(sl) : j # e => s[j] = sl[j]
      /\ s[e].fd = sl[e].fd /\ s[e].events = ev /\ s[e].revents = sl[e].revents
  <2>1. sl \in Seq(Slot) /\ ev \in Events \cup {0}
    OBVIOUS
  <2>2. /\ AskedOf(sl, e, ev) \in Seq(Slot) /\ Len(AskedOf(sl, e, ev)) = Len(sl)
        /\ \A j \in 1 .. Len(sl) : j # e => AskedOf(sl, e, ev)[j] = sl[j]
        /\ AskedOf(sl, e, ev)[e] = [fd |-> sl[e].fd, events |-> ev, revents |-> sl[e].revents]
    BY ONLY <1>1, <2>1, SlotAsked, Zenon
  <2> QED BY <2>2
<1>3. \A j \in 1 .. Len(sl) : s[j].fd = sl[j].fd
  BY <1>2
<1>4. Kept(ix, sl, ix, s, f)
  BY <1>1, <1>2 DEF Kept
<1>5. ASSUME NEW i \in 1 .. Len(s), s[i].fd # -1
      PROVE  Entry(ix, s[i].fd) = i /\ s[i].events # 0
  <2>1. i \in 1 .. Len(sl) /\ s[i].fd = sl[i].fd
    BY <1>2, <1>3
  <2>2. Entry(ix, sl[i].fd) = i /\ sl[i].events # 0
    BY <1>5, <2>1
  <2>3. s[i].events # 0
    BY <1>1, <1>2, <2>1, <2>2
  <2> QED BY <2>1, <2>2, <2>3
<1> QED BY <1>2, <1>3, <1>4, <1>5, SMTT(20)

\* A descriptor enters the set, in a free slot or in a new one.
LEMMA AgreedPut ==
    ASSUME NEW ix, NEW sl, NEW S, Agreed(ix, sl, S), NEW f \in Fds, Entry(ix, f) = None,
           NEW s \in Seq(Slot), Len(s) >= Len(sl), NEW e \in 1 .. Len(s),
           \A j \in 1 .. Len(s) : j # e => j \in 1 .. Len(sl) /\ s[j] = sl[j],
           e \in 1 .. Len(sl) => e \in S,
           s[e].fd = f, s[e].events # 0,
           NEW jx, Moved(ix, jx, f, e)
    PROVE  Agreed(jx, s, S \ {e}) /\ Kept(ix, sl, jx, s, f)
<1> USE DEF Agreed, Moved
<1>1. f \in Nat /\ f # -1 /\ e # None
  BY FdNotNone DEF None
<1>2. ASSUME NEW h \in Nat, Entry(ix, h) # None
      PROVE  /\ h # f /\ Entry(jx, h) = Entry(ix, h) /\ Entry(ix, h) \in 1 .. Len(s)
             /\ Entry(ix, h) # e /\ s[Entry(ix, h)] = sl[Entry(ix, h)]
  <2>1. h # f /\ Entry(jx, h) = Entry(ix, h)
    BY <1>2
  <2>2. Entry(ix, h) \in 1 .. Len(sl) /\ sl[Entry(ix, h)].fd = h /\ h # -1
    BY <1>2
  <2>3. Entry(ix, h) # e
    BY <2>2
  <2>4. Entry(ix, h) \in 1 .. Len(s)
    BY <2>2
  <2> QED BY <2>1, <2>3, <2>4
<1>3. ASSUME NEW h \in Nat, Entry(jx, h) # None
      PROVE  Entry(jx, h) \in 1 .. Len(s) /\ s[Entry(jx, h)].fd = h
  <2>1. CASE h = f
    BY <2>1
  <2>2. CASE h # f
    BY <1>2, <1>3, <2>2
  <2> QED BY <2>1, <2>2
<1>4. ASSUME NEW i \in 1 .. Len(s), s[i].fd # -1
      PROVE  Entry(jx, s[i].fd) = i /\ s[i].events # 0
  <2>1. CASE i = e
    BY <1>1, <2>1
  <2>2. CASE i # e
    <3>1. i \in 1 .. Len(sl) /\ s[i] = sl[i] /\ sl[i] \in Slot
      BY <2>2
    <3>2. Entry(ix, sl[i].fd) = i /\ sl[i].events # 0 /\ sl[i].fd \in Nat
      BY <1>4, <3>1, FdNotNone DEF Slot
    <3>3. i # None
      BY DEF None
    <3> QED BY <1>2, <3>1, <3>2, <3>3
  <2> QED BY <2>1, <2>2
<1>5. \A i \in 1 .. Len(s) : s[i].fd = -1 <=> i \in S \ {e}
  BY <1>1
<1>6. S \ {e} \subseteq 1 .. Len(s)
  OBVIOUS
<1>7. Kept(ix, sl, jx, s, f)
  BY <1>2 DEF Kept
<1> QED BY <1>3, <1>4, <1>5, <1>6, <1>7

\* What RemoveAt leaves.
LEMMA RemovedAt ==
    ASSUME NEW T, NEW sl \in Seq(T), NEW m \in 1 .. Len(sl)
    PROVE  /\ RemoveAt(sl, m) \in Seq(T) /\ Len(RemoveAt(sl, m)) = Len(sl) - 1
           /\ \A i \in 1 .. Len(sl) - 1 :
                RemoveAt(sl, m)[i] = IF i < m THEN sl[i] ELSE sl[i + 1]
<1>1. PICK n \in Nat : n = Len(sl) /\ m \in 1 .. n
  OBVIOUS
<1>2. \A i \in 1 .. n : sl[i] \in T
  BY <1>1
<1>3. PICK a : a = SubSeq(sl, 1, m - 1)
  OBVIOUS
<1>4. PICK b : b = SubSeq(sl, m + 1, n)
  OBVIOUS
<1>5. a \in Seq(T) /\ Len(a) = m - 1 /\ \A i \in 1 .. m - 1 : a[i] = sl[i]
  <2>1. m - 1 \in Int /\ \A i \in 1 .. m - 1 : i \in 1 .. n
    BY <1>1
  <2>2. \A i \in 1 .. m - 1 : sl[i] \in T
    BY <1>2, <2>1
  <2>3. /\ SubSeq(sl, 1, m - 1) \in Seq(T)
        /\ Len(SubSeq(sl, 1, m - 1)) = IF 1 <= m - 1 THEN (m - 1) - 1 + 1 ELSE 0
        /\ \A i \in 1 .. (m - 1) - 1 + 1 : SubSeq(sl, 1, m - 1)[i] = sl[1 + i - 1]
    BY <2>1, <2>2, SubSeqProperties
  <2> QED BY <1>1, <1>3, <2>1, <2>3
<1>6. b \in Seq(T) /\ Len(b) = n - m /\ \A i \in 1 .. n - m : b[i] = sl[m + i]
  <2>1. m + 1 \in Int /\ n \in Int /\ \A i \in m + 1 .. n : i \in 1 .. n
    BY <1>1
  <2>2. \A i \in m + 1 .. n : sl[i] \in T
    BY <1>2, <2>1
  <2>3. /\ SubSeq(sl, m + 1, n) \in Seq(T)
        /\ Len(SubSeq(sl, m + 1, n)) = IF m + 1 <= n THEN n - (m + 1) + 1 ELSE 0
        /\ \A i \in 1 .. n - (m + 1) + 1 : SubSeq(sl, m + 1, n)[i] = sl[(m + 1) + i - 1]
    BY <2>1, <2>2, SubSeqProperties
  <2> QED BY <1>1, <1>4, <2>1, <2>3
<1>7. RemoveAt(sl, m) = a \o b
  BY <1>1, <1>3, <1>4 DEF RemoveAt
<1>8. PICK c : c = a \o b
  OBVIOUS
<1>9. /\ c \in Seq(T) /\ Len(c) = Len(a) + Len(b)
      /\ \A i \in 1 .. Len(a) + Len(b) : c[i] = IF i <= Len(a) THEN a[i] ELSE b[i - Len(a)]
  BY <1>5, <1>6, <1>8, ConcatProperties
<1>10. c \in Seq(T) /\ Len(c) = n - 1
  <2>1. (m - 1) + (n - m) = n - 1
    BY <1>1
  <2> QED BY <1>5, <1>6, <1>9, <2>1
<1>11. ASSUME NEW i \in 1 .. n - 1 PROVE c[i] = IF i < m THEN sl[i] ELSE sl[i + 1]
  <2>1. i \in 1 .. Len(a) + Len(b)
    <3>1. i \in 1 .. ((m - 1) + (n - m))
      BY <1>1
    <3> QED BY <1>5, <1>6, <3>1
  <2>2. c[i] = IF i <= m - 1 THEN a[i] ELSE b[i - (m - 1)]
    BY <1>5, <1>9, <2>1
  <2>3. CASE i < m
    <3>1. i <= m - 1 /\ i \in 1 .. m - 1
      BY <2>3
    <3> QED BY <1>5, <2>2, <2>3, <3>1
  <2>4. CASE m <= i
    <3>1. ~ (i <= m - 1) /\ ~ (i < m) /\ i - (m - 1) \in 1 .. n - m /\ m + (i - (m - 1)) = i + 1
      BY <1>1, <2>4
    <3>2. b[i - (m - 1)] = sl[m + (i - (m - 1))]
      BY <1>6, <3>1
    <3> QED BY <2>2, <3>1, <3>2
  <2> QED BY <2>3, <2>4
<1> QED BY <1>1, <1>7, <1>8, <1>10, <1>11

\* The same descriptors are in two indexes, with the same slots.
SameSlots(ix, sl, jx, s) ==
    \A h \in Nat : /\ Entry(jx, h) = None <=> Entry(ix, h) = None
                   /\ Entry(ix, h) # None => s[Entry(jx, h)] = sl[Entry(ix, h)]

\* The last free slot is erased.
LEMMA AgreedErased ==
    ASSUME NEW ix, NEW sl, NEW S, Agreed(ix, sl, S), NEW m \in S, \A i \in S : i <= m,
           NEW v, v = [index |-> ix, slots |-> sl], NEW w, w = Erase(v, m)
    PROVE  /\ w = [index |-> w.index, slots |-> w.slots]
           /\ Agreed(w.index, w.slots, S \ {m})
           /\ SameSlots(ix, sl, w.index, w.slots)
<1> USE DEF Agreed
<1>1. PICK n \in Nat : n = Len(sl) /\ m \in 1 .. n /\ sl[m].fd = -1
  OBVIOUS
<1>2. PICK jx : jx = [k \in DOMAIN ix |-> IF \E j \in m + 1 .. Len(sl) : sl[j].fd = k - 1
                                         THEN ix[k] - 1 ELSE ix[k]]
  OBVIOUS
<1>3. PICK s : s = RemoveAt(sl, m)
  OBVIOUS
<1>4. w = [index |-> jx, slots |-> s] /\ w.index = jx /\ w.slots = s
  BY <1>2, <1>3 DEF Erase
<1>5. /\ s \in Seq(Slot) /\ Len(s) = n - 1
      /\ \A i \in 1 .. n - 1 : s[i] = IF i < m THEN sl[i] ELSE sl[i + 1]
  BY <1>1, <1>3, RemovedAt
<1>6. ASSUME NEW h \in Nat
      PROVE  (\E j \in m + 1 .. n : sl[j].fd = h) <=> Entry(ix, h) > m
  <2>1. ASSUME NEW j \in m + 1 .. n, sl[j].fd = h PROVE Entry(ix, h) > m
    <3>1. j \in 1 .. n /\ j > m /\ h # -1
      BY <1>1
    <3>2. Entry(ix, h) = j
      BY <1>1, <2>1, <3>1
    <3> QED BY <3>1, <3>2
  <2>2. ASSUME Entry(ix, h) > m PROVE \E j \in m + 1 .. n : sl[j].fd = h
    <3>1. Entry(ix, h) # None
      BY <1>1, <2>2 DEF None
    <3>2. Entry(ix, h) \in 1 .. n /\ sl[Entry(ix, h)].fd = h
      BY <1>1, <3>1
    <3>3. Entry(ix, h) \in m + 1 .. n
      BY <1>1, <2>2, <3>2
    <3> QED BY <3>2, <3>3
  <2> QED BY <2>1, <2>2
<1>7. Len(ix) \in Nat /\ DOMAIN ix = 1 .. Len(ix)
  OBVIOUS
<1>8. /\ jx \in Seq(Nat) /\ Len(jx) = Len(ix)
      /\ \A h \in Nat : Entry(jx, h) = IF Entry(ix, h) > m THEN Entry(ix, h) - 1 ELSE Entry(ix, h)
  <2>1. ASSUME NEW k \in 1 .. Len(ix)
        PROVE  k - 1 \in Nat /\ Entry(ix, k - 1) = ix[k]
               /\ jx[k] = (IF ix[k] > m THEN ix[k] - 1 ELSE ix[k]) /\ jx[k] \in Nat
    <3>1. k - 1 \in Nat /\ k - 1 < Len(ix) /\ (k - 1) + 1 = k
      BY <1>7
    <3>2. Entry(ix, k - 1) = ix[k]
      BY <3>1 DEF Entry
    <3>3. jx[k] = IF \E j \in m + 1 .. n : sl[j].fd = k - 1 THEN ix[k] - 1 ELSE ix[k]
      BY <1>1, <1>2, <1>7
    <3>4. jx[k] = IF ix[k] > m THEN ix[k] - 1 ELSE ix[k]
      BY <1>6, <3>1, <3>2, <3>3
    <3>5. ix[k] \in Nat
      BY <1>7
    <3>6. jx[k] \in Nat
      BY <1>1, <3>4, <3>5
    <3> QED BY <3>1, <3>2, <3>4, <3>6
  <2>2. jx = [k \in 1 .. Len(ix) |-> jx[k]]
    BY <1>2, <1>7
  <2>3. jx \in Seq(Nat) /\ Len(jx) = Len(ix)
    BY <1>7, <2>1, <2>2
  <2>4. ASSUME NEW h \in Nat
        PROVE  Entry(jx, h) = IF Entry(ix, h) > m THEN Entry(ix, h) - 1 ELSE Entry(ix, h)
    <3>1. CASE h < Len(ix)
      <4>1. h + 1 \in 1 .. Len(ix) /\ (h + 1) - 1 = h
        BY <1>7, <3>1
      <4> QED BY <2>1, <2>3, <3>1, <4>1 DEF Entry
    <3>2. CASE ~ (h < Len(ix))
      <4>1. Entry(ix, h) = 0 /\ Entry(jx, h) = 0 /\ ~ (0 > m)
        BY <1>1, <2>3, <3>2 DEF Entry, None
      <4> QED BY <4>1
    <3> QED BY <3>1, <3>2
  <2> QED BY <2>3, <2>4
<1>9. ASSUME NEW h \in Nat, Entry(ix, h) # None
      PROVE  /\ Entry(jx, h) \in 1 .. n - 1 /\ Entry(jx, h) # None
             /\ s[Entry(jx, h)] = sl[Entry(ix, h)] /\ sl[Entry(ix, h)].fd = h
  <2>1. PICK p \in 1 .. n : p = Entry(ix, h) /\ sl[p].fd = h /\ p # m
    BY <1>1, <1>9, SMTT(20)
  <2>2. CASE p > m
    <3>1. p - 1 \in 1 .. n - 1 /\ ~ (p - 1 < m) /\ (p - 1) + 1 = p /\ p - 1 # 0
      BY <1>1, <2>2
    <3>2. Entry(jx, h) = p - 1
      BY <1>8, <2>1, <2>2
    <3> QED BY <1>5, <2>1, <3>1, <3>2 DEF None
  <2>3. CASE p < m
    <3>1. p \in 1 .. n - 1 /\ ~ (p > m) /\ p # 0
      BY <1>1, <2>3
    <3>2. Entry(jx, h) = p
      BY <1>8, <2>1, <3>1
    <3> QED BY <1>5, <2>1, <2>3, <3>1, <3>2 DEF None
  <2> QED BY <1>1, <2>1, <2>2, <2>3
<1>10. \A h \in Nat : Entry(ix, h) = None => Entry(jx, h) = None
  BY <1>1, <1>8 DEF None
<1>11. ASSUME NEW i \in 1 .. n - 1, s[i].fd # -1
       PROVE  Entry(jx, s[i].fd) = i /\ s[i].events # 0
  <2>1. CASE i < m
    <3>1. i \in 1 .. n /\ s[i] = sl[i] /\ ~ (i > m)
      BY <1>1, <1>5, <2>1
    <3>2. sl[i] \in Slot
      BY <1>1, <3>1
    <3>3. Entry(ix, sl[i].fd) = i /\ sl[i].events # 0
      BY <1>1, <1>11, <3>1
    <3>4. sl[i].fd \in Nat
      BY <1>11, <3>1, <3>2, FdNotNone DEF Slot
    <3> QED BY <1>8, <3>1, <3>3, <3>4
  <2>2. CASE m <= i
    <3>1. i + 1 \in 1 .. n /\ s[i] = sl[i + 1] /\ i + 1 > m /\ sl[i + 1] \in Slot /\ (i + 1) - 1 = i
      BY <1>1, <1>5, <2>2
    <3>2. Entry(ix, sl[i + 1].fd) = i + 1 /\ sl[i + 1].events # 0
      BY <1>1, <1>11, <3>1
    <3>3. sl[i + 1].fd \in Nat
      BY <1>11, <3>1, FdNotNone DEF Slot
    <3> QED BY <1>8, <3>1, <3>2, <3>3
  <2> QED BY <2>1, <2>2
<1>12. ASSUME NEW i \in 1 .. n - 1 PROVE s[i].fd = -1 <=> i \in S \ {m}
  <2>1. CASE i < m
    BY <1>1, <1>5, <2>1
  <2>2. CASE m <= i
    <3>1. i + 1 \in 1 .. n /\ s[i] = sl[i + 1] /\ ~ (i + 1 <= m) /\ (i <= m => i = m)
      BY <1>1, <1>5, <2>2
    <3>2. i + 1 \notin S /\ i \notin S \ {m}
      BY <3>1
    <3> QED BY <1>1, <3>1, <3>2
  <2> QED BY <2>1, <2>2
<1>13. S \ {m} \subseteq 1 .. n - 1
  <2>1. ASSUME NEW i \in S \ {m} PROVE i \in 1 .. n - 1
    BY <1>1
  <2> QED BY <2>1
<1>14. Agreed(jx, s, S \ {m})
  BY <1>5, <1>8, <1>9, <1>10, <1>11, <1>12, <1>13
<1>15. SameSlots(ix, sl, jx, s)
  BY <1>9, <1>10 DEF SameSlots
<1> QED BY <1>4, <1>14, <1>15

\* A set that holds zero and the successor of each number in it holds every
\* number.
LEMMA Induction ==
    ASSUME NEW S, 0 \in S, \A n \in Nat : n \in S => n + 1 \in S
    PROVE  Nat \subseteq S
<1> DEFINE T == {n \in Nat : n \notin S}
<1>1. SUFFICES ASSUME T # {} PROVE FALSE
  OBVIOUS
<1>2. \E x \in T : \A y \in T : ~ (y < x)
  <2> DEFINE R == {ss \in Nat \X Nat : ss[1] < ss[2]}
  <2>1. IsWellFoundedOn(R, Nat)
    <3>1. R = OpToRel(<, Nat)
      BY Zenon DEF OpToRel
    <3> QED BY <3>1, NatLessThanWellFounded, Zenon
  <2>2. T \subseteq Nat
    OBVIOUS
  <2>3. \A x, y \in Nat : <<y, x>> \in R <=> y < x
    OBVIOUS
  <2> HIDE DEF T, R
  <2>4. \E x \in T : \A y \in T : ~ (<<y, x>> \in R)
    BY <1>1, <2>1, <2>2, WFMin, Zenon
  <2> QED BY <2>2, <2>3, <2>4
<1>3. PICK x \in T : \A y \in T : ~ (y < x)
  BY <1>2
<1>4. x \in Nat /\ x # 0 /\ x - 1 \in Nat
  OBVIOUS
<1>5. x - 1 \in S
  BY <1>3, <1>4
<1>6. x - 1 + 1 \in S
  BY <1>4, <1>5
<1> QED BY <1>4, <1>6

\* s is the function of the first 0 .. n rounds of compact().
RoundsOf(stack, v, n, s) ==
    s = [i \in 0 .. n |-> IF i = 0 THEN v ELSE Erase(s[i - 1], stack[Len(stack) + 1 - i])]

\* The loop of the rounds ends.
LEMMA RoundsExist ==
    ASSUME NEW stack, NEW v
    PROVE  \A n \in Nat : \E s : RoundsOf(stack, v, n, s)
<1> DEFINE S == {n \in Nat : \E s : RoundsOf(stack, v, n, s)}
<1>1. 0 \in S
  <2>1. RoundsOf(stack, v, 0, [i \in 0 .. 0 |-> v])
    BY DEF RoundsOf
  <2> QED BY <2>1
<1>2. ASSUME NEW n \in Nat, n \in S PROVE n + 1 \in S
  <2>1. PICK s : RoundsOf(stack, v, n, s)
    BY <1>2
  <2> DEFINE at(i) == stack[Len(stack) + 1 - i]
             t     == [i \in 0 .. n + 1 |-> IF i = n + 1 THEN Erase(s[n], at(n + 1)) ELSE s[i]]
  <2>2. RoundsOf(stack, v, n + 1, t)
    <3>1. ASSUME NEW i \in 0 .. n + 1 PROVE t[i] = IF i = 0 THEN v ELSE Erase(t[i - 1], at(i))
      <4> HIDE DEF at
      <4>1. CASE i = n + 1
        BY <4>1
      <4>2. CASE i # n + 1
        <5>1. i \in 0 .. n
          BY <4>2
        <5>2. s[i] = IF i = 0 THEN v ELSE Erase(s[i - 1], at(i))
          BY <5>1, <2>1 DEF RoundsOf, at
        <5> QED BY <5>1, <5>2
      <4> QED BY <4>1, <4>2
    <3> HIDE DEF t
    <3>2. t = [i \in 0 .. n + 1 |-> t[i]]
      BY DEF t
    <3> QED BY <3>1, <3>2 DEF RoundsOf
  <2> QED BY <2>2
<1> HIDE DEF S
<1>3. Nat \subseteq S
  BY <1>1, <1>2, Induction
<1> QED BY <1>3 DEF S

\* What two rounds in a row keep, they keep together.
LEMMA SameSlotsChain ==
    ASSUME NEW ix, NEW sl, NEW jx, NEW s, NEW kx, NEW t,
           SameSlots(ix, sl, jx, s), SameSlots(jx, s, kx, t)
    PROVE  SameSlots(ix, sl, kx, t)
BY DEF SameSlots

\* The slots on the stack that are still there after i rounds, and what holds
\* then of an index and slots x.
Rest(stack, i) == {stack[k] : k \in 1 .. Len(stack) - i}

AfterRounds(ix, sl, stack, x, i) ==
    /\ x = [index |-> x.index, slots |-> x.slots]
    /\ Agreed(x.index, x.slots, Rest(stack, i))
    /\ SameSlots(ix, sl, x.index, x.slots)

\* A stack of numbers in ascending order, none twice.
Ascending(stack) ==
    /\ stack \in Seq(Nat)
    /\ \A j \in 1 .. Len(stack), k \in 1 .. Len(stack) : j < k => stack[j] < stack[k]

\* A round of compact() takes the last free slot, so what is left on the stack is
\* still where the free slots are (posix_fe.h:2381-2391).
LEMMA OneRound ==
    ASSUME NEW ix, NEW sl, NEW stack, Ascending(stack), NEW x, NEW i \in Nat,
           i + 1 <= Len(stack), AfterRounds(ix, sl, stack, x, i),
           NEW y, y = Erase(x, stack[Len(stack) - i])
    PROVE  AfterRounds(ix, sl, stack, y, i + 1)
<1>1. PICK n \in Nat : n = Len(stack)
  BY DEF Ascending
<1>2. PICK p \in Nat : p = n - i /\ p \in 1 .. n /\ n - (i + 1) = p - 1
  BY <1>1
<1>3. PICK m : m = stack[p]
  OBVIOUS
<1>4. m \in Nat /\ \A k \in 1 .. p : stack[k] \in Nat /\ (k # p => stack[k] < m)
  <2>1. ASSUME NEW k \in 1 .. n PROVE stack[k] \in Nat
    BY <1>1 DEF Ascending
  <2>2. ASSUME NEW k \in 1 .. p, k # p PROVE stack[k] < m
    <3>1. k \in 1 .. n /\ p \in 1 .. n /\ k < p
      BY <1>2, <2>2
    <3> QED BY <1>1, <1>3, <3>1 DEF Ascending
  <2>3. \A k \in 1 .. p : k \in 1 .. n
    BY <1>2
  <2> QED BY <1>2, <1>3, <2>1, <2>2, <2>3
<1>5. Rest(stack, i) = {stack[k] : k \in 1 .. p}
  BY <1>1, <1>2 DEF Rest
<1>6. m \in Rest(stack, i) /\ \A z \in Rest(stack, i) : z <= m
  <2>1. \A k \in 1 .. p : stack[k] <= m
    BY <1>3, <1>4
  <2> QED BY <1>2, <1>3, <1>5, <2>1
<1>7. Rest(stack, i) \ {m} = Rest(stack, i + 1)
  <2>1. Rest(stack, i + 1) = {stack[k] : k \in 1 .. p - 1}
    BY <1>1, <1>2 DEF Rest
  <2>2. \A k \in 1 .. p : stack[k] = m <=> k = p
    BY <1>3, <1>4
  <2>3. \A k \in 1 .. p : k # p => k \in 1 .. p - 1
    BY <1>2
  <2>4. \A k \in 1 .. p - 1 : k \in 1 .. p /\ k # p
    BY <1>2
  <2> QED BY <1>5, <2>1, <2>2, <2>3, <2>4
<1>8. /\ y = [index |-> y.index, slots |-> y.slots]
      /\ Agreed(y.index, y.slots, Rest(stack, i) \ {m})
      /\ SameSlots(x.index, x.slots, y.index, y.slots)
  <2>1. y = Erase(x, m)
    BY <1>1, <1>2, <1>3
  <2> QED BY <1>6, <2>1, AgreedErased DEF AfterRounds
<1> QED BY <1>7, <1>8, SameSlotsChain DEF AfterRounds

\* compact() erases the free slots and keeps the others, when it takes them from
\* the last one down.
LEMMA AgreedCompacted ==
    ASSUME NEW ix, NEW sl, NEW stack, Ascending(stack), Agreed(ix, sl, Rest(stack, 0)),
           NEW w, w = Rounds(stack, [index |-> ix, slots |-> sl])
    PROVE  Agreed(w.index, w.slots, {}) /\ SameSlots(ix, sl, w.index, w.slots)
<1>1. PICK v : v = [index |-> ix, slots |-> sl]
  OBVIOUS
<1>2. PICK n \in Nat : n = Len(stack)
  BY DEF Ascending
<1>3. PICK s : RoundsOf(stack, v, n, s) /\ w = s[n]
  <2> DEFINE s == CHOOSE s : s = [i \in 0 .. n |->
                                    IF i = 0 THEN v ELSE Erase(s[i - 1], stack[Len(stack) + 1 - i])]
  <2>1. w = s[n]
    BY <1>1, <1>2 DEF Rounds
  <2>2. \E r : RoundsOf(stack, v, n, r)
    BY RoundsExist
  <2>3. RoundsOf(stack, v, n, s)
    BY <2>2 DEF RoundsOf
  <2> QED BY <2>1, <2>3
<1> DEFINE S == {i \in Nat : i <= n => AfterRounds(ix, sl, stack, s[i], i)}
<1>4. 0 \in S
  <2>1. s[0] = v
    BY <1>3 DEF RoundsOf
  <2>2. v.index = ix /\ v.slots = sl /\ v = [index |-> v.index, slots |-> v.slots]
    BY <1>1
  <2>3. SameSlots(ix, sl, ix, sl)
    BY DEF SameSlots
  <2>4. AfterRounds(ix, sl, stack, v, 0)
    BY <2>2, <2>3 DEF AfterRounds
  <2> QED BY <2>1, <2>4
<1>5. ASSUME NEW i \in Nat, i \in S PROVE i + 1 \in S
  <2> SUFFICES ASSUME i + 1 <= n PROVE AfterRounds(ix, sl, stack, s[i + 1], i + 1)
    OBVIOUS
  <2>1. AfterRounds(ix, sl, stack, s[i], i)
    BY <1>5
  <2>2. s[i + 1] = Erase(s[i], stack[n - i])
    <3>1. i + 1 \in 0 .. n /\ i + 1 # 0 /\ (i + 1) - 1 = i
      OBVIOUS
    <3>2. Len(stack) + 1 - (i + 1) = n - i
      BY <1>2
    <3>3. s[i + 1] = Erase(s[(i + 1) - 1], stack[Len(stack) + 1 - (i + 1)])
      BY <1>3, <3>1 DEF RoundsOf
    <3> QED BY <3>1, <3>2, <3>3
  <2> QED BY <1>2, <2>1, <2>2, OneRound
<1> HIDE DEF S
<1>6. Nat \subseteq S
  BY <1>4, <1>5, Induction
<1>7. AfterRounds(ix, sl, stack, s[n], n)
  BY <1>6 DEF S
<1>8. Rest(stack, n) = {}
  BY <1>2 DEF Rest
<1> QED BY <1>3, <1>7, <1>8 DEF AfterRounds

\* What eget and rget answer of an index and slots.
EventsOf(ix, sl, f)  == IF Entry(ix, f) = None THEN 0 ELSE sl[Entry(ix, f)].events
ReventsOf(ix, sl, f) == IF Entry(ix, f) = None THEN 0 ELSE sl[Entry(ix, f)].revents

\* The index and the slots agree, the stack holds the free slots, each once, and
\* the answers are what was asked for, and heard of those polled.
PInv ==
    /\ Agreed(by_fd, fds, ToSet(freestack))
    /\ freestack \in Seq(Nat) /\ IsInjective(freestack)
    /\ asked \in [Fds -> Events \cup {0}] /\ heard \in [Fds -> Events \cup {0}]
    /\ polled \subseteq Fds
    /\ \A f \in Fds : EventsOf(by_fd, fds, f) = asked[f]
    /\ \A f \in polled : asked[f] # 0 /\ ReventsOf(by_fd, fds, f) = heard[f]

\* A free slot is pushed on the stack.
LEMMA StackPushed ==
    ASSUME NEW st \in Seq(Nat), IsInjective(st), NEW e \in Nat, e \notin ToSet(st)
    PROVE  /\ Append(st, e) \in Seq(Nat) /\ IsInjective(Append(st, e))
           /\ ToSet(Append(st, e)) = ToSet(st) \cup {e}
<1>1. PICK n \in Nat : n = Len(st) /\ DOMAIN st = 1 .. n
  OBVIOUS
<1>2. PICK t : t = Append(st, e)
  OBVIOUS
<1>3. /\ t \in Seq(Nat) /\ DOMAIN t = 1 .. n + 1 /\ t[n + 1] = e
      /\ \A k \in 1 .. n : t[k] = st[k]
  BY <1>1, <1>2
<1>4. \A k \in 1 .. n : k \in 1 .. n + 1 /\ k # n + 1 /\ st[k] \in ToSet(st)
  BY <1>1 DEF ToSet
<1>5. n + 1 \in 1 .. n + 1 /\ \A k \in 1 .. n + 1 : k = n + 1 \/ k \in 1 .. n
  OBVIOUS
<1>6. IsInjective(t)
  <2> SUFFICES ASSUME NEW j \in 1 .. n + 1, NEW k \in 1 .. n + 1, t[j] = t[k] PROVE j = k
    BY <1>3 DEF IsInjective
  <2>1. CASE j = n + 1 /\ k = n + 1
    BY <2>1
  <2>2. CASE j = n + 1 /\ k \in 1 .. n
    BY <1>3, <1>4, <2>2
  <2>3. CASE k = n + 1 /\ j \in 1 .. n
    BY <1>3, <1>4, <2>3
  <2>4. CASE j \in 1 .. n /\ k \in 1 .. n
    BY <1>1, <1>3, <2>4 DEF IsInjective
  <2> QED BY <1>5, <2>1, <2>2, <2>3, <2>4
<1>7. ToSet(t) = ToSet(st) \cup {e}
  BY <1>1, <1>3, <1>4, <1>5 DEF ToSet
<1> QED BY <1>2, <1>3, <1>6, <1>7

\* A free slot is taken from the stack.
LEMMA StackPopped ==
    ASSUME NEW st \in Seq(Nat), IsInjective(st), st # << >>
    PROVE  /\ Front(st) \in Seq(Nat) /\ IsInjective(Front(st))
           /\ Last(st) \in ToSet(st) /\ ToSet(Front(st)) = ToSet(st) \ {Last(st)}
<1>1. PICK n \in Nat : n = Len(st) /\ DOMAIN st = 1 .. n /\ n # 0
  BY EmptySeq
<1>2. PICK t : t = Front(st)
  OBVIOUS
<1>3. t \in Seq(Nat) /\ DOMAIN t = 1 .. n - 1 /\ \A k \in 1 .. n - 1 : t[k] = st[k]
  <2>1. \A k \in 1 .. n - 1 : k \in 1 .. n /\ st[k] \in Nat
    BY <1>1
  <2>2. n - 1 \in Int /\ 1 \in Int /\ (n - 1) - 1 + 1 = n - 1 /\ (1 <= n - 1 \/ n - 1 = 0)
    BY <1>1
  <2>3. /\ SubSeq(st, 1, n - 1) \in Seq(Nat)
        /\ Len(SubSeq(st, 1, n - 1)) = IF 1 <= n - 1 THEN (n - 1) - 1 + 1 ELSE 0
        /\ \A k \in 1 .. (n - 1) - 1 + 1 : SubSeq(st, 1, n - 1)[k] = st[1 + k - 1]
    BY <2>1, <2>2, SubSeqProperties
  <2>4. t = SubSeq(st, 1, n - 1)
    BY <1>1, <1>2 DEF Front
  <2>5. t \in Seq(Nat) /\ Len(t) = n - 1
    BY <2>2, <2>3, <2>4
  <2>6. \A k \in 1 .. n - 1 : t[k] = st[k]
    BY <2>2, <2>3, <2>4
  <2> QED BY <2>5, <2>6
<1>4. n \in 1 .. n /\ \A k \in 1 .. n : k = n \/ k \in 1 .. n - 1
  BY <1>1
<1>5. \A k \in 1 .. n - 1 : k \in 1 .. n /\ k # n
  OBVIOUS
<1>6. IsInjective(t)
  BY <1>1, <1>3, <1>5 DEF IsInjective
<1>7. Last(st) = st[n]
  BY <1>1 DEF Last
<1>8. \A k \in 1 .. n - 1 : st[k] # st[n]
  BY <1>1, <1>4, <1>5 DEF IsInjective
<1>9. ToSet(t) = ToSet(st) \ {st[n]} /\ st[n] \in ToSet(st)
  BY <1>1, <1>3, <1>4, <1>5, <1>8 DEF ToSet
<1> QED BY <1>2, <1>3, <1>6, <1>7, <1>9

\* std::sort of the stack leaves the free slots in ascending order.
LEMMA StackSorted ==
    ASSUME NEW st \in Seq(Nat), IsInjective(st), NEW s \in Sorted(st)
    PROVE  Ascending(s) /\ Rest(s, 0) = ToSet(st)
<1>1. PICK n \in Nat : n = Len(st) /\ DOMAIN st = 1 .. n
  OBVIOUS
<1>2. PICK order \in Bijection(1 .. n, 1 .. n) :
         /\ s = [k \in 1 .. n |-> st[order[k]]]
         /\ \A j \in 1 .. n, k \in 1 .. n : j < k => s[j] <= s[k]
  BY <1>1 DEF Sorted
<1>3. /\ order \in [1 .. n -> 1 .. n]
      /\ \A j \in 1 .. n, k \in 1 .. n : order[j] = order[k] => j = k
      /\ \A k \in 1 .. n : \E j \in 1 .. n : order[j] = k
  BY DEF Bijection, Injection, Surjection, IsInjective
<1>4. \A k \in 1 .. n : s[k] = st[order[k]] /\ order[k] \in 1 .. n /\ s[k] \in Nat
  <2> SUFFICES ASSUME NEW k \in 1 .. n
               PROVE  s[k] = st[order[k]] /\ order[k] \in 1 .. n /\ s[k] \in Nat
    OBVIOUS
  <2>1. order[k] \in 1 .. n
    BY <1>3
  <2>2. s[k] = st[order[k]]
    BY <1>2
  <2>3. st[order[k]] \in Nat
    BY <1>1, <2>1
  <2> QED BY <2>1, <2>2, <2>3
<1>5. s \in Seq(Nat) /\ Len(s) = n
  BY <1>2, <1>4
<1>6. ASSUME NEW j \in 1 .. n, NEW k \in 1 .. n, j < k PROVE s[j] < s[k]
  <2>1. s[j] <= s[k]
    BY <1>2, <1>6
  <2>2. order[j] # order[k]
    BY <1>3, <1>6
  <2>3. s[j] # s[k]
    BY <1>1, <1>4, <2>2 DEF IsInjective
  <2> QED BY <1>4, <2>1, <2>3
<1>7. Rest(s, 0) = {s[k] : k \in 1 .. n}
  BY <1>5 DEF Rest
<1>8. {s[k] : k \in 1 .. n} = ToSet(st)
  <2>1. ToSet(st) = {st[j] : j \in 1 .. n}
    BY <1>1 DEF ToSet
  <2>2. ASSUME NEW k \in 1 .. n PROVE s[k] \in {st[j] : j \in 1 .. n}
    BY <1>4
  <2>3. ASSUME NEW j \in 1 .. n PROVE st[j] \in {s[k] : k \in 1 .. n}
    <3>1. PICK k \in 1 .. n : order[k] = j
      BY <1>3
    <3> QED BY <1>4, <3>1
  <2> QED BY <2>1, <2>2, <2>3
<1> QED BY <1>5, <1>6, <1>7, <1>8 DEF Ascending

\* What the three vectors of the set look like after a step.
LEMMA StepDone ==
    ASSUME PInv, NEW f \in Fds, NEW ev \in Events \cup {0},
           Agreed(by_fd, fds, ToSet(freestack))', freestack' \in Seq(Nat), IsInjective(freestack'),
           \A h \in Nat : h # f =>
              /\ EventsOf(by_fd', fds', h) = EventsOf(by_fd, fds, h)
              /\ ReventsOf(by_fd', fds', h) = ReventsOf(by_fd, fds, h),
           EventsOf(by_fd', fds', f) = ev,
           Entry(by_fd, f) # None /\ ev # 0 => ReventsOf(by_fd', fds', f) = ReventsOf(by_fd, fds, f),
           asked' = [asked EXCEPT ![f] = ev], heard' = heard,
           polled' = IF ev = 0 THEN polled \ {f} ELSE polled
    PROVE  PInv'
<1> USE DEF PInv
<1>1. \A h \in Fds : h \in Nat
  BY FdNotNone
<1>2. \A h \in Fds : asked'[h] = IF h = f THEN ev ELSE asked[h]
  OBVIOUS
<1>3. \A h \in Fds : EventsOf(by_fd', fds', h) = asked'[h]
  BY <1>1, <1>2
<1>4. ASSUME NEW h \in polled'
      PROVE  asked'[h] # 0 /\ ReventsOf(by_fd', fds', h) = heard'[h]
  <2>1. h \in polled /\ h \in Fds /\ (h = f => ev # 0)
    OBVIOUS
  <2>2. Entry(by_fd, h) # None
    BY <2>1 DEF EventsOf
  <2> QED BY <1>1, <1>2, <2>1, <2>2
<1>5. asked' \in [Fds -> Events \cup {0}] /\ polled' \subseteq Fds
  OBVIOUS
<1> QED BY <1>3, <1>4, <1>5

\* Who keeps his entry and his slot is answered as before.
LEMMA OthersAnswered ==
    ASSUME NEW ix, NEW sl, NEW jx, NEW s, NEW f, Kept(ix, sl, jx, s, f),
           NEW e, Moved(ix, jx, f, e)
    PROVE  \A h \in Nat : h # f => /\ EventsOf(jx, s, h) = EventsOf(ix, sl, h)
                                   /\ ReventsOf(jx, s, h) = ReventsOf(ix, sl, h)
BY DEF Kept, EventsOf, ReventsOf, Moved

\* The two vectors agree when they have the same entries as ones that do.
LEMMA AgreedSame ==
    ASSUME NEW ix, NEW sl, NEW S, Agreed(ix, sl, S), NEW jx \in Seq(Nat),
           \A h \in Nat : Entry(jx, h) = Entry(ix, h)
    PROVE  /\ Agreed(jx, sl, S)
           /\ \A h \in Nat : /\ EventsOf(jx, sl, h) = EventsOf(ix, sl, h)
                             /\ ReventsOf(jx, sl, h) = ReventsOf(ix, sl, h)
<1>1. ASSUME NEW i \in 1 .. Len(sl), sl[i].fd # -1 PROVE sl[i].fd \in Nat
  <2>1. sl[i] \in Slot
    BY DEF Agreed
  <2> QED BY <1>1, <2>1, FdNotNone DEF Slot
<1>2. Agreed(jx, sl, S)
  BY <1>1 DEF Agreed
<1>3. \A h \in Nat : /\ EventsOf(jx, sl, h) = EventsOf(ix, sl, h)
                     /\ ReventsOf(jx, sl, h) = ReventsOf(ix, sl, h)
  BY DEF EventsOf, ReventsOf
<1> QED BY <1>2, <1>3

\* set(fd, 0) keeps the invariant.
LEMMA PollUnset ==
    ASSUME PInv, NEW f \in Fds, Unset(f)
    PROVE  PInv'
<1>1. f \in Nat /\ by_fd \in Seq(Nat) /\ Index(f) = Entry(by_fd, f) /\ 0 \in Events \cup {0}
  BY FdNotNone DEF PInv, Agreed, Index, Entry
<1>2. CASE Index(f) = None
  <2>1. by_fd' = Grown(f) /\ freestack' = freestack /\ fds' = fds
    BY <1>2 DEF Unset
  <2>2. by_fd' \in Seq(Nat) /\ \A h \in Nat : Entry(by_fd', h) = Entry(by_fd, h)
    BY <1>1, <2>1, EntryGrown DEF Grown
  <2>3. /\ Agreed(by_fd', fds, ToSet(freestack))
        /\ \A h \in Nat : /\ EventsOf(by_fd', fds, h) = EventsOf(by_fd, fds, h)
                          /\ ReventsOf(by_fd', fds, h) = ReventsOf(by_fd, fds, h)
    BY <2>2, AgreedSame DEF PInv
  <2>4. EventsOf(by_fd', fds, f) = 0
    BY <1>1, <1>2, <2>2 DEF EventsOf
  <2>5. asked' = [asked EXCEPT ![f] = 0] /\ heard' = heard /\ polled' = polled \ {f}
    BY DEF Unset
  <2> QED BY <1>1, <2>1, <2>3, <2>4, <2>5, StepDone DEF PInv
<1>3. CASE Index(f) # None
  <2>1. PICK e \in Nat : e = Index(f)
    BY <1>1 DEF PInv, Agreed, Entry, None
  <2>2. /\ fds' = GivenTo(fds, e, -1, 0) /\ freestack' = Append(freestack, e)
        /\ by_fd' = [by_fd EXCEPT ![f + 1] = None]
    BY <1>3, <2>1 DEF Unset, GivenTo
  <2>3. Moved(by_fd, by_fd', f, None)
    <3>1. f + 1 \in 1 .. Len(by_fd)
      BY <1>1, <1>3 DEF Index
    <3>2. None \in Nat
      BY DEF None
    <3>3. Moved(by_fd, [by_fd EXCEPT ![f + 1] = None], f, None)
      BY <1>1, <3>1, <3>2, EntrySet, Zenon
    <3> QED BY <2>2, <3>3
  <2>4. /\ Agreed(by_fd', fds', ToSet(freestack) \cup {e}) /\ e \notin ToSet(freestack)
        /\ Kept(by_fd, fds, by_fd', fds', f)
    <3>1. Agreed(by_fd, fds, ToSet(freestack)) /\ e = Entry(by_fd, f) /\ e # None
      BY <1>1, <1>3, <2>1 DEF PInv
    <3> QED BY <1>1, <2>2, <2>3, <3>1, AgreedUnset, Zenon
  <2>5. /\ freestack' \in Seq(Nat) /\ IsInjective(freestack')
        /\ ToSet(freestack') = ToSet(freestack) \cup {e}
    BY <2>2, <2>4, StackPushed DEF PInv
  <2>6. \A h \in Nat : h # f => /\ EventsOf(by_fd', fds', h) = EventsOf(by_fd, fds, h)
                                /\ ReventsOf(by_fd', fds', h) = ReventsOf(by_fd, fds, h)
    BY <2>3, <2>4, OthersAnswered
  <2>7. EventsOf(by_fd', fds', f) = 0
    BY <1>1, <2>3 DEF EventsOf, Moved
  <2>8. asked' = [asked EXCEPT ![f] = 0] /\ heard' = heard /\ polled' = polled \ {f}
    BY DEF Unset
  <2> QED BY <1>1, <2>4, <2>5, <2>6, <2>7, <2>8, StepDone
<1> QED BY <1>2, <1>3

\* by_fd made long enough, with an entry for f.
LEMMA IndexGiven ==
    ASSUME by_fd \in Seq(Nat), NEW f \in Nat, NEW e \in Nat
    PROVE  Moved(by_fd, [Grown(f) EXCEPT ![f + 1] = e], f, e)
<1>1. PICK g : g = Grown(f)
  OBVIOUS
<1>2. /\ g \in Seq(Nat) /\ f + 1 \in 1 .. Len(g)
      /\ \A h \in Nat : Entry(g, h) = Entry(by_fd, h)
  BY <1>1, EntryGrown DEF Grown
<1>3. Moved(g, [g EXCEPT ![f + 1] = e], f, e)
  BY <1>2, EntrySet, Zenon
<1> QED BY <1>1, <1>2, <1>3 DEF Moved

\* A slot appended to the others.
LEMMA SlotAppended ==
    ASSUME NEW sl \in Seq(Slot), NEW r \in Slot
    PROVE  /\ Append(sl, r) \in Seq(Slot) /\ Len(Append(sl, r)) = Len(sl) + 1
           /\ Append(sl, r)[Len(sl) + 1] = r
           /\ \A j \in 1 .. Len(sl) + 1 :
                j # Len(sl) + 1 => j \in 1 .. Len(sl) /\ Append(sl, r)[j] = sl[j]
<1>1. /\ Append(sl, r) \in Seq(Slot) /\ Len(Append(sl, r)) = Len(sl) + 1
      /\ \A i \in 1 .. Len(sl) : Append(sl, r)[i] = sl[i]
      /\ Append(sl, r)[Len(sl) + 1] = r
  BY AppendProperties
<1>2. \A j \in 1 .. Len(sl) + 1 : j # Len(sl) + 1 => j \in 1 .. Len(sl)
  OBVIOUS
<1> QED BY <1>1, <1>2

\* set(fd, events) keeps it: in the slot of fd, in a new one or in a free one.
LEMMA PollSetKeeps ==
    ASSUME PInv, NEW f \in Fds, NEW events \in Events, Set(f, events)
    PROVE  PInv'
<1>1. /\ f \in Nat /\ by_fd \in Seq(Nat) /\ fds \in Seq(Slot) /\ Index(f) = Entry(by_fd, f)
      /\ events \in Events \cup {0} /\ events # 0
  BY FdNotNone, EventsAssumption DEF PInv, Agreed, Index, Entry
<1>2. asked' = [asked EXCEPT ![f] = events] /\ heard' = heard /\ polled' = polled
  BY DEF Set
<1>3. Agreed(by_fd, fds, ToSet(freestack))
  BY DEF PInv
<1>4. CASE Index(f) # None /\ fds' = [fds EXCEPT ![Index(f)].events = events]
           /\ UNCHANGED <<by_fd, freestack>>
  <2>1. PICK e : e = Entry(by_fd, f) /\ e # None
    BY <1>1, <1>4
  <2>2. fds' = AskedOf(fds, e, events)
    BY <1>1, <1>4, <2>1 DEF AskedOf
  <2>3. /\ Agreed(by_fd, fds', ToSet(freestack)) /\ Kept(by_fd, fds, by_fd, fds', f)
        /\ fds'[e].events = events /\ fds'[e].revents = fds[e].revents
    <3>1. PICK s : s = AskedOf(fds, e, events)
      OBVIOUS
    <3>2. /\ Agreed(by_fd, s, ToSet(freestack)) /\ Kept(by_fd, fds, by_fd, s, f)
          /\ s[e].events = events /\ s[e].revents = fds[e].revents
      BY <1>1, <1>3, <2>1, <3>1, AgreedAsked
    <3>3. fds' = s
      BY <2>2, <3>1, Zenon
    <3> QED BY <3>2, <3>3, Zenon
  <2>4. Moved(by_fd, by_fd, f, e)
    BY <1>1, <2>1 DEF Moved
  <2>5. \A h \in Nat : h # f => /\ EventsOf(by_fd, fds', h) = EventsOf(by_fd, fds, h)
                                /\ ReventsOf(by_fd, fds', h) = ReventsOf(by_fd, fds, h)
    BY <2>3, <2>4, OthersAnswered
  <2>6. /\ EventsOf(by_fd, fds', f) = events
        /\ ReventsOf(by_fd, fds', f) = ReventsOf(by_fd, fds, f)
    BY <2>1, <2>3 DEF EventsOf, ReventsOf
  <2> QED BY <1>1, <1>2, <1>4, <2>3, <2>5, <2>6, StepDone DEF PInv
<1>5. ASSUME NEW e \in Nat, NEW S, Entry(by_fd, f) = None,
             fds' \in Seq(Slot), Len(fds') >= Len(fds), e \in 1 .. Len(fds'),
             \A j \in 1 .. Len(fds') : j # e => j \in 1 .. Len(fds) /\ fds'[j] = fds[j],
             e \in 1 .. Len(fds) => e \in ToSet(freestack),
             fds'[e].fd = f, fds'[e].events = events,
             by_fd' = [Grown(f) EXCEPT ![f + 1] = e],
             freestack' \in Seq(Nat), IsInjective(freestack'),
             ToSet(freestack') = ToSet(freestack) \ {e}
      PROVE  PInv'
  <2>1. Moved(by_fd, by_fd', f, e)
    BY <1>1, <1>5, IndexGiven
  <2>2. Agreed(by_fd', fds', ToSet(freestack) \ {e}) /\ Kept(by_fd, fds, by_fd', fds', f)
    BY <1>1, <1>3, <1>5, <2>1, AgreedPut
  <2>3. \A h \in Nat : h # f => /\ EventsOf(by_fd', fds', h) = EventsOf(by_fd, fds, h)
                                /\ ReventsOf(by_fd', fds', h) = ReventsOf(by_fd, fds, h)
    BY <2>1, <2>2, OthersAnswered
  <2>4. EventsOf(by_fd', fds', f) = events
    <3>1. PICK jx : jx = by_fd'
      OBVIOUS
    <3>2. PICK s : s = fds'
      OBVIOUS
    <3>3. Entry(jx, f) = e /\ e # None /\ s[e].events = events
      <4>1. Entry(jx, f) = e
        BY <1>1, <2>1, <3>1 DEF Moved
      <4>2. e # None
        BY <1>5 DEF None
      <4>3. s[e].events = events
        BY <1>5, <3>2, Zenon
      <4> QED BY <4>1, <4>2, <4>3
    <3>4. EventsOf(jx, s, f) = events
      BY <3>3 DEF EventsOf
    <3> QED BY <3>1, <3>2, <3>4
  <2> QED BY <1>1, <1>2, <1>5, <2>2, <2>3, <2>4, StepDone
<1>6. CASE /\ Index(f) = None /\ freestack = << >>
           /\ fds' = Append(fds, [fd |-> f, events |-> events, revents |-> 0])
           /\ by_fd' = [Grown(f) EXCEPT ![f + 1] = Len(fds) + 1]
           /\ UNCHANGED freestack
  <2>1. PICK r : r = [fd |-> f, events |-> events, revents |-> 0]
    OBVIOUS
  <2>2. r \in Slot /\ r.fd = f /\ r.events = events
    BY <1>1, <2>1 DEF Slot
  <2>3. PICK e \in Nat : e = Len(fds) + 1
    BY <1>1
  <2>4. PICK s : s = Append(fds, r)
    OBVIOUS
  <2>5. /\ s \in Seq(Slot) /\ Len(s) = e /\ s[e] = r
        /\ \A j \in 1 .. e : j # e => j \in 1 .. Len(fds) /\ s[j] = fds[j]
    BY <1>1, <2>2, <2>3, <2>4, SlotAppended
  <2>6. e \notin 1 .. Len(fds) /\ e >= Len(fds) /\ e \in 1 .. e
    BY <1>1, <2>3
  <2>7. ToSet(freestack) = {}
    BY <1>6 DEF ToSet
  <2>8. fds' = s /\ by_fd' = [Grown(f) EXCEPT ![f + 1] = e] /\ Entry(by_fd, f) = None
    BY <1>1, <1>6, <2>1, <2>3, <2>4
  <2>9. /\ Len(s) >= Len(fds) /\ e \in 1 .. Len(s)
        /\ \A j \in 1 .. Len(s) : j # e => j \in 1 .. Len(fds) /\ s[j] = fds[j]
        /\ e \in 1 .. Len(fds) => e \in ToSet(freestack)
        /\ s[e].fd = f /\ s[e].events = events
    BY <2>2, <2>5, <2>6
  <2>10. /\ fds' \in Seq(Slot) /\ Len(fds') >= Len(fds) /\ e \in 1 .. Len(fds')
         /\ \A j \in 1 .. Len(fds') : j # e => j \in 1 .. Len(fds) /\ fds'[j] = fds[j]
         /\ e \in 1 .. Len(fds) => e \in ToSet(freestack)
         /\ fds'[e].fd = f /\ fds'[e].events = events
    BY <2>5, <2>8, <2>9, Zenon
  <2>11. /\ freestack' \in Seq(Nat) /\ IsInjective(freestack')
         /\ ToSet(freestack') = ToSet(freestack) \ {e}
    <3>1. freestack' = freestack
      BY <1>6
    <3>2. freestack \in Seq(Nat) /\ IsInjective(freestack) /\ ToSet(freestack) = ToSet(freestack) \ {e}
      BY <2>7 DEF PInv
    <3> QED BY <3>1, <3>2, Zenon
  <2> QED BY <1>5, <2>8, <2>10, <2>11, Zenon
<1>7. CASE /\ Index(f) = None /\ freestack # << >>
           /\ fds' = [fds EXCEPT ![Last(freestack)].fd = f, ![Last(freestack)].events = events]
           /\ by_fd' = [Grown(f) EXCEPT ![f + 1] = Last(freestack)]
           /\ freestack' = Front(freestack)
  <2>1. PICK e : e = Last(freestack)
    OBVIOUS
  <2>2. /\ freestack' \in Seq(Nat) /\ IsInjective(freestack')
        /\ e \in ToSet(freestack) /\ ToSet(freestack') = ToSet(freestack) \ {e}
    BY <1>7, <2>1, StackPopped DEF PInv
  <2>3. e \in 1 .. Len(fds) /\ e \in Nat
    BY <1>1, <1>3, <2>2 DEF Agreed
  <2>4. PICK s : s = GivenTo(fds, e, f, events)
    OBVIOUS
  <2>5. /\ s \in Seq(Slot) /\ Len(s) = Len(fds)
        /\ \A j \in 1 .. Len(fds) : j # e => s[j] = fds[j]
        /\ s[e] = [fd |-> f, events |-> events, revents |-> fds[e].revents]
    BY <1>1, <2>3, <2>4, SlotGiven
  <2>6. fds' = s /\ by_fd' = [Grown(f) EXCEPT ![f + 1] = e] /\ Entry(by_fd, f) = None
    BY <1>1, <1>7, <2>1, <2>4 DEF GivenTo
  <2>7. /\ Len(s) >= Len(fds) /\ e \in 1 .. Len(s)
        /\ \A j \in 1 .. Len(s) : j # e => j \in 1 .. Len(fds) /\ s[j] = fds[j]
        /\ s[e].fd = f /\ s[e].events = events
    BY <1>1, <2>3, <2>5
  <2>8. /\ fds' \in Seq(Slot) /\ Len(fds') >= Len(fds) /\ e \in 1 .. Len(fds')
        /\ \A j \in 1 .. Len(fds') : j # e => j \in 1 .. Len(fds) /\ fds'[j] = fds[j]
        /\ fds'[e].fd = f /\ fds'[e].events = events
    BY <2>5, <2>6, <2>7, Zenon
  <2> QED BY <1>5, <2>2, <2>3, <2>6, <2>8, Zenon
<1> QED BY <1>4, <1>6, <1>7 DEF Set

\* poll() keeps it: the kernel writes nothing but revents.
LEMMA PollKeeps ==
    ASSUME PInv, Poll
    PROVE  PInv'
<1>1. PICK n \in Nat : n = Len(fds) /\ Slots = 1 .. n
  BY DEF PInv, Agreed, Slots
<1>2. PICK reports \in [1 .. n -> Events \cup {0}] :
         /\ fds' = [i \in 1 .. n |-> [fds[i] EXCEPT !.revents = reports[i]]]
         /\ heard' = [f \in Fds |-> IF asked[f] = 0 THEN 0 ELSE reports[Index(f)]]
  BY <1>1 DEF Poll
<1>3. polled' = {f \in Fds : asked[f] # 0} /\ UNCHANGED <<by_fd, freestack, asked>>
  BY DEF Poll
<1>4. PICK s : s = fds'
  OBVIOUS
<1>5. ASSUME NEW i \in 1 .. n
      PROVE  /\ s[i] \in Slot /\ s[i].fd = fds[i].fd /\ s[i].events = fds[i].events
             /\ s[i].revents = reports[i]
  <2>1. fds[i] \in Slot
    BY <1>1 DEF PInv, Agreed
  <2>2. s[i] = [fds[i] EXCEPT !.revents = reports[i]]
    BY <1>2, <1>4
  <2>3. reports[i] \in Events \cup {0}
    BY <1>2
  <2> QED BY <2>1, <2>2, <2>3 DEF Slot
<1>6. s \in Seq(Slot) /\ Len(s) = n
  BY <1>2, <1>4, <1>5
<1>7. Agreed(by_fd, s, ToSet(freestack))
  BY <1>1, <1>5, <1>6 DEF PInv, Agreed
<1>8. ASSUME NEW f \in Fds
      PROVE  /\ EventsOf(by_fd, s, f) = asked[f]
             /\ asked[f] # 0 => ReventsOf(by_fd, s, f) = reports[Index(f)] /\ Index(f) \in 1 .. n
  <2>1. f \in Nat /\ Index(f) = Entry(by_fd, f) /\ EventsOf(by_fd, fds, f) = asked[f]
    BY FdNotNone DEF PInv, Index, Entry
  <2>2. CASE Entry(by_fd, f) = None
    BY <2>1, <2>2 DEF EventsOf
  <2>3. CASE Entry(by_fd, f) # None
    <3>1. Entry(by_fd, f) \in 1 .. n
      BY <1>1, <2>1, <2>3 DEF PInv, Agreed
    <3> QED BY <1>5, <2>1, <2>3, <3>1 DEF EventsOf, ReventsOf
  <2> QED BY <2>2, <2>3
<1>9. heard' \in [Fds -> Events \cup {0}]
  BY <1>2, <1>8
<1>10. \A f \in polled' : asked[f] # 0 /\ ReventsOf(by_fd, s, f) = heard'[f]
  BY <1>2, <1>3, <1>8
<1> QED BY <1>3, <1>4, <1>7, <1>8, <1>9, <1>10 DEF PInv

\* compact() keeps it, whatever the order in which slots were freed.
LEMMA CompactKeeps ==
    ASSUME PInv, Compact
    PROVE  PInv'
<1>1. PICK stack \in Sorted(freestack) : CompactFrom(stack)
  BY DEF Compact
<1>2. Ascending(stack) /\ Rest(stack, 0) = ToSet(freestack)
  BY StackSorted DEF PInv
<1>3. PICK w : w = Rounds(stack, [index |-> by_fd, slots |-> fds])
  OBVIOUS
<1>4. Agreed(w.index, w.slots, {}) /\ SameSlots(by_fd, fds, w.index, w.slots)
  BY <1>2, <1>3, AgreedCompacted DEF PInv
<1>5. PICK n \in Ends(w.index) : by_fd' = SubSeq(w.index, 1, n)
  BY <1>1, <1>3 DEF CompactFrom
<1>6. fds' = w.slots /\ freestack' = << >> /\ UNCHANGED <<asked, heard, polled>>
  BY <1>1, <1>3 DEF CompactFrom
<1>7. by_fd' \in Seq(Nat) /\ \A h \in Nat : Entry(by_fd', h) = Entry(w.index, h)
  <2>1. PICK ix : ix = w.index
    OBVIOUS
  <2>2. PICK g : g = SubSeq(ix, 1, n)
    OBVIOUS
  <2>3. ix \in Seq(Nat) /\ n \in Ends(ix)
    BY <1>4, <1>5, <2>1 DEF Agreed
  <2>4. g \in Seq(Nat) /\ \A h \in Nat : Entry(g, h) = Entry(ix, h)
    BY <2>2, <2>3, EntryTrimmed
  <2>5. by_fd' = g
    BY <1>5, <2>1, <2>2, Zenon
  <2> QED BY <2>1, <2>4, <2>5, Zenon
<1>8. /\ Agreed(by_fd', w.slots, {})
      /\ \A h \in Nat : /\ EventsOf(by_fd', w.slots, h) = EventsOf(w.index, w.slots, h)
                        /\ ReventsOf(by_fd', w.slots, h) = ReventsOf(w.index, w.slots, h)
  BY <1>4, <1>7, AgreedSame
<1>9. \A h \in Nat : /\ EventsOf(w.index, w.slots, h) = EventsOf(by_fd, fds, h)
                     /\ ReventsOf(w.index, w.slots, h) = ReventsOf(by_fd, fds, h)
  BY <1>4 DEF SameSlots, EventsOf, ReventsOf
<1>10. freestack' \in Seq(Nat) /\ IsInjective(freestack') /\ ToSet(freestack') = {}
  BY <1>6 DEF IsInjective, ToSet
<1> QED BY <1>6, <1>8, <1>9, <1>10, FdNotNone DEF PInv

\* The invariant says that eget() and rget() answer right.
LEMMA PollAnswers == PInv => AnswersRight
<1> SUFFICES ASSUME PInv PROVE AnswersRight
  OBVIOUS
<1>1. \A f \in Fds : f \in Nat /\ Index(f) = Entry(by_fd, f)
  BY FdNotNone DEF Index, Entry
<1>2. Slots = 1 .. Len(fds)
  BY DEF PInv, Agreed, Slots
<1>3. VectorsAgree
  <2>1. \A f \in Fds : Index(f) # None => Index(f) \in Slots /\ fds[Index(f)].fd = f
    BY <1>1, <1>2 DEF PInv, Agreed
  <2>2. ASSUME NEW i \in Slots, fds[i].fd # -1 PROVE Index(fds[i].fd) = i
    <3>1. fds[i] \in Slot
      BY <1>2 DEF PInv, Agreed
    <3>2. fds[i].fd \in Fds
      BY <2>2, <3>1 DEF Slot
    <3> QED BY <1>1, <1>2, <2>2, <3>2 DEF PInv, Agreed
  <2>3. {i \in Slots : fds[i].fd = -1} = ToSet(freestack)
    BY <1>2 DEF PInv, Agreed
  <2> QED BY <2>1, <2>2, <2>3 DEF VectorsAgree, PInv
<1>4. \A f \in Fds : Eget(f) = asked[f]
  BY <1>1 DEF Eget, PInv, EventsOf
<1>5. \A f \in polled : Rget(f) = heard[f]
  BY <1>1 DEF Rget, PInv, ReventsOf
<1> QED BY <1>3, <1>4, <1>5 DEF AnswersRight

\* A poll set that nobody has called yet.
LEMMA ServerPollInit == ServerInit => PInv
<1> SUFFICES ASSUME PollInit PROVE PInv
  BY DEF ServerInit
<1>1. \A f \in Nat : Entry(<< >>, f) = None
  BY DEF Entry
<1>2. Agreed(<< >>, << >>, {})
  BY <1>1 DEF Agreed
<1>3. ToSet(<< >>) = {} /\ IsInjective(<< >>) /\ << >> \in Seq(Nat)
  BY DEF ToSet, IsInjective
<1> QED BY <1>1, <1>2, <1>3, FdNotNone DEF PollInit, PInv, EventsOf

\* Every step of the server keeps the invariant of the poll set.
LEMMA ServerPollNext == DInv /\ PInv /\ [ServerNext]_serverVars => PInv'
<1> SUFFICES ASSUME DInv, PInv, [ServerNext]_serverVars PROVE PInv'
  OBVIOUS
<1>1. CASE UNCHANGED pollVars
  BY <1>1 DEF pollVars, PInv
<1>2. ASSUME NEW o \in Objs, SetStep(o) PROVE PInv'
  <2>1. fd[o] \in Fds
    BY <1>2 DEF SetStep, DInv, FdTypeOK
  <2> QED BY <1>2, <2>1, PollUnset, PollSetKeeps DEF SetStep
<1> QED BY <1>1, <1>2, PollKeeps, CompactKeeps DEF ServerNext, serverVars

\* After any calls of set, poll and compact, eget() answers what was set last and
\* rget() what the last poll reported, whatever the descriptors, the events and the
\* order in which slots are freed (posix_fe.h:2353-2398).
THEOREM PollAnswersRight == ServerSpec => []AnswersRight
<1>1. ServerSpec => []PInv
  BY ServerPollInit, ServerPollNext, ServerFds, PTL DEF ServerSpec
<1> QED BY <1>1, PollAnswers, PTL

\* No call of the server leaves a value its type does not allow: by_fd and the stack
\* of free slots hold positions in fds only, however it has been compacted.
THEOREM ServerTypes == ServerSpec => []ServerTypeOK
<1>1. PInv => PollTypeOK
  <2> SUFFICES ASSUME PInv PROVE PollTypeOK
    OBVIOUS
  <2>1. Slots = 1 .. Len(fds) /\ fds \in Seq(Slot)
    BY DEF PInv, Agreed, Slots
  <2>2. by_fd \in Seq(Slots \cup {None})
    <3>1. by_fd \in Seq(Nat) /\ \A f \in Nat : Entry(by_fd, f) # None => Entry(by_fd, f) \in Slots
      BY <2>1 DEF PInv, Agreed
    <3>2. ASSUME NEW k \in 1 .. Len(by_fd) PROVE by_fd[k] \in Slots \cup {None}
      <4>1. k - 1 \in Nat /\ k - 1 < Len(by_fd) /\ (k - 1) + 1 = k
        BY <3>1
      <4>2. Entry(by_fd, k - 1) = by_fd[k]
        BY <4>1 DEF Entry
      <4> QED BY <3>1, <4>1, <4>2
    <3> QED BY <3>1, <3>2
  <2>3. freestack \in Seq(Slots)
    <3>1. freestack \in Seq(Nat) /\ ToSet(freestack) \subseteq Slots
      BY <2>1 DEF PInv, Agreed
    <3>2. \A k \in 1 .. Len(freestack) : freestack[k] \in Slots
      BY <3>1 DEF ToSet
    <3> QED BY <3>1, <3>2
  <2> QED BY <2>1, <2>2, <2>3 DEF PollTypeOK, Slot
<1>2. DInv => FdTypeOK
  BY DEF DInv
<1>3. ServerSpec => []PInv
  BY ServerPollInit, ServerPollNext, ServerFds, PTL DEF ServerSpec
<1> QED BY <1>1, <1>2, <1>3, ServerFds, PTL DEF ServerTypeOK
=============================================================================
