-------------------------- MODULE PhaseLoop_proofs --------------------------
(***************************************************************************)
(* Proofs about what the phase loop measures, for every period, jitter,    *)
(* length of a second and size of the history: the arithmetic of           *)
(* pxfe_timespec is exact, and with it what the clock sources, the phase   *)
(* detector and the filter of outliers compute.  The lemmas keep the       *)
(* products with NSEC, which the provers handle only between plain         *)
(* integers, apart from the case analysis of the operators.                *)
(***************************************************************************)
EXTENDS ClockSource, PhaseDetector, LoopBandwidth, FiniteSetTheorems, WellFoundedInduction, TLAPS

\* Products with a length are plain sums when one factor is a sum.
LEMMA Distribute ==
    ASSUME NEW x \in Int, NEW y \in Int, NEW k \in Int
    PROVE  /\ x * k \in Int
           /\ (x + y) * k = x * k + y * k
           /\ (x + y + 1) * k = x * k + y * k + k
           /\ (x - y) * k = x * k - y * k
           /\ (x - y - 1) * k = x * k - y * k - k
OBVIOUS

\* A whole second more is at least a second's length more.
LEMMA MultiplyMonotone ==
    ASSUME NEW x \in Int, NEW y \in Int, NEW k \in Nat, x + 1 <= y
    PROVE  x * k + k <= y * k
<1>1. PICK d \in Nat : y = x + 1 + d
  <2>1. y - (x + 1) \in Nat /\ y = x + 1 + (y - (x + 1))
    OBVIOUS
  <2> QED BY <2>1
<1>2. y * k = x * k + k + d * k
  BY <1>1
<1>3. d * k >= 0
  OBVIOUS
<1>4. x * k \in Int /\ d * k \in Int /\ y * k \in Int
  OBVIOUS
<1> QED BY <1>2, <1>3, <1>4

\* The fields of a timespec, and the time it stands for, are integers.
LEMMA FieldTypes ==
    ASSUME NEW t \in Timespecs
    PROVE  /\ t.sec \in Int /\ t.nsec \in 0 .. NSEC /\ t.nsec \in Int
           /\ NSEC \in Int /\ NSEC \in Nat
           /\ t.sec * NSEC \in Int
           /\ Val(t) \in Int
<1>1. t.sec \in Int /\ t.nsec \in 0 .. NSEC /\ t.nsec \in Int /\ NSEC \in Nat
  BY NSECAssumption DEF Timespecs
<1>2. NSEC \in Int
  BY <1>1
<1>3. t.sec * NSEC \in Int
  BY <1>1, <1>2, Distribute
<1> QED BY <1>1, <1>2, <1>3 DEF Val

\* operator+= never loses time, and keeps tv_nsec within 0 .. NSEC: one past
\* what a normalised timespec allows, and no further however long the sum.
THEOREM AddExact ==
    ASSUME NEW a \in Timespecs, NEW b \in Timespecs
    PROVE  Add(a, b) \in Timespecs /\ Val(Add(a, b)) = Val(a) + Val(b)
<1>1. /\ a.sec \in Int /\ a.nsec \in 0 .. NSEC /\ a.sec * NSEC \in Int
      /\ b.sec \in Int /\ b.nsec \in 0 .. NSEC /\ b.sec * NSEC \in Int
      /\ NSEC \in Int
  BY FieldTypes
<1>2. CASE a.nsec + b.nsec > NSEC
  <2>1. Add(a, b) = [sec |-> a.sec + b.sec + 1, nsec |-> a.nsec + b.nsec - NSEC]
    BY <1>1, <1>2 DEF Add
  <2>2. (a.sec + b.sec + 1) * NSEC = a.sec * NSEC + b.sec * NSEC + NSEC
    BY <1>1, Distribute
  <2>3. Add(a, b).sec = a.sec + b.sec + 1 /\ Add(a, b).nsec = a.nsec + b.nsec - NSEC
    BY <2>1
  <2>4. Val(Add(a, b)) = a.sec * NSEC + b.sec * NSEC + NSEC + (a.nsec + b.nsec - NSEC)
    BY <2>2, <2>3 DEF Val
  <2>5. Val(Add(a, b)) = Val(a) + Val(b)
    BY <1>1, <2>4 DEF Val
  <2>6. Add(a, b) \in Timespecs
    BY <1>1, <1>2, <2>1 DEF Timespecs
  <2> QED BY <2>5, <2>6
<1>3. CASE ~ (a.nsec + b.nsec > NSEC)
  <2>1. Add(a, b) = [sec |-> a.sec + b.sec, nsec |-> a.nsec + b.nsec]
    BY <1>3 DEF Add
  <2>2. (a.sec + b.sec) * NSEC = a.sec * NSEC + b.sec * NSEC
    BY <1>1, Distribute
  <2>3. Add(a, b).sec = a.sec + b.sec /\ Add(a, b).nsec = a.nsec + b.nsec
    BY <2>1
  <2>4. Val(Add(a, b)) = a.sec * NSEC + b.sec * NSEC + (a.nsec + b.nsec)
    BY <2>2, <2>3 DEF Val
  <2>5. Val(Add(a, b)) = Val(a) + Val(b)
    BY <1>1, <2>4 DEF Val
  <2>6. Add(a, b) \in Timespecs
    BY <1>1, <1>3, <2>1 DEF Timespecs
  <2> QED BY <2>5, <2>6
<1> QED BY <1>2, <1>3

\* operator-= never loses time and stays within the same range.
THEOREM SubExact ==
    ASSUME NEW a \in Timespecs, NEW b \in Timespecs
    PROVE  Sub(a, b) \in Timespecs /\ Val(Sub(a, b)) = Val(a) - Val(b)
<1>1. /\ a.sec \in Int /\ a.nsec \in 0 .. NSEC /\ a.sec * NSEC \in Int
      /\ b.sec \in Int /\ b.nsec \in 0 .. NSEC /\ b.sec * NSEC \in Int
      /\ NSEC \in Int
  BY FieldTypes
<1>2. CASE b.nsec > a.nsec
  <2>1. Sub(a, b) = [sec |-> a.sec - b.sec - 1, nsec |-> a.nsec - b.nsec + NSEC]
    BY <1>2 DEF Sub
  <2>2. (a.sec - b.sec - 1) * NSEC = a.sec * NSEC - b.sec * NSEC - NSEC
    BY <1>1, Distribute
  <2>3. Sub(a, b).sec = a.sec - b.sec - 1 /\ Sub(a, b).nsec = a.nsec - b.nsec + NSEC
    BY <2>1
  <2>4. Val(Sub(a, b)) = a.sec * NSEC - b.sec * NSEC - NSEC + (a.nsec - b.nsec + NSEC)
    BY <2>2, <2>3 DEF Val
  <2>5. Val(Sub(a, b)) = Val(a) - Val(b)
    BY <1>1, <2>4 DEF Val
  <2>6. Sub(a, b) \in Timespecs
    BY <1>1, <1>2, <2>1 DEF Timespecs
  <2> QED BY <2>5, <2>6
<1>3. CASE ~ (b.nsec > a.nsec)
  <2>1. Sub(a, b) = [sec |-> a.sec - b.sec, nsec |-> a.nsec - b.nsec]
    BY <1>3 DEF Sub
  <2>2. (a.sec - b.sec) * NSEC = a.sec * NSEC - b.sec * NSEC
    BY <1>1, Distribute
  <2>3. Sub(a, b).sec = a.sec - b.sec /\ Sub(a, b).nsec = a.nsec - b.nsec
    BY <2>1
  <2>4. Val(Sub(a, b)) = a.sec * NSEC - b.sec * NSEC + (a.nsec - b.nsec)
    BY <2>2, <2>3 DEF Val
  <2>5. Val(Sub(a, b)) = Val(a) - Val(b)
    BY <1>1, <2>4 DEF Val
  <2>6. Sub(a, b) \in Timespecs
    BY <1>1, <1>3, <2>1 DEF Timespecs
  <2> QED BY <2>5, <2>6
<1> QED BY <1>2, <1>3

\* A difference is normalised unless a whole second was left in the tv_nsec of
\* the minuend: subtracting repairs what += leaves behind.
THEOREM SubNormalises ==
    ASSUME NEW a \in Timespecs, NEW b \in Timespecs,
           a.nsec < NSEC \/ b.nsec > 0
    PROVE  Sub(a, b) \in Normalised
<1> USE NSECAssumption DEF Timespecs, Normalised
<1>1. CASE b.nsec > a.nsec
  BY <1>1 DEF Sub
<1>2. CASE b.nsec <= a.nsec
  BY <1>2 DEF Sub
<1> QED BY <1>1, <1>2

\* operator< is the numeric order when its left operand is a clock reading,
\* even if the right one still has a whole second in tv_nsec: the spin loops
\* compare now with the desired time in this order.
THEOREM LessExact ==
    ASSUME NEW a \in Normalised, NEW b \in Timespecs
    PROVE  Less(a, b) <=> Val(a) < Val(b)
<1>1. a \in Timespecs /\ a.nsec \in 0 .. NSEC - 1
  BY NSECAssumption DEF Timespecs, Normalised
<1>2. /\ a.sec \in Int /\ a.nsec \in Int /\ a.sec * NSEC \in Int
      /\ b.sec \in Int /\ b.nsec \in 0 .. NSEC /\ b.sec * NSEC \in Int
      /\ NSEC \in Int /\ NSEC \in Nat
  BY <1>1, FieldTypes
<1>3. CASE a.sec < b.sec
  <2>1. a.sec + 1 <= b.sec
    BY <1>2, <1>3
  <2>2. a.sec * NSEC + NSEC <= b.sec * NSEC
    BY <1>2, <2>1, MultiplyMonotone
  <2>3. Val(a) < Val(b)
    BY <1>1, <1>2, <2>2 DEF Val
  <2> QED BY <1>3, <2>3 DEF Less
<1>4. CASE a.sec = b.sec
  BY <1>1, <1>2, <1>4 DEF Less, Val
<1>5. CASE b.sec < a.sec
  <2>1. b.sec + 1 <= a.sec
    BY <1>2, <1>5
  <2>2. b.sec * NSEC + NSEC <= a.sec * NSEC
    BY <1>2, <2>1, MultiplyMonotone
  <2>3. ~ (Val(a) < Val(b))
    BY <1>1, <1>2, <2>2 DEF Val
  <2> QED BY <1>2, <1>5, <2>3 DEF Less
<1> QED BY <1>2, <1>3, <1>4, <1>5

-----------------------------------------------------------------------------
(* The clock sources                                                       *)

\* Division leaves what it should.
LEMMA DivMod ==
    ASSUME NEW n \in Int, NEW k \in Nat \ {0}
    PROVE  /\ n \div k \in Int /\ n % k \in 0 .. k - 1
           /\ n = (n \div k) * k + (n % k)
OBVIOUS

\* A clock reading is a normalised timespec and stands for the time read.
LEMMA ClockReading ==
    ASSUME NEW n \in Int
    PROVE  /\ FromClock(n) \in Normalised /\ FromClock(n) \in Timespecs
           /\ Val(FromClock(n)) = n
<1>1. /\ n \div NSEC \in Int /\ n % NSEC \in 0 .. NSEC - 1
      /\ n = (n \div NSEC) * NSEC + (n % NSEC)
      /\ NSEC \in Nat
  BY NSECAssumption, DivMod
<1>2. FromClock(n) \in Normalised /\ FromClock(n) \in Timespecs
  BY <1>1 DEF FromClock, Normalised, Timespecs
<1>3. Val(FromClock(n)) = n
  BY <1>1 DEF FromClock, Val
<1> QED BY <1>2, <1>3
-----------------------------------------------------------------------------
\* The types are inductive by themselves: sums and differences of timespecs
\* stay timespecs, whatever the period.
LEMMA TypesInit == Init => TypeOK
<1> SUFFICES ASSUME Init PROVE TypeOK
  OBVIOUS
<1>1. Zero \in Normalised /\ Zero \in Timespecs
  BY NSECAssumption DEF Zero, Normalised, Timespecs
<1>2. now \in Nat /\ osc_interval \in Nat /\ 0 \in 0 .. JITTER - 1
  BY ClockSourceAssumption DEF Init
<1>3. wake \in Int /\ origin \in Int /\ elapsed \in Int /\ pc \in PCs
  BY DEF Init, PCs
<1>4. done \in BOOLEAN /\ raced \in BOOLEAN /\ which \in {REF, OSC} /\ jitter \in 0 .. JITTER - 1
  BY <1>2 DEF Init
<1>5. desired \in Timespecs /\ s \in Timespecs /\ seen \in Normalised
  BY <1>1 DEF Init
<1> QED BY <1>2, <1>3, <1>4, <1>5 DEF TypeOK

\* Every step of a clock thread, and of the threads that steer and stop it,
\* keeps the types.
LEMMA TypesNext == TypeOK /\ [Next]_vars => TypeOK'
<1> SUFFICES ASSUME TypeOK, [Next]_vars PROVE TypeOK'
  OBVIOUS
<1> USE DEF TypeOK, PCs, local
<1>1. CASE Start
  <2>1. seen' \in Normalised /\ seen' = FromClock(now)
    BY <1>1, ClockReading DEF Start
  <2>2. desired' \in Timespecs
    BY <1>1, <2>1, NSECAssumption DEF Start, Normalised, Timespecs
  <2>3. origin' \in Int
    BY <1>1, <2>2, FieldTypes DEF Start
  <2> QED BY <1>1, <2>1, <2>2, <2>3 DEF Start
<1>2. CASE Exit \/ WakeUp \/ Enqueue \/ Tick \/ Stop
  <2>1. CASE Exit
    BY <2>1 DEF Exit
  <2>2. CASE WakeUp
    BY <2>2 DEF WakeUp
  <2>3. CASE Enqueue
    BY <2>3 DEF Enqueue
  <2>4. CASE Tick
    BY <2>4 DEF Tick
  <2>5. CASE Stop
    BY <2>5 DEF Stop
  <2> QED BY <1>2, <2>1, <2>2, <2>3, <2>4, <2>5
<1>3. CASE RefRound
  BY <1>3, ClockSourceAssumption DEF RefRound
<1>4. CASE OscRound \/ TestLow
  BY <1>4 DEF OscRound, TestLow
<1>5. CASE Clamp
  BY <1>5, ClockSourceAssumption DEF Clamp
<1>6. CASE Plan
  <2>1. interval \in Int
    BY ClockSourceAssumption DEF interval
  <2>2. desired' \in Timespecs /\ elapsed' \in Int
    BY <1>6, <2>1, ClockReading, AddExact DEF Plan
  <2> QED BY <1>6, <2>2 DEF Plan
<1>7. CASE Look
  <2>1. FromClock(EARLY) \in Timespecs
    BY ClockSourceAssumption, NSECAssumption, ClockReading
  <2>2. seen' \in Normalised /\ seen' \in Timespecs
    BY <1>7, ClockReading DEF Look
  <2>3. s' \in Timespecs
    BY <1>7, <2>1, <2>2, SubExact DEF Look
  <2> QED BY <1>7, <2>2, <2>3 DEF Look
<1>8. CASE Sleep
  <2>1. wake' \in Int
    BY <1>8, FieldTypes DEF Sleep
  <2> QED BY <1>8, <2>1 DEF Sleep
<1>9. CASE Spin
  <2>1. seen' \in Normalised
    BY <1>9, ClockReading DEF Spin
  <2> QED BY <1>9, <2>1 DEF Spin
<1>10. CASE Steer
  BY <1>10, ClockSourceAssumption DEF Steer
<1>11. CASE UNCHANGED vars
  BY <1>11 DEF vars
<1> QED BY <1>1, <1>2, <1>3, <1>4, <1>5, <1>6, <1>7, <1>8, <1>9, <1>10, <1>11
        DEF Next

\* Every field stays within its type: no chain of += and -= takes tv_nsec out
\* of 0 .. NSEC.
THEOREM ClockTypes == Spec => []TypeOK
<1> QED BY TypesInit, TypesNext, PTL DEF Spec

\* However long a source runs, the due time is the origin plus all periods.
THEOREM ClockNoDrift == Spec => []NoDrift
<1>1. Init => NoDrift
  BY DEF Init, NoDrift
<1>2. TypeOK /\ NoDrift /\ [Next]_vars => NoDrift'
  <2> SUFFICES ASSUME TypeOK, NoDrift, [Next]_vars PROVE NoDrift'
    OBVIOUS
  <2>1. CASE Start
    <3>1. desired' \in Timespecs
      BY <2>1, TypesNext DEF TypeOK
    <3>2. Val(desired') \in Int
      BY <3>1, FieldTypes
    <3>3. Val(desired') = origin' + elapsed'
      BY <2>1, <3>2 DEF Start
    <3> QED BY <3>3 DEF NoDrift, Val
  <2>2. CASE Plan
    <3>1. Val(desired) = origin + elapsed /\ Val(desired) \in Int
      BY <2>2, FieldTypes DEF Plan, NoDrift, TypeOK
    <3>2. /\ Val(FromClock(interval)) = interval /\ FromClock(interval) \in Timespecs
          /\ interval \in Int
      BY ClockReading, ClockSourceAssumption DEF TypeOK, interval
    <3>3. Val(Add(desired, FromClock(interval))) = origin + elapsed + interval
      BY <3>1, <3>2, AddExact DEF TypeOK
    <3>4. Val(desired') = origin' + elapsed'
      BY <2>2, <3>2, <3>3 DEF Plan, TypeOK
    <3> QED BY <3>4 DEF NoDrift, Val
  <2>3. CASE ~ Start /\ ~ Plan
    <3>1. desired' = desired /\ origin' = origin /\ elapsed' = elapsed
      BY <2>3 DEF Next, Exit, RefRound, OscRound, TestLow, Clamp, Look, Sleep, WakeUp,
                  Spin, Enqueue, Tick, Steer, Stop, vars, local
    <3>2. pc' # "start" => pc # "start"
      BY <2>3 DEF Next, Exit, RefRound, OscRound, TestLow, Clamp, Look, Sleep, WakeUp,
                  Spin, Enqueue, Tick, Steer, Stop, vars, local
    <3> QED BY <3>1, <3>2 DEF NoDrift, Val
  <2> QED BY <2>1, <2>2, <2>3
<1> QED BY <1>1, <1>2, ClockTypes, PTL DEF Spec

\* The time to sleep is a valid argument that ends EARLY before the due time,
\* whatever second boundary lies between: the borrow of -= repairs the carry.
THEOREM ClockSleepsToTheAlarm == Spec => []SleepsToTheAlarm
<1>1. Init => SleepsToTheAlarm
  BY DEF Init, SleepsToTheAlarm
<1>2. TypeOK /\ SleepsToTheAlarm /\ [Next]_vars => SleepsToTheAlarm'
  <2> SUFFICES ASSUME TypeOK, SleepsToTheAlarm, [Next]_vars
               PROVE  SleepsToTheAlarm'
    OBVIOUS
  <2>1. CASE Look
    <3> DEFINE alarm == Sub(desired, FromClock(EARLY))
    <3>1. /\ FromClock(EARLY) \in Timespecs /\ Val(FromClock(EARLY)) = EARLY
          /\ EARLY \in Int /\ EARLY < NSEC /\ EARLY > 0
      BY ClockSourceAssumption, NSECAssumption, ClockReading
    <3>2. FromClock(EARLY).nsec > 0
      <4>1. EARLY % NSEC = EARLY
        BY <3>1, NSECAssumption
      <4> QED BY <3>1, <4>1 DEF FromClock
    <3>3. /\ alarm \in Timespecs /\ alarm \in Normalised
          /\ Val(alarm) = Val(desired) - EARLY
      BY <3>1, <3>2, SubExact, SubNormalises DEF TypeOK
    <3>4. seen' \in Timespecs /\ seen' = FromClock(now)
      BY <2>1, ClockReading DEF Look, TypeOK
    <3>5. s' = Sub(alarm, seen')
      BY <2>1 DEF Look
    <3>6. s' \in Normalised
      <4>1. alarm.nsec < NSEC
        BY <3>3, NSECAssumption DEF Normalised
      <4> HIDE DEF alarm
      <4> QED BY <3>3, <3>4, <3>5, <4>1, SubNormalises
    <3>7. Val(s') = Val(desired) - EARLY - Val(seen')
      <4> HIDE DEF alarm
      <4> QED BY <3>3, <3>4, <3>5, SubExact
    <3>8. Val(desired) \in Int /\ Val(seen') \in Int
      BY <3>4, FieldTypes DEF TypeOK
    <3>9. Val(seen') + Val(s') = Val(desired) - EARLY
      BY <3>1, <3>7, <3>8
    <3>10. desired' = desired
      BY <2>1 DEF Look
    <3> QED BY <3>6, <3>9, <3>10 DEF SleepsToTheAlarm, Val
  <2>2. CASE ~ Look
    <3>1. pc' = "sleep" => /\ pc = "sleep"
                           /\ s' = s /\ seen' = seen /\ desired' = desired
      BY <2>2 DEF Next, Start, Exit, RefRound, OscRound, TestLow, Clamp, Plan, Sleep,
                  WakeUp, Spin, Enqueue, Tick, Steer, Stop, vars, local
    <3> QED BY <3>1 DEF SleepsToTheAlarm, Val
  <2> QED BY <2>1, <2>2
<1> QED BY <1>1, <1>2, ClockTypes, PTL DEF Spec

\* The exit test of the spin loop is exact although "due" may not be
\* normalised: no message is stamped before it is due.
LEMMA SpinTestExact ==
    ASSUME TypeOK, NEW t \in Normalised
    PROVE  Less(t, Due) <=> Val(t) < Val(desired) + jitter
<1>1. jitter \in Int /\ desired \in Timespecs
  BY ClockSourceAssumption DEF TypeOK
<1>2. Due \in Timespecs /\ Val(Due) = Val(desired) + jitter
  BY <1>1, ClockReading, AddExact DEF Due
<1> QED BY <1>2, LessExact

\* A normalised time from the clock's origin on is not negative.
LEMMA SleepNotNegative ==
    ASSUME NEW t \in Normalised, t.sec >= 0
    PROVE  Val(t) \in Int /\ Val(t) >= 0
<1>1. t.sec \in Int /\ t.nsec \in Int /\ t.nsec >= 0 /\ NSEC \in Nat
  BY NSECAssumption DEF Normalised
<1>2. \A x, y \in Nat : x * y \in Nat
  OBVIOUS
<1> QED BY <1>1, <1>2 DEF Val

\* What the second part of StampedWhenDue rests on: the reading the sleep was
\* computed from is not later than its end.
ReadBeforeSleep ==
    /\ pc \in {"sleep", "asleep"} => Val(seen) <= now
    /\ pc = "asleep" => Val(seen) <= wake

\* No message is stamped before it is due, and the spin after the usleep goes on
\* only while the clock read last is before the due time.
THEOREM ClockStampedWhenDue == Spec => []StampedWhenDue
<1> DEFINE Inv == ReadBeforeSleep /\ StampedWhenDue
<1>1. Init => Inv
  BY DEF Init, ReadBeforeSleep, StampedWhenDue
<1>2. TypeOK /\ Inv /\ [Next]_vars => Inv'
  <2> SUFFICES ASSUME TypeOK, Inv, [Next]_vars PROVE Inv'
    OBVIOUS
  <2>0. now \in Int /\ wake \in Int /\ seen \in Normalised /\ Val(seen) \in Int
    <3>1. seen \in Timespecs
      BY NSECAssumption DEF TypeOK, Normalised, Timespecs
    <3> QED BY <3>1, FieldTypes DEF TypeOK
  <2>1. CASE Look
    <3>1. Val(seen') = now /\ now' = now /\ pc' = "sleep"
      BY <2>1, <2>0, ClockReading DEF Look
    <3> QED BY <2>0, <3>1 DEF ReadBeforeSleep, StampedWhenDue, Val
  <2>2. CASE Sleep
    <3>1. s.sec >= 0 /\ s \in Normalised => Val(s) \in Int /\ Val(s) >= 0
      BY SleepNotNegative
    <3>2. /\ Val(seen) <= now /\ seen' = seen /\ now' = now /\ pc' = "asleep"
          /\ wake' = now \/ (s.sec >= 0 /\ s \in Normalised /\ wake' = now + Val(s))
      BY <2>2 DEF Sleep, ReadBeforeSleep
    <3>3. Val(seen) <= wake'
      BY <2>0, <3>1, <3>2
    <3> QED BY <3>2, <3>3 DEF ReadBeforeSleep, StampedWhenDue, Val
  <2>3. CASE Spin
    <3>1. seen' \in Normalised /\ seen' = FromClock(now)
      BY <2>0, <2>3, ClockReading DEF Spin
    <3>2. Less(seen', Due) <=> Val(seen') < Val(desired) + jitter
      BY <3>1, SpinTestExact
    <3>3. pc' = IF Less(seen', Due) THEN "spin" ELSE "enqueue"
      BY <2>3 DEF Spin
    <3>4. desired' = desired /\ jitter' = jitter
      BY <2>3 DEF Spin
    <3>5. Val(seen') \in Int /\ Val(desired) + jitter \in Int
      <4>1. Val(desired) \in Int /\ jitter \in Int
        BY FieldTypes DEF TypeOK
      <4>2. Val(seen') \in Int
        BY <2>0, <3>1, ClockReading
      <4> QED BY <4>1, <4>2
    <3> QED BY <3>2, <3>3, <3>4, <3>5 DEF ReadBeforeSleep, StampedWhenDue, Val
  <2>4. CASE WakeUp
    <3>1. Val(seen) <= wake /\ seen' = seen /\ wake' = wake /\ pc' = "spin"
      BY <2>4 DEF WakeUp, ReadBeforeSleep, local
    <3> QED BY <2>0, <3>1 DEF ReadBeforeSleep, StampedWhenDue, Val
  <2>5. CASE Tick
    <3>1. now' = now + 1 /\ UNCHANGED <<pc, local>>
      BY <2>5 DEF Tick
    <3> QED BY <2>0, <3>1 DEF local, ReadBeforeSleep, StampedWhenDue, Val
  <2>6. CASE Steer \/ Stop \/ UNCHANGED vars
    <3>1. UNCHANGED <<now, pc, local>>
      BY <2>6 DEF Steer, Stop, vars, local
    <3> QED BY <3>1 DEF local, ReadBeforeSleep, StampedWhenDue, Val
  <2>7. CASE Start \/ Exit \/ RefRound \/ OscRound \/ TestLow \/ Clamp \/ Plan \/ Enqueue
    <3>1. pc' \in {"loop", "exited", "test", "clamp", "raise", "plan", "look"}
      BY <2>7 DEF Start, Exit, RefRound, OscRound, TestLow, Clamp, Plan, Enqueue
    <3> QED BY <3>1 DEF ReadBeforeSleep, StampedWhenDue
  <2> QED BY <2>1, <2>2, <2>3, <2>4, <2>5, <2>6, <2>7 DEF Next
<1> QED BY <1>1, <1>2, ClockTypes, PTL DEF Spec

\* What the tests have established when dpll_thread has not stored since: the
\* first that the value is not too large, both that it may be used.
PeriodChecked ==
    which = OSC /\ ~ raced =>
      /\ pc = "test" => osc_interval <= MAX_INTERVAL
      /\ pc = "plan" => osc_interval \in MIN_INTERVAL .. MAX_INTERVAL

\* A store that breaks what a test established marks the value as raced.
LEMMA PeriodCheckedNext == TypeOK /\ PeriodChecked /\ [Next]_vars => PeriodChecked'
<1> SUFFICES ASSUME TypeOK, PeriodChecked, [Next]_vars PROVE PeriodChecked'
  OBVIOUS
<1>0. /\ MIN_INTERVAL \in Nat /\ MAX_INTERVAL \in Nat /\ osc_interval \in Nat
      /\ MIN_INTERVAL <= MAX_INTERVAL
  BY ClockSourceAssumption DEF TypeOK
<1>1. CASE RefRound
  BY <1>1, WhichAssumption DEF RefRound, PeriodChecked
<1>2. CASE OscRound
  BY <1>0, <1>2 DEF OscRound, PeriodChecked
<1>3. CASE TestLow
  BY <1>0, <1>3 DEF TestLow, PeriodChecked, local
<1>4. CASE Clamp
  BY <1>0, <1>4 DEF Clamp, PeriodChecked
<1>5. CASE Steer
  BY <1>5 DEF Steer, PeriodChecked, local
<1>6. CASE ~ (RefRound \/ OscRound \/ TestLow \/ Clamp \/ Steer)
  <2>1. /\ pc' = "plan" => pc = "plan"
        /\ pc' = "test" => pc = "test"
        /\ UNCHANGED <<osc_interval, which, raced>>
    BY <1>6 DEF Next, Start, Exit, Plan, Look, Sleep, WakeUp, Spin, Enqueue,
                Tick, Stop, vars, local
  <2> QED BY <2>1 DEF PeriodChecked
<1> QED BY <1>1, <1>2, <1>3, <1>4, <1>5, <1>6

\* Two due times are a legal period apart unless the value used was stored by
\* dpll_thread after the round's first test: no other order of the reads and
\* stores of the two threads lets an illegal period through.
THEOREM ClockPeriodInRange == Spec => PeriodInRange
<1>1. Init => PeriodChecked
  BY DEF Init, PeriodChecked
<1>2. TypeOK /\ PeriodChecked /\ [Next]_vars =>
        [desired' # desired /\ pc # "start" /\ ~ raced =>
           Val(desired') - Val(desired) \in MIN_INTERVAL .. MAX_INTERVAL]_vars
  <2> SUFFICES ASSUME TypeOK, PeriodChecked, [Next]_vars,
                      desired' # desired, pc # "start", ~ raced
               PROVE  Val(desired') - Val(desired) \in MIN_INTERVAL .. MAX_INTERVAL
    OBVIOUS
  <2>1. Plan
    BY DEF Next, Start, Exit, RefRound, OscRound, TestLow, Clamp, Look, Sleep, WakeUp,
           Spin, Enqueue, Tick, Steer, Stop, vars, local
  <2>2. interval \in MIN_INTERVAL .. MAX_INTERVAL /\ interval \in Int
    BY <2>1, ClockSourceAssumption DEF Plan, PeriodChecked, interval, TypeOK
  <2>3. FromClock(interval) \in Timespecs /\ Val(FromClock(interval)) = interval
    BY <2>2, ClockReading
  <2>4. Val(desired) \in Int
    BY FieldTypes DEF TypeOK
  <2>5. Val(Add(desired, FromClock(interval))) = Val(desired) + interval
    BY <2>3, AddExact DEF TypeOK
  <2>6. desired' = Add(desired, FromClock(interval))
    BY <2>1 DEF Plan
  <2>7. Val(desired') = Val(desired) + interval
    BY <2>5, <2>6 DEF Val
  <2>8. Val(desired') - Val(desired) = interval
    BY <2>2, <2>4, <2>7
  <2> QED BY <2>2, <2>8
<1> QED BY <1>1, <1>2, PeriodCheckedNext, ClockTypes, PTL DEF Spec, PeriodInRange
-----------------------------------------------------------------------------
(* The phase detector                                                      *)

\* Words that differ by a multiple of the word size are the same word.
LEMMA SameWord ==
    ASSUME NEW k \in Nat \ {0}, NEW m \in Int, NEW v \in 0 .. k - 1, NEW r \in 0 .. k - 1,
           v = m * k + r
    PROVE  v = r
<1>1. m * k \in Int /\ 0 * k = 0 /\ (-1) * k = -k
  OBVIOUS
<1>2. ~ (0 + 1 <= m)
  BY <1>1, MultiplyMonotone
<1>3. ~ (m + 1 <= 0)
  <2>1. m + 1 <= 0 => m * k + k <= 0 * k
    BY MultiplyMonotone
  <2> QED BY <1>1, <2>1
<1>4. m = 0
  BY <1>2, <1>3
<1> QED BY <1>1, <1>4

\* A word is found again in its remainder.
LEMMA WordOf ==
    ASSUME NEW n \in Int, NEW k \in Nat \ {0}, NEW j \in Int, NEW v \in 0 .. k - 1, v = j * k + n
    PROVE  n % k = v
<1>1. PICK m \in Int, r \in 0 .. k - 1 : n = m * k + r /\ n % k = r
  BY DivMod
<1>2. (j + m) * k = j * k + m * k /\ j * k \in Int /\ m * k \in Int
  BY Distribute
<1>3. v = (j + m) * k + r
  BY <1>1, <1>2
<1>4. j + m \in Int
  OBVIOUS
<1>5. v = r
  BY <1>3, <1>4, SameWord
<1> QED BY <1>1, <1>5

\* Reducing a factor to a word changes a sum of a product by whole words.
LEMMA WrappedSum ==
    ASSUME NEW x \in Int, NEW y \in Int, NEW f \in Int, NEW k \in Nat \ {0}
    PROVE  /\ (x % k) * f + y \in Int
           /\ \E j \in Int : x * f + y = j * k + ((x % k) * f + y)
<1>1. PICK m \in Int, r \in 0 .. k - 1 : x = m * k + r /\ x % k = r
  BY DivMod
<1>2. r \in Int /\ m * k \in Int /\ r * f \in Int /\ m * f \in Int /\ (m * f) * k \in Int
  <2>1. r \in Int
    OBVIOUS
  <2>2. m * k \in Int /\ r * f \in Int /\ m * f \in Int
    BY <2>1, Distribute
  <2> QED BY <2>1, <2>2, Distribute
<1>3. (m * k + r) * f = (m * k) * f + r * f
  BY <1>2, Distribute
<1>4. (m * k) * f = (m * f) * k
  OBVIOUS
<1>5. x * f = (m * f) * k + r * f
  BY <1>1, <1>3, <1>4
<1>6. x * f + y = (m * f) * k + (r * f + y)
  BY <1>2, <1>5
<1>7. \E j \in Int : x * f + y = j * k + (r * f + y)
  BY <1>2, <1>6, Zenon
<1>8. r * f + y \in Int
  BY <1>2
<1> QED BY <1>1, <1>7, <1>8, Zenon

\* nsecs(), read as a signed number, is the time a timespec stands for, when
\* that is less than half the word size: the unsigned products and sums wrap
\* around and cancel out (posix_fe.h:133).
LEMMA SignedNsecsExact ==
    ASSUME NEW t \in Timespecs, NEW word \in Nat \ {0}, word % 2 = 0,
           2 * Val(t) < word, - word < 2 * Val(t)
    PROVE  SignedNsecs(t, word) = Val(t)
<1> DEFINE n == (t.sec % word) * NSEC + t.nsec
<1>1. /\ t.sec \in Int /\ t.nsec \in Int /\ NSEC \in Int /\ Val(t) \in Int
      /\ Val(t) = t.sec * NSEC + t.nsec
  BY FieldTypes DEF Val
<1>2. n \in Int /\ \E j \in Int : Val(t) = j * word + n
  <2>1. \A x, y, f \in Int : /\ (x % word) * f + y \in Int
                             /\ \E j \in Int : x * f + y = j * word + ((x % word) * f + y)
    BY WrappedSum, ZenonT(30)
  <2>2. PICK x \in Int, y \in Int, f \in Int : x = t.sec /\ y = t.nsec /\ f = NSEC
    BY <1>1
  <2>3. n = (x % word) * f + y /\ Val(t) = x * f + y
    BY <1>1, <2>2
  <2>4. PICK j \in Int : x * f + y = j * word + ((x % word) * f + y)
    BY <2>1
  <2>5. (x % word) * f + y \in Int
    BY <2>1
  <2>6. n \in Int
    BY <2>3, <2>5, Zenon
  <2>7. Val(t) = j * word + n
    BY <2>3, <2>4, Zenon
  <2> QED BY <2>6, <2>7, Zenon
<1>3. SignedNsecs(t, word) = IF n % word >= word \div 2 THEN (n % word) - word ELSE n % word
  BY DEF SignedNsecs
<1> HIDE DEF n
<1>4. PICK j \in Int : Val(t) = j * word + n
  BY <1>2
<1>5. word \div 2 \in Int /\ word = 2 * (word \div 2)
  OBVIOUS
<1>6. CASE Val(t) >= 0
  <2>1. Val(t) \in 0 .. word - 1
    BY <1>1, <1>6
  <2>2. n % word = Val(t)
    BY <1>2, <1>4, <2>1, WordOf
  <2> QED BY <1>1, <1>3, <1>5, <2>2
<1>7. CASE Val(t) < 0
  <2>1. Val(t) + word \in 0 .. word - 1
    BY <1>1, <1>7
  <2>2. (j + 1) * word = j * word + word /\ j * word \in Int /\ j + 1 \in Int
    BY Distribute
  <2>3. Val(t) + word = (j + 1) * word + n
    BY <1>2, <1>4, <2>2
  <2>4. n % word = Val(t) + word
    BY <1>2, <2>1, <2>2, <2>3, WordOf
  <2> QED BY <1>1, <1>3, <1>5, <1>7, <2>4
<1> QED BY <1>1, <1>6, <1>7

\* The phase error of two readings less than half the word size apart.
LEMMA PhaseErrOf ==
    ASSUME NEW r \in Nat, NEW o \in Nat, r - o \in - (Period + Jitter) .. MaxOscPeriod + Jitter
    PROVE  SignedNsecs(Sub(FromClock(r), FromClock(o)), Word) = r - o
<1>1. /\ FromClock(r) \in Timespecs /\ Val(FromClock(r)) = r
      /\ FromClock(o) \in Timespecs /\ Val(FromClock(o)) = o
  BY ClockReading
<1>2. /\ Sub(FromClock(r), FromClock(o)) \in Timespecs
      /\ Val(Sub(FromClock(r), FromClock(o))) = r - o
  BY <1>1, SubExact
<1>3. Word \in Nat \ {0} /\ 2 * (r - o) < Word /\ - Word < 2 * (r - o) /\ Word % 2 = 0
  BY DetectorAssumption
<1> QED BY <1>2, <1>3, SignedNsecsExact

-----------------------------------------------------------------------------
\* How far apart the stamps of two messages of different sources are that follow
\* each other in the queue.
Near(m, n) ==
    /\ m.which = REF /\ n.which = OSC =>
         m.stamp - n.stamp \in - (Period + Jitter) .. MaxOscPeriod + Jitter
    /\ m.which = OSC /\ n.which = REF =>
         n.stamp - m.stamp \in - (Period + Jitter) .. MaxOscPeriod + Jitter

\* What is still true of the message enqueued last: its source's next tick is due
\* within a period, and no tick of the other source is due long before it.
Recent(m) ==
    /\ m.which = REF => due[REF] <= m.stamp + Period /\ m.stamp <= due[OSC] + Jitter
    /\ m.which = OSC => due[OSC] <= m.stamp + MaxOscPeriod /\ m.stamp <= due[REF] + Jitter

\* The message handled last, when the next one may be compared with it.
Waiting == [which |-> IF state = "UP" THEN REF ELSE OSC,
            stamp |-> IF state = "UP" THEN heard[REF] ELSE heard[OSC]]

OnSchedule ==
    /\ clock <= due[REF] + Jitter /\ clock <= due[OSC] + Jitter
    /\ \A w \in Which : stamp[w] # None => due[w] <= stamp[w] /\ stamp[w] <= clock

QueueNear ==
    /\ msgs # << >> => Recent(msgs[Len(msgs)])
    /\ \A i \in 1 .. Len(msgs) - 1 : Near(msgs[i], msgs[i + 1])
    /\ state # "IDLE" =>
         IF msgs = << >> THEN Recent(Waiting) ELSE Near(Waiting, msgs[1])

\* How far apart two stamps compared may be: far less than nsecs() can hold.
InReach == phase_err \in - (Period + Jitter) .. MaxOscPeriod + Jitter

Measured ==
    /\ last_ref = FromClock(heard[REF]) /\ last_osc = FromClock(heard[OSC])
    /\ PhaseErrExact /\ InReach

DInv == DetectorTypeOK /\ OnSchedule /\ QueueNear /\ Measured

\* Both sources are on schedule before the first tick.
LEMMA DInvInit == DetectorInit => DInv
<1> SUFFICES ASSUME DetectorInit PROVE DInv
  OBVIOUS
<1> USE DEF DetectorInit
<1>0. REF # OSC /\ Which = {REF, OSC} /\ Period \in Nat /\ Jitter \in Nat /\ MaxOscPeriod \in Nat
  BY WhichAssumption, DetectorAssumption DEF Which
<1>1. FromClock(0) \in Normalised
  BY ClockReading
<1>2. PICK offset \in Offsets : due = [w \in Which |-> IF w = REF THEN Period ELSE Period + offset]
  OBVIOUS
<1>3. offset \in Nat
  BY DetectorAssumption
<1>4. due \in [Which -> Nat] /\ due[REF] = Period /\ due[OSC] = Period + offset
  BY <1>0, <1>2, <1>3
<1>5. DetectorTypeOK
  <2>1. stamp \in [Which -> Nat \cup {None}] /\ heard \in [Which -> Nat] /\ pair \in [Which -> Nat]
    BY DEF None
  <2> QED BY <1>1, <1>4, <2>1 DEF DetectorTypeOK
<1>6. OnSchedule
  BY <1>0, <1>3, <1>4 DEF OnSchedule
<1>7. QueueNear
  BY DEF QueueNear
<1>8. Measured
  BY <1>0 DEF Measured, PhaseErrExact, InReach
<1> QED BY <1>5, <1>6, <1>7, <1>8 DEF DInv

\* Stamping a tick leaves the queue and the detector alone.
LEMMA StampKeeps ==
    ASSUME DInv, NEW w \in Which, Stamp(w)
    PROVE  DInv'
<1> USE DEF DInv, DetectorTypeOK, detector, Stamp
<1>1. DetectorTypeOK'
  OBVIOUS
<1>2. OnSchedule'
  BY DEF OnSchedule, None
<1>3. QueueNear'
  BY DEF QueueNear, Recent, Waiting, Near
<1>4. Measured'
  BY DEF Measured, PhaseErrExact, InReach
<1> QED BY <1>1, <1>2, <1>3, <1>4

\* The clock moves only while both sources are within their jitter.
LEMMA ClockKeeps ==
    ASSUME DInv, ClockTicks
    PROVE  DInv'
<1> USE DEF DInv, DetectorTypeOK, detector, ClockTicks
<1>0. due[REF] \in Nat /\ due[OSC] \in Nat /\ Jitter \in Nat /\ REF \in Which /\ OSC \in Which
  BY DetectorAssumption DEF Which
<1>1. DetectorTypeOK'
  OBVIOUS
<1>2. OnSchedule'
  <2>1. clock + 1 <= due[REF] + Jitter /\ clock + 1 <= due[OSC] + Jitter
    BY <1>0
  <2>2. \A w \in Which : stamp[w] # None => due[w] <= stamp[w] /\ stamp[w] <= clock + 1
    BY DEF OnSchedule, None
  <2> QED BY <2>1, <2>2 DEF OnSchedule
<1>3. QueueNear'
  BY DEF QueueNear, Recent, Waiting, Near
<1>4. Measured'
  BY DEF Measured, PhaseErrExact, InReach
<1> QED BY <1>1, <1>2, <1>3, <1>4

\* A message is enqueued near the one before it.
LEMMA NearNext ==
    ASSUME DInv, NEW w \in Which, stamp[w] # None, NEW m \in [which : Which, stamp : Nat],
           Recent(m)
    PROVE  Near(m, [which |-> w, stamp |-> stamp[w]])
<1>1. /\ due[REF] \in Nat /\ due[OSC] \in Nat /\ Jitter \in Nat /\ clock \in Nat
      /\ m.stamp \in Nat /\ stamp[w] \in Nat /\ Period \in Nat /\ MaxOscPeriod \in Nat
      /\ Period <= MaxOscPeriod
  BY DetectorAssumption DEF DInv, DetectorTypeOK, Which, None
<1>2. due[w] <= stamp[w] /\ stamp[w] <= due[REF] + Jitter /\ stamp[w] <= due[OSC] + Jitter
  BY <1>1 DEF DInv, OnSchedule
<1>3. CASE m.which = REF /\ w = OSC
  BY <1>1, <1>2, <1>3, WhichAssumption DEF Near, Recent
<1>4. CASE m.which = OSC /\ w = REF
  BY <1>1, <1>2, <1>4, WhichAssumption DEF Near, Recent
<1> QED BY <1>3, <1>4, WhichAssumption DEF Near

\* A queue with the first element taken.
LEMMA Taken ==
    ASSUME NEW S, NEW q \in Seq(S), q # << >>
    PROVE  /\ Head(q) = q[1] /\ Head(q) \in S /\ Len(q) \in Nat /\ Len(q) >= 1
           /\ Tail(q) \in Seq(S) /\ Len(Tail(q)) = Len(q) - 1
           /\ \A i \in 1 .. Len(q) - 1 : Tail(q)[i] = q[i + 1]
OBVIOUS

\* What is enqueued is near what was enqueued before it.
LEMMA EnqueueKeeps ==
    ASSUME DInv, NEW w \in Which, EnqueueTick(w)
    PROVE  DInv'
<1>n. PICK n : n = [which |-> w, stamp |-> stamp[w]]
  OBVIOUS
<1>0. /\ REF # OSC /\ Which = {REF, OSC} /\ Period \in Nat /\ Jitter \in Nat
      /\ MaxOscPeriod \in Nat /\ Jitter < Period
      /\ due \in [Which -> Nat] /\ clock \in Nat /\ stamp[w] \in Nat
      /\ msgs \in Seq([which : Which, stamp : Nat]) /\ stamp \in [Which -> Nat \cup {None}]
  BY WhichAssumption, DetectorAssumption DEF DInv, DetectorTypeOK, Which, EnqueueTick
<1>1. /\ stamp[w] # None /\ msgs' = Append(msgs, n)
      /\ stamp' = [stamp EXCEPT ![w] = None] /\ UNCHANGED <<clock, ticks, detector>>
  BY <1>n DEF EnqueueTick
<1>2. PICK p \in Nat : /\ due' = [due EXCEPT ![w] = due[w] + p]
                       /\ w = REF => p = Period
                       /\ w = OSC => p <= MaxOscPeriod
  <2>1. PICK p \in (IF w = REF THEN {Period} ELSE OscPeriods) :
            due' = [due EXCEPT ![w] = due[w] + p]
    BY DEF EnqueueTick, NextDue
  <2>2. p \in Nat /\ (w = REF => p = Period) /\ (w = OSC => p <= MaxOscPeriod)
    BY <1>0, <2>1, DetectorAssumption
  <2> QED BY <2>1, <2>2
<1>3. n \in [which : Which, stamp : Nat] /\ n.which = w /\ n.stamp = stamp[w]
  BY <1>0, <1>n
<1>4. due[w] <= stamp[w] /\ stamp[w] <= clock
      /\ clock <= due[REF] + Jitter /\ clock <= due[OSC] + Jitter
  BY <1>1 DEF DInv, OnSchedule
<1>5. DetectorTypeOK'
  <2>1. due' \in [Which -> Nat]
    BY <1>0, <1>2
  <2>2. msgs' \in Seq([which : Which, stamp : Nat])
    BY <1>0, <1>1, <1>3
  <2>3. stamp' \in [Which -> Nat \cup {None}]
    BY <1>0, <1>1
  <2> QED BY <1>1, <2>1, <2>2, <2>3 DEF DInv, DetectorTypeOK, detector
<1>6. OnSchedule'
  <2>1. clock <= due'[REF] + Jitter /\ clock <= due'[OSC] + Jitter
    BY <1>0, <1>2, <1>4
  <2>2. \A v \in Which : stamp'[v] # None => v # w /\ stamp'[v] = stamp[v] /\ due'[v] = due[v]
    BY <1>0, <1>1, <1>2
  <2> QED BY <1>1, <2>1, <2>2 DEF OnSchedule, DInv
<1>7. Recent(n)'
  <2>1. /\ due[REF] \in Nat /\ due[OSC] \in Nat /\ Period \in Nat
        /\ w = REF => due'[REF] = due[REF] + Period /\ due'[OSC] = due[OSC]
        /\ w = OSC => due'[OSC] = due[OSC] + p /\ due'[REF] = due[REF]
    BY <1>0, <1>2
  <2>2. /\ w = REF => due[REF] + Period <= stamp[w] + Period /\ stamp[w] <= due[OSC] + Jitter
        /\ w = OSC => due[OSC] + p <= stamp[w] + MaxOscPeriod /\ stamp[w] <= due[REF] + Jitter
    BY <1>0, <1>2, <1>4, <2>1
  <2> QED BY <1>3, <2>1, <2>2 DEF Recent
<1>8. QueueNear'
  <2>1. /\ Len(msgs') = Len(msgs) + 1 /\ msgs'[Len(msgs) + 1] = n
        /\ \A i \in 1 .. Len(msgs) : msgs'[i] = msgs[i] /\ msgs[i] \in [which : Which, stamp : Nat]
        /\ Len(msgs) \in Nat
    <3>1. msgs' = Append(msgs, n) /\ n \in [which : Which, stamp : Nat]
      BY <1>1, <1>3, Zenon
    <3>2. /\ Len(Append(msgs, n)) = Len(msgs) + 1 /\ Append(msgs, n)[Len(msgs) + 1] = n
          /\ \A i \in 1 .. Len(msgs) : Append(msgs, n)[i] = msgs[i]
                                      /\ msgs[i] \in [which : Which, stamp : Nat]
          /\ Len(msgs) \in Nat
      <4>1. PICK S : S = [which : Which, stamp : Nat] /\ msgs \in Seq(S) /\ n \in S
        BY <1>0, <3>1
      <4>2. /\ Len(Append(msgs, n)) = Len(msgs) + 1 /\ Append(msgs, n)[Len(msgs) + 1] = n
            /\ \A i \in 1 .. Len(msgs) : Append(msgs, n)[i] = msgs[i] /\ msgs[i] \in S
            /\ Len(msgs) \in Nat
        <5>1. msgs \in Seq(S) /\ n \in S
          BY <4>1
        <5> QED BY <5>1
      <4> QED BY <4>1, <4>2, Zenon
    <3> QED BY <3>1, <3>2, Zenon
  <2>2. \A m \in [which : Which, stamp : Nat] : Recent(m) => Near(m, n)
    BY <1>1, <1>n, NearNext
  <2>3. msgs' # << >> /\ msgs'[Len(msgs')] = n
    BY <1>0, <1>1, <2>1
  <2>4. ASSUME NEW i \in 1 .. Len(msgs') - 1 PROVE Near(msgs'[i], msgs'[i + 1])
    <3>1. CASE i = Len(msgs)
      BY <2>1, <2>2, <3>1 DEF DInv, QueueNear
    <3>2. CASE i # Len(msgs)
      BY <2>1, <3>2 DEF DInv, QueueNear
    <3> QED BY <3>1, <3>2
  <2>5. ASSUME state # "IDLE" PROVE Near(Waiting, msgs'[1])
    <3>1. CASE msgs = << >>
      <4>1. Waiting \in [which : Which, stamp : Nat] /\ Recent(Waiting) /\ msgs'[1] = n
        BY <2>1, <2>5, <3>1, <1>0 DEF DInv, DetectorTypeOK, QueueNear, Waiting
      <4> QED BY <2>2, <4>1
    <3>2. CASE msgs # << >>
      <4>1. 1 \in 1 .. Len(msgs)
        BY <3>2, <1>0
      <4> QED BY <2>1, <2>5, <3>2, <4>1 DEF DInv, QueueNear
    <3> QED BY <3>1, <3>2
  <2>6. state' = state /\ Waiting' = Waiting
    BY <1>1 DEF detector, Waiting
  <2>7. \A a, b : Near(a, b)' <=> Near(a, b)
    BY DEF Near
  <2>8. Recent(msgs[Len(msgs)])'
    BY <1>7, <2>3 DEF Recent
  <2>9. \A i \in 1 .. Len(msgs') - 1 : Near(msgs[i], msgs[i + 1])'
    BY <2>4, <2>7
  <2>10. state' # "IDLE" => Near(Waiting, msgs[1])'
    BY <2>5, <2>6, <2>7
  <2> QED BY <2>3, <2>8, <2>9, <2>10 DEF QueueNear
<1>9. Measured'
  BY <1>1 DEF DInv, detector, Measured, PhaseErrExact, InReach
<1> QED BY <1>5, <1>6, <1>8, <1>9 DEF DInv

\* The message handled is near the one it is compared with.
LEMMA HandleKeeps ==
    ASSUME DInv, Handle
    PROVE  DInv'
<1> DEFINE m == Head(msgs)
           w == m.which
<1>0. /\ REF # OSC /\ Which = {REF, OSC}
      /\ msgs \in Seq([which : Which, stamp : Nat]) /\ msgs # << >>
      /\ heard \in [Which -> Nat]
  BY WhichAssumption DEF DInv, DetectorTypeOK, Which, Handle
<1>1. /\ m \in [which : Which, stamp : Nat] /\ m = msgs[1] /\ w \in Which /\ m.stamp \in Nat
      /\ Len(msgs) \in Nat /\ Len(msgs) >= 1
      /\ Len(msgs') = Len(msgs) - 1 /\ msgs' \in Seq([which : Which, stamp : Nat])
      /\ \A i \in 1 .. Len(msgs) - 1 : msgs'[i] = msgs[i + 1]
  <2>1. msgs' = Tail(msgs)
    BY DEF Handle
  <2>2. /\ m = msgs[1] /\ m \in [which : Which, stamp : Nat]
        /\ Len(msgs) \in Nat /\ Len(msgs) >= 1
        /\ Len(msgs') = Len(msgs) - 1 /\ msgs' \in Seq([which : Which, stamp : Nat])
        /\ \A i \in 1 .. Len(msgs) - 1 : msgs'[i] = msgs[i + 1]
    BY <1>0, <2>1, Taken
  <2> HIDE DEF m
  <2> QED BY <2>2
<1>2. /\ Note(w, FromClock(m.stamp)) /\ heard' = [heard EXCEPT ![w] = m.stamp]
      /\ UNCHANGED <<clock, due, stamp, ticks>>
      /\ IF Compares(w)
         THEN /\ state' = "IDLE" /\ pair' = heard'
              /\ phase_err' = SignedNsecs(Sub(last_ref', last_osc'), Word)
         ELSE state' = (IF w = REF THEN "UP" ELSE "DOWN") /\ UNCHANGED <<phase_err, pair>>
  BY DEF Handle
<1> HIDE DEF m, w
<1>3. /\ heard' \in [Which -> Nat] /\ heard'[w] = m.stamp
      /\ \A v \in Which \ {w} : heard'[v] = heard[v]
  BY <1>0, <1>1, <1>2
<1>4. last_ref' = FromClock(heard'[REF]) /\ last_osc' = FromClock(heard'[OSC])
  BY <1>0, <1>1, <1>2, <1>3 DEF Note, DInv, Measured
<1>5. /\ last_ref' \in Normalised /\ last_osc' \in Normalised
      /\ heard'[REF] \in Nat /\ heard'[OSC] \in Nat
  BY <1>0, <1>3, <1>4, ClockReading
<1>6. Compares(w) => heard'[REF] - heard'[OSC] \in - (Period + Jitter) .. MaxOscPeriod + Jitter
  <2> SUFFICES ASSUME Compares(w)
               PROVE  heard'[REF] - heard'[OSC] \in - (Period + Jitter) .. MaxOscPeriod + Jitter
    OBVIOUS
  <2>1. state # "IDLE" /\ Near(Waiting, m)
    BY <1>0, <1>1 DEF Compares, DInv, QueueNear
  <2>2. CASE w = REF
    <3>1. state = "DOWN" /\ heard'[OSC] = heard[OSC] /\ heard'[REF] = m.stamp
      BY <1>0, <1>3, <2>2 DEF Compares
    <3> QED BY <1>0, <2>1, <2>2, <3>1 DEF Near, Waiting, w
  <2>3. CASE w = OSC
    <3>1. state = "UP" /\ heard'[REF] = heard[REF] /\ heard'[OSC] = m.stamp
      BY <1>0, <1>3, <2>3 DEF Compares
    <3> QED BY <1>0, <2>1, <2>3, <3>1 DEF Near, Waiting, w
  <2> QED BY <1>0, <1>1, <2>2, <2>3
<1>7. Measured'
  <2>1. CASE Compares(w)
    <3>1. phase_err' = heard'[REF] - heard'[OSC]
      BY <1>2, <1>4, <1>5, <1>6, <2>1, PhaseErrOf
    <3> QED BY <1>2, <1>4, <1>6, <2>1, <3>1 DEF Measured, PhaseErrExact, InReach
  <2>2. CASE ~ Compares(w)
    BY <1>2, <1>4, <2>2 DEF DInv, Measured, PhaseErrExact, InReach
  <2> QED BY <2>1, <2>2
<1>8. DetectorTypeOK'
  <2>1. state' \in {"IDLE", "UP", "DOWN"} /\ pair' \in [Which -> Nat]
    BY <1>2, <1>3 DEF DInv, DetectorTypeOK
  <2>2. phase_err' \in Int
    <3>1. pair'[REF] \in Int /\ pair'[OSC] \in Int
      BY <1>0, <2>1
    <3> QED BY <1>7, <3>1 DEF Measured, PhaseErrExact
  <2> QED BY <1>1, <1>2, <1>3, <1>5, <2>1, <2>2 DEF DInv, DetectorTypeOK
<1>9. OnSchedule'
  BY <1>2 DEF DInv, OnSchedule
<1>10. QueueNear'
  <2>1. \A a, b : (Near(a, b)' <=> Near(a, b)) /\ (Recent(a)' <=> Recent(a))
    BY <1>2 DEF Near, Recent
  <2>2. state' # "IDLE" => Waiting' = [which |-> w, stamp |-> m.stamp]
    BY <1>0, <1>1, <1>2, <1>3 DEF Waiting
  <2>3. [which |-> w, stamp |-> m.stamp] = m
    BY <1>1 DEF w
  <2>4. CASE msgs' = << >>
    <3>1. Len(msgs) = 1
      BY <1>1, <2>4
    <3>2. Recent(m)
      BY <1>0, <1>1, <3>1 DEF DInv, QueueNear
    <3> QED BY <2>1, <2>2, <2>3, <2>4, <3>2 DEF QueueNear
  <2>5. CASE msgs' # << >>
    <3>1. Len(msgs') >= 1 /\ Len(msgs') \in Nat
      BY <1>1, <2>5
    <3>2. msgs'[Len(msgs')] = msgs[Len(msgs)] /\ msgs'[1] = msgs[2] /\ 1 \in 1 .. Len(msgs) - 1
      BY <1>1, <3>1
    <3>3. Recent(msgs'[Len(msgs')]) /\ Near(m, msgs'[1])
      BY <1>0, <1>1, <3>2 DEF DInv, QueueNear
    <3>4. ASSUME NEW i \in 1 .. Len(msgs') - 1 PROVE Near(msgs'[i], msgs'[i + 1])
      <4>1. /\ i \in 1 .. Len(msgs) - 1 /\ i + 1 \in 1 .. Len(msgs) - 1
            /\ msgs'[i] = msgs[i + 1] /\ msgs'[i + 1] = msgs[(i + 1) + 1]
        BY <1>1
      <4> QED BY <4>1 DEF DInv, QueueNear
    <3> QED BY <2>1, <2>2, <2>3, <2>5, <3>3, <3>4 DEF QueueNear
  <2> QED BY <2>4, <2>5
<1> QED BY <1>7, <1>8, <1>9, <1>10 DEF DInv

\* Every step keeps the invariant.
LEMMA DInvNext == DInv /\ [DetectorNext]_detectorVars => DInv'
<1> SUFFICES ASSUME DInv, [DetectorNext]_detectorVars PROVE DInv'
  OBVIOUS
<1>1. CASE UNCHANGED detectorVars
  BY <1>1 DEF detectorVars, detector, DInv, DetectorTypeOK, OnSchedule, QueueNear, Recent, Near,
              Waiting, Measured, PhaseErrExact, InReach
<1> QED BY <1>1, StampKeeps, EnqueueKeeps, ClockKeeps, HandleKeeps DEF DetectorNext

\* The values the detector's variables take.
THEOREM DetectorTypes == DetectorSpec => []DetectorTypeOK
<1>1. DInv => DetectorTypeOK
  BY DEF DInv
<1> QED BY <1>1, DInvInit, DInvNext, PTL DEF DetectorSpec

\* The phase error is exact whichever stamp is earlier and wherever a second
\* ends (posix_fe.h:133, 166; dpll_sim.cc:272-273).
THEOREM DetectorPhaseErrExact == DetectorSpec => []PhaseErrExact
<1>1. DInv => PhaseErrExact
  BY DEF DInv, Measured
<1> QED BY <1>1, DInvInit, DInvNext, PTL DEF DetectorSpec

\* What is never later than the clock.
Past ==
    /\ \A x \in ticks : x <= clock
    /\ \A i \in 1 .. Len(msgs) : msgs[i].stamp <= clock
    /\ \A v \in Which : heard[v] <= clock /\ pair[v] <= clock

\* Messages of different sources that follow each other are of adjacent ticks.
Beside(m, n) == m.which # n.which => Adjacent(m.stamp, n.stamp)

\* What is still true of the message enqueued last: a tick that is much later is
\* held by its source.
AllSeen(m) == \A x \in ticks : x <= m.stamp + Jitter \/ \E v \in Which : stamp[v] = x

QueueAdjacent ==
    /\ msgs # << >> => AllSeen(msgs[Len(msgs)])
    /\ \A i \in 1 .. Len(msgs) - 1 : Beside(msgs[i], msgs[i + 1])
    /\ state # "IDLE" =>
         IF msgs = << >> THEN AllSeen(Waiting) ELSE Beside(Waiting, msgs[1])

TInv == Past /\ QueueAdjacent /\ PairsAdjacent

LEMMA AdjacentSymmetric ==
    ASSUME NEW a, NEW b, Adjacent(a, b) PROVE Adjacent(b, a)
BY DEF Adjacent

\* The types of what is compared.
LEMMA DetectorFields ==
    ASSUME DInv
    PROVE  /\ REF # OSC /\ Which = {REF, OSC}
           /\ clock \in Nat /\ Jitter \in Nat /\ ticks \subseteq Nat
           /\ heard \in [Which -> Nat] /\ pair \in [Which -> Nat]
           /\ due \in [Which -> Nat] /\ stamp \in [Which -> Nat \cup {None}]
           /\ msgs \in Seq([which : Which, stamp : Nat]) /\ Len(msgs) \in Nat
           /\ \A i \in 1 .. Len(msgs) : msgs[i] \in [which : Which, stamp : Nat]
           /\ Waiting \in [which : Which, stamp : Nat]
<1>1. REF # OSC /\ Which = {REF, OSC} /\ Jitter \in Nat
  BY WhichAssumption, DetectorAssumption DEF Which
<1>2. msgs \in Seq([which : Which, stamp : Nat]) /\ heard \in [Which -> Nat]
  BY DEF DInv, DetectorTypeOK
<1>3. Len(msgs) \in Nat /\ \A i \in 1 .. Len(msgs) : msgs[i] \in [which : Which, stamp : Nat]
  <2>1. PICK S : S = [which : Which, stamp : Nat] /\ msgs \in Seq(S)
    BY <1>2
  <2>2. Len(msgs) \in Nat /\ \A i \in 1 .. Len(msgs) : msgs[i] \in S
    <3>1. msgs \in Seq(S)
      BY <2>1
    <3> QED BY <3>1
  <2> QED BY <2>1, <2>2
<1>4. Waiting \in [which : Which, stamp : Nat]
  BY <1>1, <1>2 DEF Waiting
<1> QED BY <1>1, <1>2, <1>3, <1>4 DEF DInv, DetectorTypeOK

LEMMA TInvInit == DetectorInit => TInv
<1> SUFFICES ASSUME DetectorInit PROVE TInv
  OBVIOUS
<1>1. Past
  BY DEF DetectorInit, Past
<1>2. QueueAdjacent
  BY DEF DetectorInit, QueueAdjacent
<1>3. PairsAdjacent
  BY DEF DetectorInit, PairsAdjacent, Adjacent
<1> QED BY <1>1, <1>2, <1>3 DEF TInv

\* A new tick is later than all that was stamped before: it lies between none of
\* them.
LEMMA NewTickOutside ==
    ASSUME clock \in Nat, ticks' = ticks \cup {clock},
           NEW a \in Nat, NEW b \in Nat, a <= clock, b <= clock, Adjacent(a, b)
    PROVE  Adjacent(a, b)'
BY DEF Adjacent

LEMMA StampKeepsAdjacent ==
    ASSUME DInv, TInv, NEW w \in Which, Stamp(w)
    PROVE  TInv'
<1>0. /\ stamp[w] = None /\ stamp' = [stamp EXCEPT ![w] = clock] /\ ticks' = ticks \cup {clock}
      /\ UNCHANGED <<clock, due, msgs, state, heard, pair>>
  BY DEF Stamp, detector
<1>1. Past'
  BY <1>0, DetectorFields DEF TInv, Past
<1>2. \A a, b \in Nat : a <= clock /\ b <= clock /\ Adjacent(a, b) => Adjacent(a, b)'
  BY <1>0, DetectorFields, NewTickOutside
<1>3. PairsAdjacent'
  <2>1. /\ pair[REF] \in Nat /\ pair[OSC] \in Nat
        /\ pair[REF] <= clock /\ pair[OSC] <= clock
    BY DetectorFields DEF TInv, Past
  <2>2. Adjacent(pair[REF], pair[OSC])'
    <3>1. PICK a \in Nat, b \in Nat : a = pair[REF] /\ b = pair[OSC]
      BY <2>1
    <3>2. Adjacent(a, b)'
      BY <1>2, <2>1, <3>1 DEF TInv, PairsAdjacent
    <3> QED BY <1>0, <3>1, <3>2 DEF Adjacent
  <2> QED BY <2>2 DEF PairsAdjacent
<1>4. \A m : AllSeen(m) => AllSeen(m)'
  <2> SUFFICES ASSUME NEW m, AllSeen(m), NEW x \in ticks'
               PROVE  x <= m.stamp + Jitter \/ \E v \in Which : stamp'[v] = x
    BY DEF AllSeen
  <2>1. CASE x = clock
    BY <1>0, <2>1, DetectorFields
  <2>2. CASE x # clock
    <3>1. x \in ticks /\ x \in Nat /\ None \notin Nat
      BY <1>0, <2>2, DetectorFields DEF None
    <3>2. CASE \E v \in Which : stamp[v] = x
      <4>1. PICK v \in Which : stamp[v] = x
        BY <3>2
      <4>2. v # w /\ stamp'[v] = stamp[v]
        BY <1>0, <3>1, <4>1, DetectorFields
      <4> QED BY <4>1, <4>2
    <3> QED BY <3>1, <3>2 DEF AllSeen
  <2> QED BY <2>1, <2>2
<1>5. \A m, n \in [which : Which, stamp : Nat] :
         m.stamp <= clock /\ n.stamp <= clock /\ Beside(m, n) => Beside(m, n)'
  BY <1>2 DEF Beside
<1>6. Waiting' = Waiting /\ Waiting.stamp <= clock
  BY <1>0, DetectorFields DEF Waiting, TInv, Past
<1>7. QueueAdjacent'
  <2>1. msgs # << >> => AllSeen(msgs[Len(msgs)])'
    BY <1>0, <1>4 DEF TInv, QueueAdjacent, AllSeen
  <2>2. ASSUME NEW i \in 1 .. Len(msgs) - 1 PROVE Beside(msgs[i], msgs[i + 1])'
    <3>1. /\ i \in 1 .. Len(msgs) /\ i + 1 \in 1 .. Len(msgs)
      BY DetectorFields
    <3>2. PICK m, n \in [which : Which, stamp : Nat] :
             /\ m = msgs[i] /\ n = msgs[i + 1] /\ m.stamp <= clock /\ n.stamp <= clock
      BY <3>1, DetectorFields DEF TInv, Past
    <3>3. Beside(m, n)'
      BY <1>5, <3>2 DEF TInv, QueueAdjacent
    <3> QED BY <1>0, <3>2, <3>3 DEF Beside, Adjacent
  <2>3. ASSUME state # "IDLE", msgs # << >> PROVE Beside(Waiting, msgs[1])'
    <3>1. 1 \in 1 .. Len(msgs)
      BY <2>3, DetectorFields
    <3>2. PICK m, n \in [which : Which, stamp : Nat] :
             /\ m = Waiting /\ n = msgs[1] /\ m.stamp <= clock /\ n.stamp <= clock
      BY <1>6, <3>1, DetectorFields DEF TInv, Past
    <3>3. Beside(m, n)'
      BY <1>5, <2>3, <3>2 DEF TInv, QueueAdjacent
    <3> QED BY <1>0, <1>6, <3>2, <3>3 DEF Beside, Adjacent
  <2>4. state # "IDLE" /\ msgs = << >> => AllSeen(Waiting)'
    BY <1>4, <1>6 DEF TInv, QueueAdjacent, AllSeen
  <2> QED BY <1>0, <2>1, <2>2, <2>3, <2>4 DEF QueueAdjacent
<1> QED BY <1>1, <1>3, <1>7 DEF TInv

\* The clock only grows.
LEMMA ClockKeepsAdjacent ==
    ASSUME DInv, TInv, ClockTicks
    PROVE  TInv'
<1>0. clock' = clock + 1 /\ UNCHANGED <<due, stamp, msgs, ticks, state, heard, pair>>
  BY DEF ClockTicks, detector
<1>1. Past'
  <2>1. \A x \in Nat : x <= clock => x <= clock + 1
    BY DetectorFields
  <2>2. \A i \in 1 .. Len(msgs) : msgs[i].stamp <= clock'
    BY <1>0, <2>1, DetectorFields DEF TInv, Past
  <2>3. \A x \in ticks : x <= clock'
    BY <1>0, <2>1, DetectorFields DEF TInv, Past
  <2>4. \A v \in Which : heard[v] <= clock' /\ pair[v] <= clock'
    <3> TAKE v \in Which
    <3>1. heard[v] \in Nat /\ pair[v] \in Nat
      BY DetectorFields
    <3> QED BY <1>0, <2>1, <3>1 DEF TInv, Past
  <2> QED BY <1>0, <2>2, <2>3, <2>4 DEF Past
<1>2. QueueAdjacent'
  BY <1>0 DEF TInv, QueueAdjacent, AllSeen, Beside, Adjacent, Waiting
<1>3. PairsAdjacent'
  BY <1>0 DEF TInv, PairsAdjacent, Adjacent
<1> QED BY <1>1, <1>2, <1>3 DEF TInv

\* A message is enqueued behind one of an adjacent tick: what lies between the
\* two is held by the source of the first, or before it in the queue.
LEMMA AdjacentNext ==
    ASSUME DInv, TInv, NEW w \in Which, stamp[w] # None, NEW m \in [which : Which, stamp : Nat],
           Recent(m), AllSeen(m)
    PROVE  Beside(m, [which |-> w, stamp |-> stamp[w]])
<1> SUFFICES ASSUME m.which # w PROVE Adjacent(m.stamp, stamp[w])
  BY DEF Beside
<1> DEFINE u == m.which
<1>0. u \in Which /\ u # w /\ m.stamp \in Nat
  OBVIOUS
<1>1. /\ u \in Which /\ \A v \in Which : v = u \/ v = w
      /\ m.stamp \in Nat /\ stamp[w] \in Nat /\ due[u] \in Nat /\ due[w] \in Nat
      /\ clock \in Nat /\ Jitter \in Nat
  <2> HIDE DEF u
  <2>1. \A v \in Which : v = u \/ v = w
    BY <1>0 DEF Which
  <2>2. stamp[w] \in Nat /\ due[u] \in Nat /\ due[w] \in Nat
    BY <1>0, DetectorFields
  <2> QED BY <1>0, <2>1, <2>2, DetectorFields
<1>2. /\ due[w] <= stamp[w] /\ stamp[w] <= clock /\ clock <= due[u] + Jitter
      /\ \A v \in Which : stamp[v] # None => due[v] <= stamp[v]
  BY <1>1, DetectorFields DEF DInv, OnSchedule
<1>3. m.stamp <= due[w] + Jitter
  BY DetectorFields DEF Recent
<1> SUFFICES ASSUME NEW x \in ticks,
                    (m.stamp < x /\ x < stamp[w]) \/ (stamp[w] < x /\ x < m.stamp)
             PROVE  \/ m.stamp - Jitter <= x /\ x <= m.stamp + Jitter
                    \/ stamp[w] - Jitter <= x /\ x <= stamp[w] + Jitter
  BY DEF Adjacent
<1>4. x \in Nat /\ None \notin Nat
  BY DetectorFields DEF None
<1>5. CASE stamp[w] < x /\ x < m.stamp
  BY <1>1, <1>2, <1>3, <1>4, <1>5
<1>6. CASE m.stamp < x /\ x < stamp[w]
  <2>1. CASE x <= m.stamp + Jitter
    BY <1>1, <1>4, <1>6, <2>1
  <2>2. CASE \E v \in Which : stamp[v] = x
    <3>1. stamp[u] = x /\ stamp[u] # None
      BY <1>1, <1>4, <1>6, <2>2
    <3>2. due[u] <= x
      BY <1>1, <1>2, <3>1
    <3> QED BY <1>1, <1>2, <1>4, <1>6, <3>2
  <2> QED BY <2>1, <2>2 DEF AllSeen
<1> QED BY <1>5, <1>6

\* What is enqueued is of a tick adjacent to that of the message before it.
LEMMA EnqueueKeepsAdjacent ==
    ASSUME DInv, TInv, NEW w \in Which, EnqueueTick(w)
    PROVE  TInv'
<1>n. PICK n : n = [which |-> w, stamp |-> stamp[w]]
  OBVIOUS
<1>1. /\ stamp[w] # None /\ msgs' = Append(msgs, n)
      /\ stamp' = [stamp EXCEPT ![w] = None]
      /\ UNCHANGED <<clock, ticks, state, heard, pair>>
  BY <1>n DEF EnqueueTick, detector
<1>2. stamp[w] \in Nat /\ n \in [which : Which, stamp : Nat]
  BY <1>1, <1>n, DetectorFields
<1>3. due[w] <= stamp[w] /\ stamp[w] <= clock /\ clock <= due[w] + Jitter
  BY <1>1, DetectorFields DEF DInv, OnSchedule
<1>4. /\ Len(msgs') = Len(msgs) + 1 /\ msgs'[Len(msgs) + 1] = n
      /\ \A i \in 1 .. Len(msgs) : msgs'[i] = msgs[i]
  <2>1. PICK S : S = [which : Which, stamp : Nat] /\ msgs \in Seq(S) /\ n \in S
    BY <1>2, DetectorFields
  <2>2. /\ Len(Append(msgs, n)) = Len(msgs) + 1 /\ Append(msgs, n)[Len(msgs) + 1] = n
        /\ \A i \in 1 .. Len(msgs) : Append(msgs, n)[i] = msgs[i]
    <3>1. msgs \in Seq(S) /\ n \in S
      BY <2>1
    <3> QED BY <3>1
  <2> QED BY <1>1, <2>2, Zenon
<1>5. Len(msgs) \in Nat /\ Waiting' = Waiting
  BY <1>1, DetectorFields DEF Waiting
<1>6. Past'
  <2>1. \A i \in 1 .. Len(msgs') : msgs'[i].stamp <= clock
    <3> TAKE i \in 1 .. Len(msgs')
    <3>1. CASE i = Len(msgs) + 1
      BY <1>3, <1>4, <1>n, <3>1
    <3>2. CASE i # Len(msgs) + 1
      <4>1. i \in 1 .. Len(msgs)
        BY <1>4, <1>5, <3>2
      <4> QED BY <1>4, <4>1 DEF TInv, Past
    <3> QED BY <3>1, <3>2
  <2> QED BY <1>1, <2>1 DEF TInv, Past
<1>7. \A m \in [which : Which, stamp : Nat] : Recent(m) /\ AllSeen(m) => Beside(m, n)
  BY <1>1, <1>n, AdjacentNext
<1>8. AllSeen(n)'
  <2>1. \A x \in ticks : x \in Nat /\ x <= clock
    BY DetectorFields DEF TInv, Past
  <2>2. due[w] \in Nat /\ clock \in Nat /\ Jitter \in Nat
    BY DetectorFields
  <2>3. \A x \in ticks : x <= n.stamp + Jitter
    BY <1>2, <1>3, <1>n, <2>1, <2>2
  <2> QED BY <1>1, <2>3 DEF AllSeen
<1>9. \A a, b : Beside(a, b) => Beside(a, b)'
  BY <1>1 DEF Beside, Adjacent
<1>10. QueueAdjacent'
  <2>1. msgs' # << >> /\ msgs'[Len(msgs')] = n
    BY <1>4, <1>5
  <2>2. AllSeen(msgs[Len(msgs)])'
    BY <1>8, <2>1 DEF AllSeen
  <2>3. ASSUME NEW i \in 1 .. Len(msgs') - 1 PROVE Beside(msgs'[i], msgs'[i + 1])
    <3>1. i \in 1 .. Len(msgs) /\ msgs'[i] = msgs[i]
      BY <1>4, <1>5
    <3>2. CASE i = Len(msgs)
      <4>1. msgs # << >> /\ msgs[i] \in [which : Which, stamp : Nat]
        BY <3>1, DetectorFields
      <4>2. Recent(msgs[i]) /\ AllSeen(msgs[i])
        BY <3>2, <4>1 DEF DInv, QueueNear, TInv, QueueAdjacent
      <4> QED BY <1>4, <1>7, <3>1, <3>2, <4>1, <4>2
    <3>3. CASE i # Len(msgs)
      <4>1. i \in 1 .. Len(msgs) - 1 /\ i + 1 \in 1 .. Len(msgs)
        BY <1>5, <3>1, <3>3
      <4> QED BY <1>4, <3>1, <4>1 DEF TInv, QueueAdjacent
    <3> QED BY <3>2, <3>3
  <2>4. ASSUME state # "IDLE" PROVE Beside(Waiting, msgs'[1])
    <3>1. CASE msgs = << >>
      <4>1. Waiting \in [which : Which, stamp : Nat] /\ Recent(Waiting) /\ AllSeen(Waiting)
        BY <2>4, <3>1, DetectorFields DEF DInv, QueueNear, TInv, QueueAdjacent
      <4>2. msgs'[1] = n
        BY <1>4, <3>1
      <4> QED BY <1>7, <4>1, <4>2
    <3>2. CASE msgs # << >>
      <4>1. 1 \in 1 .. Len(msgs)
        BY <3>2, DetectorFields
      <4> QED BY <1>4, <2>4, <3>2, <4>1 DEF TInv, QueueAdjacent
    <3> QED BY <3>1, <3>2
  <2>5. \A i \in 1 .. Len(msgs') - 1 : Beside(msgs[i], msgs[i + 1])'
    BY <1>1, <2>3 DEF Beside, Adjacent
  <2>6. state' # "IDLE" => Beside(Waiting, msgs[1])'
    BY <1>1, <1>5, <2>4 DEF Beside, Adjacent
  <2> QED BY <2>1, <2>2, <2>5, <2>6 DEF QueueAdjacent
<1>11. PairsAdjacent'
  BY <1>1 DEF TInv, PairsAdjacent, Adjacent
<1> QED BY <1>6, <1>10, <1>11 DEF TInv

\* The message handled is of a tick adjacent to that of the one it is compared
\* with.
LEMMA HandleKeepsAdjacent ==
    ASSUME DInv, TInv, Handle
    PROVE  TInv'
<1> DEFINE m == Head(msgs)
           w == m.which
<1>0. msgs # << >> /\ msgs' = Tail(msgs) /\ UNCHANGED <<clock, due, stamp, ticks>>
  BY DEF Handle
<1>1. /\ m \in [which : Which, stamp : Nat] /\ m = msgs[1] /\ w \in Which /\ m.stamp \in Nat
      /\ Len(msgs) \in Nat /\ Len(msgs) >= 1
      /\ Len(msgs') = Len(msgs) - 1 /\ msgs' \in Seq([which : Which, stamp : Nat])
      /\ \A i \in 1 .. Len(msgs) - 1 : msgs'[i] = msgs[i + 1]
  <2>1. /\ m = msgs[1] /\ m \in [which : Which, stamp : Nat]
        /\ Len(msgs) \in Nat /\ Len(msgs) >= 1
        /\ Len(msgs') = Len(msgs) - 1 /\ msgs' \in Seq([which : Which, stamp : Nat])
        /\ \A i \in 1 .. Len(msgs) - 1 : msgs'[i] = msgs[i + 1]
    BY <1>0, DetectorFields, Taken
  <2> HIDE DEF m
  <2> QED BY <2>1
<1>2. /\ heard' = [heard EXCEPT ![w] = m.stamp]
      /\ IF Compares(w)
         THEN state' = "IDLE" /\ pair' = heard'
         ELSE state' = (IF w = REF THEN "UP" ELSE "DOWN") /\ UNCHANGED pair
  BY DEF Handle
<1> HIDE DEF m, w
<1>3. /\ heard' \in [Which -> Nat] /\ heard'[w] = m.stamp
      /\ \A v \in Which \ {w} : heard'[v] = heard[v]
  BY <1>1, <1>2, DetectorFields
<1>4. Past'
  <2>1. \A v \in Which : heard'[v] <= clock
    <3>1. m.stamp <= clock
      BY <1>1 DEF TInv, Past
    <3> QED BY <1>3, <3>1 DEF TInv, Past
  <2>2. \A v \in Which : pair'[v] <= clock
    BY <1>2, <2>1 DEF TInv, Past
  <2>3. \A i \in 1 .. Len(msgs') : msgs'[i].stamp <= clock
    <3> TAKE i \in 1 .. Len(msgs')
    <3>1. i \in 1 .. Len(msgs) - 1 /\ i + 1 \in 1 .. Len(msgs)
      BY <1>1
    <3> QED BY <1>1, <3>1 DEF TInv, Past
  <2> QED BY <1>0, <2>1, <2>2, <2>3 DEF TInv, Past
<1>5. \A a, b : /\ Beside(a, b) => Beside(a, b)'
                /\ Adjacent(a, b) => Adjacent(a, b)'
                /\ AllSeen(a) => AllSeen(a)'
  BY <1>0 DEF Beside, Adjacent, AllSeen
<1>6. PairsAdjacent'
  <2>1. CASE Compares(w)
    <3>1. state # "IDLE" /\ Beside(Waiting, m)
      BY <1>0, <1>1, <2>1 DEF Compares, TInv, QueueAdjacent
    <3>2. CASE w = REF
      <4>1. state = "DOWN" /\ heard'[OSC] = heard[OSC] /\ heard'[REF] = m.stamp
        BY <1>3, <2>1, <3>2, DetectorFields DEF Compares
      <4>2. Adjacent(heard[OSC], m.stamp)
        BY <3>1, <3>2, <4>1, DetectorFields DEF Beside, Waiting, w
      <4>3. Adjacent(m.stamp, heard[OSC])
        BY <4>2, AdjacentSymmetric
      <4> QED BY <1>0, <1>2, <2>1, <4>1, <4>3 DEF PairsAdjacent, Adjacent
    <3>3. CASE w = OSC
      <4>1. state = "UP" /\ heard'[REF] = heard[REF] /\ heard'[OSC] = m.stamp
        BY <1>3, <2>1, <3>3, DetectorFields DEF Compares
      <4>2. Adjacent(heard[REF], m.stamp)
        BY <3>1, <3>3, <4>1, DetectorFields DEF Beside, Waiting, w
      <4> QED BY <1>0, <1>2, <2>1, <4>1, <4>2 DEF PairsAdjacent, Adjacent
    <3> QED BY <1>1, <3>2, <3>3, DetectorFields
  <2>2. CASE ~ Compares(w)
    BY <1>0, <1>2, <2>2 DEF TInv, PairsAdjacent, Adjacent
  <2> QED BY <2>1, <2>2
<1>7. QueueAdjacent'
  <2>1. state' # "IDLE" => Waiting' = m
    <3>1. state' # "IDLE" => Waiting' = [which |-> w, stamp |-> m.stamp]
      BY <1>1, <1>2, <1>3, DetectorFields DEF Waiting
    <3>2. [which |-> w, stamp |-> m.stamp] = m
      BY <1>1 DEF w
    <3> QED BY <3>1, <3>2
  <2>2. CASE msgs' = << >>
    <3>1. Len(msgs) = 1
      BY <1>1, <2>2
    <3>2. AllSeen(m)
      BY <1>0, <1>1, <3>1 DEF TInv, QueueAdjacent
    <3>3. state' # "IDLE" => AllSeen(Waiting)'
      BY <2>1, <3>2, <1>0 DEF AllSeen
    <3>4. \A i \in 1 .. Len(msgs') - 1 : FALSE
      BY <1>1, <3>1
    <3> QED BY <2>2, <3>3, <3>4 DEF QueueAdjacent
  <2>3. CASE msgs' # << >>
    <3>1. Len(msgs') >= 1 /\ Len(msgs') \in Nat
      BY <1>1, <2>3
    <3>2. msgs'[Len(msgs')] = msgs[Len(msgs)] /\ msgs'[1] = msgs[2] /\ 1 \in 1 .. Len(msgs) - 1
      BY <1>1, <3>1
    <3>3. AllSeen(msgs'[Len(msgs')]) /\ Beside(m, msgs'[1])
      BY <1>0, <1>1, <3>2 DEF TInv, QueueAdjacent
    <3>4. ASSUME NEW i \in 1 .. Len(msgs') - 1 PROVE Beside(msgs'[i], msgs'[i + 1])
      <4>1. /\ i \in 1 .. Len(msgs) - 1 /\ i + 1 \in 1 .. Len(msgs) - 1
            /\ msgs'[i] = msgs[i + 1] /\ msgs'[i + 1] = msgs[(i + 1) + 1]
        BY <1>1
      <4> QED BY <4>1 DEF TInv, QueueAdjacent
    <3>5. AllSeen(msgs[Len(msgs)])'
      BY <1>0, <3>3 DEF AllSeen
    <3>6. \A i \in 1 .. Len(msgs') - 1 : Beside(msgs[i], msgs[i + 1])'
      BY <1>0, <3>4 DEF Beside, Adjacent
    <3>7. state' # "IDLE" => Beside(Waiting, msgs[1])'
      BY <1>0, <2>1, <3>3 DEF Beside, Adjacent
    <3> QED BY <2>3, <3>5, <3>6, <3>7 DEF QueueAdjacent
  <2> QED BY <2>2, <2>3
<1> QED BY <1>4, <1>6, <1>7 DEF TInv

\* Every step keeps the ticks compared adjacent.
LEMMA TInvNext == DInv /\ TInv /\ [DetectorNext]_detectorVars => TInv'
<1> SUFFICES ASSUME DInv, TInv, [DetectorNext]_detectorVars PROVE TInv'
  OBVIOUS
<1>1. CASE UNCHANGED detectorVars
  BY <1>1 DEF detectorVars, detector, TInv, Past, QueueAdjacent, AllSeen, Beside, Adjacent,
              Waiting, PairsAdjacent
<1> QED BY <1>1, StampKeepsAdjacent, EnqueueKeepsAdjacent, ClockKeepsAdjacent,
           HandleKeepsAdjacent DEF DetectorNext

\* The two ticks of a reading are adjacent but for ticks within the jitter of one
\* of them, for any number of ticks, whatever order the sources are enqueued in
\* and however osc_interval is steered (dpll_sim.cc:235-268).
THEOREM DetectorPairsAdjacent == DetectorSpec => []PairsAdjacent
<1>1. TInv => PairsAdjacent
  BY DEF TInv
<1>2. DetectorInit => DInv /\ TInv
  BY DInvInit, TInvInit
<1>3. DInv /\ TInv /\ [DetectorNext]_detectorVars => (DInv /\ TInv)'
  BY DInvNext, TInvNext
<1> QED BY <1>1, <1>2, <1>3, PTL DEF DetectorSpec
-----------------------------------------------------------------------------
(* The history of readings and the filter of outliers                      *)

\* An index that runs past the end of the ring goes on at its beginning.
LEMMA RingIndex ==
    ASSUME NEW x \in 0 .. 2 * hist_size - 1
    PROVE  x % hist_size = IF x < hist_size THEN x ELSE x - hist_size
<1>0. hist_size \in Nat \ {0}
  BY FilterAssumption
<1>1. CASE x < hist_size
  <2>1. x \in 0 .. hist_size - 1 /\ x = 0 * hist_size + x /\ x \in Int
    BY <1>0, <1>1
  <2> QED BY <1>0, <1>1, <2>1, WordOf
<1>2. CASE ~ (x < hist_size)
  <2>1. /\ x - hist_size \in 0 .. hist_size - 1 /\ x \in Int
        /\ x - hist_size = (-1) * hist_size + x
    BY <1>0, <1>2
  <2> QED BY <1>0, <1>2, <2>1, WordOf
<1> QED BY <1>1, <1>2

\* The slot i places after slot o.
SlotAfter(o, i) == IF o + i < hist_size THEN o + i ELSE o + i - hist_size

\* The indices of the ring.
LEMMA RingSlots ==
    ASSUME NEW o \in Slots, NEW i \in Slots
    PROVE  SlotAfter(o, i) \in Slots /\ (o + i) % hist_size = SlotAfter(o, i)
<1>0. hist_size \in Nat \ {0} /\ o \in 0 .. hist_size - 1 /\ i \in 0 .. hist_size - 1
  BY FilterAssumption DEF Slots
<1>1. o + i \in 0 .. 2 * hist_size - 1
  BY <1>0
<1>2. SlotAfter(o, i) \in Slots
  BY <1>0 DEF SlotAfter, Slots
<1>3. PICK x \in 0 .. 2 * hist_size - 1 : x = o + i
  BY <1>1
<1>4. x % hist_size = IF x < hist_size THEN x ELSE x - hist_size
  BY RingIndex
<1>5. SlotAfter(o, i) = IF x < hist_size THEN x ELSE x - hist_size
  BY <1>0, <1>3 DEF SlotAfter
<1>6. (o + i) % hist_size = x % hist_size
  BY <1>3, Zenon
<1> QED BY <1>2, <1>4, <1>5, <1>6, Zenon

\* When the ring starts one slot later, each reading but the newest is one place
\* nearer its start, and the newest is where the oldest was.
LEMMA RingAdvances ==
    ASSUME NEW o \in Slots, NEW n, n = IF o + 1 >= hist_size THEN 0 ELSE o + 1
    PROVE  /\ n \in Slots /\ SlotAfter(n, hist_size - 1) = o
           /\ \A i \in 0 .. hist_size - 2 : SlotAfter(n, i) = SlotAfter(o, i + 1)
                                           /\ SlotAfter(o, i + 1) # o
<1>0. hist_size \in Nat \ {0} /\ o \in 0 .. hist_size - 1
  BY FilterAssumption DEF Slots
<1>1. n \in Slots /\ SlotAfter(n, hist_size - 1) = o
  BY <1>0 DEF SlotAfter, Slots
<1>2. ASSUME NEW i \in 0 .. hist_size - 2
      PROVE  SlotAfter(n, i) = SlotAfter(o, i + 1) /\ SlotAfter(o, i + 1) # o
  BY <1>0 DEF SlotAfter
<1> QED BY <1>1, <1>2

\* The slot of the i-th oldest reading.
SlotOf(i) == SlotAfter(OldestSlot, i)

\* The ring is filled from the first slot on, and a rejected reading changes it
\* in no way.
RInv ==
    /\ FilterTypeOK
    /\ got < hist_size => pos = got
    /\ got = Len(window)
    /\ \A i \in 1 .. got : history[SlotOf(i - 1)] = window[i]
    /\ skipped => Outlier(last_err)

\* Reading the ring in order.
LEMMA ChronologicalSlots ==
    ASSUME FilterTypeOK
    PROVE  /\ OldestSlot \in Slots
           /\ \A i \in Slots : SlotOf(i) \in Slots /\ Chronological[i] = history[SlotOf(i)]
<1>1. OldestSlot \in Slots
  BY FilterAssumption DEF FilterTypeOK, Slots, OldestSlot
<1>2. \A i \in Slots : Chronological[i] = history[(OldestSlot + i) % hist_size]
  BY DEF Chronological
<1> QED BY <1>1, <1>2, RingSlots DEF SlotOf

\* An empty history.
LEMMA RInvInit == FilterInit => RInv
<1> SUFFICES ASSUME FilterInit PROVE RInv
  OBVIOUS
<1>1. /\ history \in [Slots -> Readings \cup {0}] /\ pos \in Slots /\ got \in 0 .. hist_size
      /\ last_err \in Readings \cup {0} /\ skipped = FALSE /\ window \in Seq(Readings)
      /\ got = 0 /\ pos = 0 /\ window = << >>
  BY FilterAssumption DEF FilterInit, Slots
<1> QED BY <1>1 DEF RInv, FilterTypeOK

\* A reading added takes the oldest one's place.
LEMMA RInvAdd ==
    ASSUME RInv, NEW pe \in Readings, AddReading(pe), last_err' = pe, skipped' = FALSE
    PROVE  RInv'
<1>0. /\ hist_size \in Nat \ {0} /\ history \in [Slots -> Readings \cup {0}]
      /\ pos \in Slots /\ got \in 0 .. hist_size /\ window \in Seq(Readings)
      /\ got = Len(window) /\ (got < hist_size => pos = got)
      /\ \A i \in 1 .. got : history[SlotOf(i - 1)] = window[i]
  BY FilterAssumption DEF RInv, FilterTypeOK
<1>1. /\ history' = [history EXCEPT ![pos] = pe] /\ pos' = NextPos
      /\ got' = IF got < hist_size THEN got + 1 ELSE got
  BY DEF AddReading
<1>2. CASE got < hist_size
  <2>1. /\ pos = got /\ got' = got + 1 /\ pos' = IF got + 1 >= hist_size THEN 0 ELSE got + 1
        /\ window' = Append(window, pe)
    BY <1>0, <1>1, <1>2 DEF NextPos, AddReading
  <2>2. Len(window') = got + 1 /\ window' \in Seq(Readings) /\ window'[got + 1] = pe
        /\ \A i \in 1 .. got : window'[i] = window[i]
    BY <1>0, <2>1
  <2>3. OldestSlot = 0 /\ OldestSlot' = 0
    BY <1>0, <1>2, <2>1 DEF OldestSlot
  <2>4. \A i \in 0 .. got : SlotOf(i) = i /\ SlotOf(i)' = i
    BY <1>0, <1>2, <2>3 DEF SlotOf, SlotAfter
  <2>5. ASSUME NEW i \in 1 .. got + 1 PROVE history'[i - 1] = window'[i]
    <3>1. CASE i = got + 1
      BY <1>0, <1>1, <2>1, <2>2, <3>1
    <3>2. CASE i # got + 1
      <4>1. i \in 1 .. got /\ i - 1 \in 0 .. got /\ i - 1 # pos /\ i - 1 \in Slots
        BY <1>0, <1>2, <2>1, <3>2 DEF Slots
      <4>2. history[i - 1] = window[i]
        BY <1>0, <2>4, <4>1
      <4> QED BY <1>0, <1>1, <2>2, <4>1, <4>2
    <3> QED BY <3>1, <3>2
  <2>6. \A i \in 1 .. got' : (history[SlotOf(i - 1)] = window[i])'
    <3>1. \A i \in 1 .. got + 1 : i - 1 \in 0 .. got
      BY <1>0
    <3> QED BY <2>1, <2>4, <2>5, <3>1
  <2>7. FilterTypeOK'
    <3>1. pos' \in Slots /\ got' \in 0 .. hist_size
      BY <1>0, <1>2, <2>1 DEF Slots
    <3> QED BY <1>0, <1>1, <2>2, <3>1 DEF FilterTypeOK
  <2>8. (got < hist_size => pos = got)'
    BY <1>0, <1>2, <2>1
  <2> QED BY <2>1, <2>2, <2>6, <2>7, <2>8 DEF RInv
<1>3. CASE ~ (got < hist_size)
  <2>1. /\ got = hist_size /\ got' = hist_size /\ window' = Append(Tail(window), pe)
        /\ pos' = IF pos + 1 >= hist_size THEN 0 ELSE pos + 1
    BY <1>0, <1>1, <1>3 DEF NextPos, AddReading
  <2>2. /\ Len(window') = hist_size /\ window' \in Seq(Readings) /\ window'[hist_size] = pe
        /\ \A i \in 1 .. hist_size - 1 : window'[i] = window[i + 1]
    <3>1. PICK w \in Seq(Readings) :
            /\ w = Tail(window) /\ Len(w) = hist_size - 1
            /\ \A i \in 1 .. hist_size - 1 : w[i] = window[i + 1]
      <4>1. window # << >>
        BY <1>0, <2>1
      <4>2. /\ Tail(window) \in Seq(Readings) /\ Len(Tail(window)) = Len(window) - 1
            /\ \A i \in 1 .. Len(window) - 1 : Tail(window)[i] = window[i + 1]
        BY <1>0, <4>1, Taken, Zenon
      <4>3. Len(window) = hist_size
        BY <1>0, <2>1
      <4> QED BY <4>2, <4>3, Zenon
    <3>2. /\ Append(w, pe) \in Seq(Readings) /\ Len(Append(w, pe)) = hist_size
          /\ Append(w, pe)[hist_size] = pe
          /\ \A i \in 1 .. hist_size - 1 : Append(w, pe)[i] = w[i]
      BY <1>0, <3>1
    <3> QED BY <2>1, <3>1, <3>2
  <2>3. OldestSlot = pos /\ OldestSlot' = pos'
    BY <1>0, <2>1 DEF OldestSlot
  <2>4. /\ \A i \in 0 .. hist_size - 2 : SlotOf(i)' = SlotOf(i + 1) /\ SlotOf(i + 1) # pos
        /\ SlotOf(hist_size - 1)' = pos
    BY <1>0, <2>1, <2>3, RingAdvances DEF SlotOf
  <2>5. ASSUME NEW i \in 1 .. hist_size PROVE history'[SlotOf(i - 1)'] = window'[i]
    <3>1. CASE i = hist_size
      BY <1>0, <1>1, <2>2, <2>4, <3>1
    <3>2. CASE i # hist_size
      <4>1. i - 1 \in 0 .. hist_size - 2 /\ i + 1 \in 1 .. hist_size /\ (i - 1) + 1 = i
            /\ (i + 1) - 1 = i /\ i \in 1 .. hist_size - 1 /\ i \in Slots
        BY <1>0, <3>2 DEF Slots
      <4>2. SlotOf(i - 1)' = SlotOf(i) /\ SlotOf(i) # pos
        BY <2>4, <4>1
      <4>3. history[SlotOf(i)] = window[i + 1]
        BY <1>0, <2>1, <4>1
      <4>4. SlotOf(i) \in Slots
        BY <4>1, ChronologicalSlots DEF RInv
      <4> QED BY <1>0, <1>1, <2>2, <4>1, <4>2, <4>3, <4>4
    <3> QED BY <3>1, <3>2
  <2>6. FilterTypeOK'
    <3>1. pos' \in Slots /\ got' \in 0 .. hist_size
      BY <1>0, <2>1 DEF Slots
    <3> QED BY <1>0, <1>1, <2>2, <3>1 DEF FilterTypeOK
  <2>7. \A i \in 1 .. got' : (history[SlotOf(i - 1)] = window[i])'
    BY <2>1, <2>5
  <2>8. (got < hist_size => pos = got)'
    BY <1>0, <2>1
  <2> QED BY <2>1, <2>2, <2>6, <2>7, <2>8 DEF RInv
<1> QED BY <1>2, <1>3

\* A reading is added or leaves no trace.
LEMMA RInvNext == RInv /\ [FilterNext]_filterVars => RInv'
<1> SUFFICES ASSUME RInv, [FilterNext]_filterVars PROVE RInv'
  OBVIOUS
<1>1. ASSUME UNCHANGED <<history, pos, got, window>>,
             last_err' \in Readings \cup {0}, skipped' \in BOOLEAN,
             skipped' => Outlier(last_err')
      PROVE  RInv'
  <2>1. \A pe : Outlier(pe)' <=> Outlier(pe)
    BY <1>1 DEF Outlier, Deviation, Total
  <2>2. (skipped => Outlier(last_err))'
    BY <1>1 DEF Outlier, Deviation, Total
  <2>3. FilterTypeOK'
    BY <1>1 DEF RInv, FilterTypeOK
  <2> QED BY <1>1, <2>2, <2>3 DEF RInv, SlotOf, OldestSlot
<1>2. ASSUME NEW pe \in Readings, Reading(pe) PROVE RInv'
  <2>0. Outlier(pe) = TRUE \/ Outlier(pe) = FALSE
    BY DEF Outlier
  <2>1. CASE Outlier(pe) = TRUE
    <3>1. UNCHANGED <<history, pos, got, window>> /\ last_err' = pe /\ skipped' = TRUE
      BY <1>2, <2>1 DEF Reading
    <3>2. Outlier(last_err')
      BY <2>1, <3>1
    <3> QED BY <1>1, <3>1, <3>2
  <2>2. CASE Outlier(pe) = FALSE
    <3>1. AddReading(pe) /\ last_err' = pe /\ skipped' = FALSE
      BY <1>2, <2>2 DEF Reading
    <3> QED BY <3>1, RInvAdd
  <2> QED BY <2>0, <2>1, <2>2
<1>3. CASE UNCHANGED filterVars
  BY <1>1, <1>3 DEF filterVars, RInv, FilterTypeOK
<1> QED BY <1>2, <1>3 DEF FilterNext

\* The loop of dpll_sim2 adds readings as the filter does, or none.
LEMMA LoopFilters == BandwidthSpec => []RInv
<1>1. BandwidthInit => RInv
  BY RInvInit DEF BandwidthInit
<1>2. [BandwidthNext]_allVars => [FilterNext]_filterVars
  <2> SUFFICES ASSUME BandwidthNext PROVE [FilterNext]_filterVars
    BY DEF allVars
  <2> QED BY DEF BandwidthNext, Message, Pair, FilterNext
<1> QED BY <1>1, <1>2, RInvNext, PTL DEF BandwidthSpec

\* The bandwidth between the floor of the row that set it and the cap.
InBand == loop_bw \in MinBw(err_level) .. MAX_LOOP_BW

\* An adjustment ends in the band, wherever it started.
LEMMA AdjustInBand ==
    ASSUME NEW quiet \in BOOLEAN, NEW level \in Levels, loop_bw \in Int, Adjust(quiet, level)
    PROVE  InBand'
<1>1. PICK bw : bw = Scaled(quiet)
  OBVIOUS
<1>2. bw \in Int
  <2>1. Factor - 1 \in Int /\ Factor + 1 \in Int /\ Factor \in Nat \ {0}
    BY BandwidthAssumption
  <2>2. loop_bw * (Factor - 1) \in Int /\ loop_bw * (Factor + 1) \in Int
    BY <2>1
  <2>3. \A x \in Int : (x \div Factor) \in Int
    BY <2>1
  <2> QED BY <1>1, <2>2, <2>3 DEF Scaled
<1>3. MinBw(level) \in Nat /\ MAX_LOOP_BW \in Nat /\ MinBw(level) <= MAX_LOOP_BW
  BY BandwidthAssumption
<1>4. Bounded(bw, level) \in MinBw(level) .. MAX_LOOP_BW
  BY <1>2, <1>3 DEF Bounded
<1> QED BY <1>1, <1>4 DEF Adjust, InBand

\* Whatever readings come, each variable has its type, and the loop never runs with
\* a bandwidth below the floor that the last adjustment asked for, nor above the cap
\* (dpll_sim2.cc's calc_min_bw and MAX_LOOP_BW).
THEOREM BandwidthInBand == BandwidthSpec => [](BandwidthTypeOK /\ InBand)
<1> DEFINE BInv == BandwidthTypeOK /\ InBand
<1>1. BandwidthInit /\ RInv => BInv
  <2> SUFFICES ASSUME BandwidthInit, RInv PROVE BInv
    OBVIOUS
  <2>1. MAX_LOOP_BW \in Nat /\ 0 \in Levels /\ MinBw(0) \in Nat /\ MinBw(0) <= MAX_LOOP_BW
    BY BandwidthAssumption
  <2>2. calm \in BOOLEAN /\ FilterTypeOK
    BY Zenon DEF BandwidthInit, RInv
  <2> QED BY <2>1, <2>2 DEF BandwidthInit, BandwidthTypeOK, InBand
<1>2. BInv /\ RInv' /\ [BandwidthNext]_allVars => BInv'
  <2> SUFFICES ASSUME BInv, FilterTypeOK', [BandwidthNext]_allVars PROVE BInv'
    BY DEF RInv
  <2>1. ASSUME UNCHANGED bwVars, pd_state' \in {"IDLE", "UP", "DOWN"} PROVE BInv'
    BY <2>1 DEF bwVars, BandwidthTypeOK, InBand
  <2>2. CASE UNCHANGED allVars
    BY <2>1, <2>2 DEF allVars, BandwidthTypeOK
  <2>3. ASSUME NEW kind \in {"REF", "OSC"}, Message(kind) PROVE BInv'
    <3>1. pd_state' \in {"IDLE", "UP", "DOWN"}
      BY <2>3 DEF Message, NextState
    <3>2. ASSUME NEW quiet \in BOOLEAN, NEW level \in Levels, Adjust(quiet, level) PROVE BInv'
      <4>1. InBand'
        BY <3>2, AdjustInBand DEF BandwidthTypeOK
      <4>2. calm' \in BOOLEAN
        BY <3>2, Zenon DEF Adjust
      <4>3. err_level' = level /\ MinBw(level) \in Nat /\ MAX_LOOP_BW \in Nat
        BY <3>2, BandwidthAssumption DEF Adjust
      <4>4. loop_bw' \in 0 .. MAX_LOOP_BW
        BY <4>1, <4>3 DEF InBand
      <4> QED BY <3>1, <4>1, <4>2, <4>3, <4>4 DEF BandwidthTypeOK
    <3> QED BY <2>1, <2>3, <3>1, <3>2 DEF Message, Pair
  <2> QED BY <2>2, <2>3 DEF BandwidthNext
<1> HIDE DEF BInv
<1>3. BandwidthSpec => []BInv
  BY <1>1, <1>2, LoopFilters, PTL DEF BandwidthSpec
<1>4. BInv => BandwidthTypeOK /\ InBand
  BY DEF BInv
<1> QED BY <1>3, <1>4, PTL

\* However long the loop runs, the history holds the readings accepted last
\* (stddev.h:51-57).
THEOREM FilterRingIsWindow == BandwidthSpec => []RingIsWindow
<1>1. RInv => RingIsWindow
  <2> SUFFICES ASSUME RInv PROVE RingIsWindow
    OBVIOUS
  <2>1. got = Len(window) /\ got \in 0 .. hist_size /\ hist_size \in Nat
    BY FilterAssumption DEF RInv, FilterTypeOK
  <2>2. \A i \in 1 .. got : i - 1 \in Slots
    BY <2>1 DEF Slots
  <2> QED BY <2>1, <2>2, ChronologicalSlots DEF RInv, RingIsWindow
<1> QED BY <1>1, LoopFilters, PTL
-----------------------------------------------------------------------------
(* Sums over the history                                                   *)

\* A set that holds zero and the successor of each number in it holds every
\* number.
LEMMA Induction ==
    ASSUME NEW S, 0 \in S, \A n \in Nat : n \in S => n + 1 \in S
    PROVE  Nat \subseteq S
<1> DEFINE T == {n \in Nat : n \notin S}
<1>1. SUFFICES ASSUME T # {} PROVE FALSE
  OBVIOUS
<1>2. \E x \in T : \A y \in T : ~ (y < x)
  <2> DEFINE R == {ss \in Nat \X Nat : ss[1] < ss[2]}
  <2>1. IsWellFoundedOn(R, Nat)
    <3>1. R = OpToRel(<, Nat)
      BY Zenon DEF OpToRel
    <3> QED BY <3>1, NatLessThanWellFounded, Zenon
  <2>2. T \subseteq Nat
    OBVIOUS
  <2>3. \A x, y \in Nat : <<y, x>> \in R <=> y < x
    OBVIOUS
  <2> HIDE DEF T, R
  <2>4. \E x \in T : \A y \in T : ~ (<<y, x>> \in R)
    BY <1>1, <2>1, <2>2, WFMin, Zenon
  <2> QED BY <2>2, <2>3, <2>4
<1>3. PICK x \in T : \A y \in T : ~ (y < x)
  BY <1>2
<1>4. x \in Nat /\ x # 0 /\ x - 1 \in Nat
  OBVIOUS
<1>5. x - 1 \in S
  BY <1>3, <1>4
<1>6. x - 1 + 1 \in S
  BY <1>4, <1>5
<1> QED BY <1>4, <1>6

\* sum is the function of the sums of f's first 0 .. n values.
SumsOf(f, n, sum) == sum = [i \in 0 .. n |-> IF i = 0 THEN 0 ELSE sum[i - 1] + f[i - 1]]

\* The loop of the sums ends.
LEMMA SumsExist ==
    ASSUME NEW f
    PROVE  \A n \in Nat : \E sum : SumsOf(f, n, sum)
<1> DEFINE S == {n \in Nat : \E sum : SumsOf(f, n, sum)}
<1>1. 0 \in S
  <2>1. SumsOf(f, 0, [i \in 0 .. 0 |-> 0])
    BY DEF SumsOf
  <2> QED BY <2>1
<1>2. ASSUME NEW n \in Nat, n \in S PROVE n + 1 \in S
  <2>1. PICK sum : SumsOf(f, n, sum)
    BY <1>2
  <2> DEFINE t == [i \in 0 .. n + 1 |-> IF i = n + 1 THEN sum[n] + f[n] ELSE sum[i]]
  <2>2. SumsOf(f, n + 1, t)
    <3>1. ASSUME NEW i \in 0 .. n + 1 PROVE t[i] = IF i = 0 THEN 0 ELSE t[i - 1] + f[i - 1]
      <4>1. CASE i = n + 1
        BY <4>1
      <4>2. CASE i # n + 1
        <5>1. i \in 0 .. n
          BY <4>2
        <5>2. sum[i] = IF i = 0 THEN 0 ELSE sum[i - 1] + f[i - 1]
          BY <5>1, <2>1 DEF SumsOf
        <5> QED BY <5>1, <5>2
      <4> QED BY <4>1, <4>2
    <3> HIDE DEF t
    <3>2. t = [i \in 0 .. n + 1 |-> t[i]]
      BY DEF t
    <3> QED BY <3>1, <3>2 DEF SumsOf
  <2> QED BY <2>2
<1> HIDE DEF S
<1>3. Nat \subseteq S
  BY <1>1, <1>2, Induction
<1> QED BY <1>3 DEF S

\* Sums of more values begin with the sums of fewer.
LEMMA SumsAgree ==
    ASSUME NEW f, NEW n \in Nat, NEW m \in Nat, NEW sum, SumsOf(f, n, sum), NEW t, SumsOf(f, m, t)
    PROVE  \A i \in Nat : i <= n /\ i <= m => sum[i] = t[i]
<1> DEFINE S == {i \in Nat : i <= n /\ i <= m => sum[i] = t[i]}
<1>1. 0 \in S
  BY DEF SumsOf
<1>2. ASSUME NEW i \in Nat, i \in S PROVE i + 1 \in S
  <2> SUFFICES ASSUME i + 1 <= n, i + 1 <= m PROVE sum[i + 1] = t[i + 1]
    OBVIOUS
  <2>1. sum[i] = t[i] /\ i + 1 \in 0 .. n /\ i + 1 \in 0 .. m /\ i + 1 # 0 /\ (i + 1) - 1 = i
    BY <1>2
  <2>2. sum[i + 1] = sum[i] + f[i] /\ t[i + 1] = t[i] + f[i]
    BY <2>1 DEF SumsOf
  <2> QED BY <2>1, <2>2
<1> HIDE DEF S
<1>3. Nat \subseteq S
  BY <1>1, <1>2, Induction
<1> QED BY <1>3 DEF S

\* The sum of no values, and of one more.
LEMMA SumStep ==
    ASSUME NEW f
    PROVE  /\ SumUpTo(f, 0) = 0
           /\ \A n \in Nat : SumUpTo(f, n + 1) = SumUpTo(f, n) + f[n]
<1>1. ASSUME NEW n \in Nat PROVE \E sum : SumsOf(f, n, sum) /\ SumUpTo(f, n) = sum[n]
  <2> DEFINE sum == CHOOSE g : g = [i \in 0 .. n |-> IF i = 0 THEN 0 ELSE g[i - 1] + f[i - 1]]
  <2>1. SumUpTo(f, n) = sum[n]
    BY DEF SumUpTo
  <2>2. SumsOf(f, n, sum)
    BY SumsExist DEF SumsOf
  <2> QED BY <2>1, <2>2
<1>2. SumUpTo(f, 0) = 0
  <2>1. PICK sum : SumsOf(f, 0, sum) /\ SumUpTo(f, 0) = sum[0]
    BY <1>1
  <2> QED BY <2>1 DEF SumsOf
<1>3. ASSUME NEW n \in Nat PROVE SumUpTo(f, n + 1) = SumUpTo(f, n) + f[n]
  <2>1. PICK sum : SumsOf(f, n, sum) /\ SumUpTo(f, n) = sum[n]
    BY <1>1
  <2>2. PICK t : SumsOf(f, n + 1, t) /\ SumUpTo(f, n + 1) = t[n + 1]
    BY <1>1
  <2>3. sum[n] = t[n]
    BY <2>1, <2>2, SumsAgree
  <2>4. t[n + 1] = t[n] + f[n]
    BY <2>2 DEF SumsOf
  <2> QED BY <2>1, <2>2, <2>3, <2>4
<1> QED BY <1>2, <1>3

\* The slots among the first n that hold v.
SlotsWith(v, n) == {i \in 0 .. n - 1 : history[i] = v}

\* A sum of values that are not negative, and at least c where the history holds
\* v, is at least c for each of these slots.
LEMMA SumOfSquares ==
    ASSUME NEW N \in Nat, NEW f, NEW v, NEW c \in Nat,
           \A i \in 0 .. N - 1 : f[i] \in Nat /\ (history[i] = v => f[i] = c)
    PROVE  /\ IsFiniteSet(SlotsWith(v, N)) /\ Cardinality(SlotsWith(v, N)) \in Nat
           /\ SumUpTo(f, N) \in Nat
           /\ Cardinality(SlotsWith(v, N)) * c <= SumUpTo(f, N)
<1> DEFINE Holds(n) == /\ IsFiniteSet(SlotsWith(v, n)) /\ Cardinality(SlotsWith(v, n)) \in Nat
                       /\ SumUpTo(f, n) \in Nat
                       /\ Cardinality(SlotsWith(v, n)) * c <= SumUpTo(f, n)
           S == {n \in Nat : n <= N => Holds(n)}
<1>1. 0 \in S
  <2>1. SlotsWith(v, 0) = {}
    BY DEF SlotsWith
  <2>2. SumUpTo(f, 0) = 0 /\ 0 * c = 0
    BY SumStep
  <2> QED BY <2>1, <2>2, FS_EmptySet
<1>2. ASSUME NEW n \in Nat, n \in S PROVE n + 1 \in S
  <2> SUFFICES ASSUME n + 1 <= N PROVE Holds(n + 1)
    OBVIOUS
  <2>1. /\ IsFiniteSet(SlotsWith(v, n)) /\ Cardinality(SlotsWith(v, n)) \in Nat
        /\ SumUpTo(f, n) \in Nat /\ Cardinality(SlotsWith(v, n)) * c <= SumUpTo(f, n)
    BY <1>2
  <2>2. SumUpTo(f, n + 1) = SumUpTo(f, n) + f[n] /\ f[n] \in Nat /\ (history[n] = v => f[n] = c)
    BY SumStep
  <2>3. CASE history[n] = v
    <3>1. SlotsWith(v, n + 1) = SlotsWith(v, n) \cup {n} /\ n \notin SlotsWith(v, n)
      BY <2>3 DEF SlotsWith
    <3>2. /\ IsFiniteSet(SlotsWith(v, n + 1))
          /\ Cardinality(SlotsWith(v, n + 1)) = Cardinality(SlotsWith(v, n)) + 1
      BY <2>1, <3>1, FS_AddElement
    <3> DEFINE k == Cardinality(SlotsWith(v, n))
    <3>3. k \in Nat /\ k * c <= SumUpTo(f, n) /\ Cardinality(SlotsWith(v, n + 1)) = k + 1
      BY <2>1, <3>2
    <3> HIDE DEF k
    <3>4. (k + 1) * c = k * c + c /\ k * c \in Int
      BY <3>3
    <3> QED BY <2>1, <2>2, <2>3, <3>2, <3>3, <3>4
  <2>4. CASE history[n] # v
    <3>1. SlotsWith(v, n + 1) = SlotsWith(v, n)
      BY <2>4 DEF SlotsWith
    <3> DEFINE k == Cardinality(SlotsWith(v, n)) * c
    <3>2. k \in Int /\ k <= SumUpTo(f, n)
      BY <2>1
    <3> HIDE DEF k
    <3>3. k <= SumUpTo(f, n + 1) /\ SumUpTo(f, n + 1) \in Nat
      BY <2>1, <2>2, <3>2
    <3> QED BY <2>1, <3>1, <3>3 DEF k
  <2> QED BY <2>3, <2>4
<1> HIDE DEF S, Holds
<1>3. Nat \subseteq S
  BY <1>1, <1>2, Induction
<1>4. Holds(N)
  BY <1>3 DEF S
<1> QED BY <1>4 DEF Holds

\* A sum of integers is an integer.
LEMMA SumType ==
    ASSUME NEW N \in Nat, NEW f, \A i \in 0 .. N - 1 : f[i] \in Int
    PROVE  SumUpTo(f, N) \in Int
<1> DEFINE S == {n \in Nat : n <= N => SumUpTo(f, n) \in Int}
<1>1. 0 \in S
  BY SumStep
<1>2. ASSUME NEW n \in Nat, n \in S PROVE n + 1 \in S
  <2>1. SumUpTo(f, n + 1) = SumUpTo(f, n) + f[n]
    BY SumStep
  <2>2. n + 1 <= N => f[n] \in Int
    OBVIOUS
  <2> QED BY <1>2, <2>1, <2>2
<1> HIDE DEF S
<1>3. Nat \subseteq S
  BY <1>1, <1>2, Induction
<1> QED BY <1>3 DEF S

\* Different places in the ring are different slots.
LEMMA SlotsDiffer ==
    ASSUME NEW o \in Slots, NEW i \in Slots, NEW j \in Slots, SlotAfter(o, i) = SlotAfter(o, j)
    PROVE  i = j
BY FilterAssumption DEF Slots, SlotAfter

\* As many slots hold a value as readings accepted have it.
LEMMA AgreeingSlots ==
    ASSUME RInv, IsFiniteSet(SlotsWith(last_err, got))
    PROVE  /\ Cardinality(Agreeing) \in Nat
           /\ Cardinality(Agreeing) <= Cardinality(SlotsWith(last_err, got))
<1>1. /\ got = Len(window) /\ got \in 0 .. hist_size /\ hist_size \in Nat \ {0}
      /\ \A i \in 1 .. got : history[SlotOf(i - 1)] = window[i]
  BY FilterAssumption DEF RInv, FilterTypeOK
<1>2. OldestSlot \in Slots
  BY ChronologicalSlots DEF RInv
<1>3. \A i \in 1 .. got : i - 1 \in Slots
  BY <1>1 DEF Slots
<1>4. ASSUME NEW i \in 1 .. got PROVE SlotOf(i - 1) \in 0 .. got - 1
  <2>1. CASE got < hist_size
    BY <1>1, <2>1 DEF SlotOf, SlotAfter, OldestSlot
  <2>2. CASE ~ (got < hist_size)
    <3>1. SlotOf(i - 1) \in Slots
      BY <1>3, ChronologicalSlots DEF RInv
    <3> QED BY <1>1, <2>2, <3>1 DEF Slots
  <2> QED BY <2>1, <2>2
<1> DEFINE g == [i \in Agreeing |-> SlotOf(i - 1)]
<1>5. g \in [Agreeing -> SlotsWith(last_err, got)]
  BY <1>1, <1>4 DEF Agreeing, SlotsWith
<1>6. ASSUME NEW i \in Agreeing, NEW j \in Agreeing, g[i] = g[j] PROVE i = j
  <2>1. i \in 1 .. got /\ j \in 1 .. got
    BY <1>1 DEF Agreeing
  <2>2. i - 1 = j - 1
    BY <1>2, <1>3, <1>6, <2>1, SlotsDiffer DEF SlotOf
  <2> QED BY <2>1, <2>2
<1>7. g \in Injection(Agreeing, SlotsWith(last_err, got))
  BY <1>5, <1>6 DEF Injection, IsInjective
<1> QED BY <1>7, FS_Injection, FS_CardinalityType

\* A square is not negative.
LEMMA SquareType ==
    ASSUME NEW x \in Int
    PROVE  Square(x) \in Nat
<1>1. x * x >= 0 /\ x * x \in Int
  OBVIOUS
<1> QED BY <1>1 DEF Square

\* Chebyshev's bound: a reading rejected differs from eight ninths of the history.
LEMMA OutliersAreRare ==
    ASSUME RInv, skipped
    PROVE  9 * Cardinality(Agreeing) < got
<1>1. /\ got \in Nat /\ got <= hist_size /\ last_err \in Int /\ hist_size \in Nat
      /\ history \in [Slots -> Int]
  <2>1. Readings \cup {0} \subseteq Int
    BY FilterAssumption
  <2>2. /\ got \in 0 .. hist_size /\ hist_size \in Nat /\ last_err \in Readings \cup {0}
        /\ history \in [Slots -> Readings \cup {0}]
    BY FilterAssumption DEF RInv, FilterTypeOK
  <2>3. last_err \in Int /\ history \in [Slots -> Int]
    BY <2>1, <2>2
  <2> QED BY <2>2, <2>3
<1>2. \A i \in 0 .. got - 1 : i \in Slots /\ history[i] \in Int
  BY <1>1 DEF Slots
<1>3. Total \in Int
  BY <1>1, <1>2, SumType DEF Total
<1> DEFINE f == [i \in Slots |-> Square(got * history[i] - Total)]
           c == Square(got * last_err - Total)
           k == Cardinality(SlotsWith(last_err, got))
<1>4. c \in Nat
  <2>1. got * last_err - Total \in Int
    BY <1>1, <1>3
  <2> QED BY <2>1, SquareType
<1>5. \A i \in 0 .. got - 1 : f[i] \in Nat /\ (history[i] = last_err => f[i] = c)
  <2>1. ASSUME NEW i \in 0 .. got - 1 PROVE got * history[i] - Total \in Int
    BY <1>1, <1>2, <1>3
  <2> QED BY <1>2, <2>1, SquareType
<1>6. Deviation = SumUpTo(f, got)
  BY DEF Deviation
<1>7. got * c > 9 * Deviation
  BY DEF RInv, Outlier
<1> HIDE DEF f, c
<1>8. /\ IsFiniteSet(SlotsWith(last_err, got)) /\ k \in Nat
      /\ SumUpTo(f, got) \in Nat /\ k * c <= SumUpTo(f, got)
  BY <1>1, <1>4, <1>5, SumOfSquares
<1>9. Cardinality(Agreeing) \in Nat /\ Cardinality(Agreeing) <= k
  BY <1>8, AgreeingSlots
<1> HIDE DEF k
<1>10. 9 * (k * c) < got * c
  <2>1. k * c \in Int /\ got * c \in Int
    BY <1>1, <1>4, <1>8
  <2> QED BY <1>6, <1>7, <1>8, <2>1
<1>11. 9 * k < got
  <2>1. ASSUME got <= 9 * k PROVE FALSE
    <3>1. PICK d \in Nat : 9 * k = got + d
      <4>1. 9 * k - got \in Nat /\ 9 * k = got + (9 * k - got)
        BY <1>1, <1>8, <2>1
      <4> QED BY <4>1
    <3>2. (got + d) * c = got * c + d * c /\ d * c >= 0 /\ got * c \in Int /\ d * c \in Int
      BY <1>1, <1>4
    <3>3. 9 * (k * c) = (9 * k) * c
      BY <1>4, <1>8
    <3>4. 9 * (k * c) = got * c + d * c
      BY <3>1, <3>2, <3>3
    <3> QED BY <1>10, <3>2, <3>4
  <2> QED BY <1>1, <1>8, <2>1
<1> QED BY <1>1, <1>8, <1>9, <1>11

\* The filter never rejects a value that a ninth of the history agrees with, for
\* any size of the history (dpll_sim2.cc:291-300; dpll_sim.cc:276-287).
THEOREM FilterCommonAccepted == BandwidthSpec => []CommonAccepted
<1>1. RInv => CommonAccepted
  BY OutliersAreRare DEF CommonAccepted
<1> QED BY <1>1, LoopFilters, PTL
-----------------------------------------------------------------------------
(* The slope                                                               *)

\* The sum of a sequence as that of the history's loops.
LEMMA SeqSumAsSum ==
    ASSUME NEW n \in Nat, NEW seq, Len(seq) = n, NEW g, \A i \in 0 .. n - 1 : g[i] = seq[i + 1]
    PROVE  SeqSum(seq) = SumUpTo(g, n)
<1> DEFINE Eq(f) == f = [i \in 0 .. n |-> IF i = 0 THEN 0 ELSE f[i - 1] + seq[i]]
<1>1. ASSUME NEW f PROVE Eq(f) <=> SumsOf(g, n, f)
  <2>1. \A i \in 0 .. n : i # 0 => g[i - 1] = seq[i]
    <3> SUFFICES ASSUME NEW i \in 0 .. n, i # 0 PROVE g[i - 1] = seq[i]
      OBVIOUS
    <3>1. i - 1 \in 0 .. n - 1 /\ (i - 1) + 1 = i
      OBVIOUS
    <3> QED BY <3>1
  <2>2. [i \in 0 .. n |-> IF i = 0 THEN 0 ELSE f[i - 1] + seq[i]]
          = [i \in 0 .. n |-> IF i = 0 THEN 0 ELSE f[i - 1] + g[i - 1]]
    BY <2>1
  <2> QED BY <2>2 DEF SumsOf
<1>2. PICK t : SumsOf(g, n, t)
  BY SumsExist
<1> DEFINE u == CHOOSE f : Eq(f)
<1>3. Eq(u)
  BY <1>1, <1>2
<1>4. SeqSum(seq) = u[n]
  BY DEF SeqSum
<1> HIDE DEF u, Eq
<1>5. SumsOf(g, n, u)
  BY <1>1, <1>3
<1> DEFINE v == CHOOSE f : f = [i \in 0 .. n |-> IF i = 0 THEN 0 ELSE f[i - 1] + g[i - 1]]
<1>6. SumUpTo(g, n) = v[n] /\ SumsOf(g, n, v)
  BY <1>2 DEF SumUpTo, SumsOf
<1> HIDE DEF v
<1>7. n <= n
  OBVIOUS
<1> QED BY <1>4, <1>5, <1>6, <1>7, SumsAgree

\* Equal values have equal sums.
LEMMA SameSum ==
    ASSUME NEW N \in Nat, NEW f, NEW g, \A i \in 0 .. N - 1 : f[i] = g[i]
    PROVE  SumUpTo(f, N) = SumUpTo(g, N)
<1> DEFINE S == {n \in Nat : n <= N => SumUpTo(f, n) = SumUpTo(g, n)}
<1>1. 0 \in S
  BY SumStep
<1>2. ASSUME NEW n \in Nat, n \in S PROVE n + 1 \in S
  <2>1. SumUpTo(f, n + 1) = SumUpTo(f, n) + f[n] /\ SumUpTo(g, n + 1) = SumUpTo(g, n) + g[n]
    BY SumStep
  <2>2. n + 1 <= N => f[n] = g[n] /\ n <= N
    OBVIOUS
  <2> QED BY <1>2, <2>1, <2>2
<1> HIDE DEF S
<1>3. Nat \subseteq S
  BY <1>1, <1>2, Induction
<1> QED BY <1>3 DEF S

\* One more of each of n values is n more.
LEMMA SumOfSuccessors ==
    ASSUME NEW N \in Nat, NEW f, NEW g, \A i \in 0 .. N - 1 : f[i] \in Int /\ g[i] = f[i] + 1
    PROVE  SumUpTo(f, N) \in Int /\ SumUpTo(g, N) = SumUpTo(f, N) + N
<1> DEFINE S == {n \in Nat : n <= N => SumUpTo(f, n) \in Int
                                       /\ SumUpTo(g, n) = SumUpTo(f, n) + n}
<1>1. 0 \in S
  BY SumStep
<1>2. ASSUME NEW n \in Nat, n \in S PROVE n + 1 \in S
  <2> SUFFICES ASSUME n + 1 <= N
               PROVE  /\ SumUpTo(f, n + 1) \in Int
                      /\ SumUpTo(g, n + 1) = SumUpTo(f, n + 1) + (n + 1)
    OBVIOUS
  <2>1. SumUpTo(f, n + 1) = SumUpTo(f, n) + f[n] /\ SumUpTo(g, n + 1) = SumUpTo(g, n) + g[n]
    BY SumStep
  <2>2. f[n] \in Int /\ g[n] = f[n] + 1
    OBVIOUS
  <2>3. SumUpTo(f, n) \in Int /\ SumUpTo(g, n) = SumUpTo(f, n) + n
    BY <1>2
  <2> QED BY <2>1, <2>2, <2>3
<1> HIDE DEF S
<1>3. Nat \subseteq S
  BY <1>1, <1>2, Induction
<1> QED BY <1>3 DEF S

\* A product of two differences.
LEMMA Expanded ==
    ASSUME NEW n \in Int, NEW x \in Int, NEW y \in Int, NEW a \in Int, NEW b \in Int
    PROVE  (n * x - a) * (n * y - b) = n * n * (x * y) - n * b * x - n * a * y + a * b
OBVIOUS

\* d is the product of n times the deviations of x and y from a / n and b / n.
Deviations(N, n, a, b, x, y, xy, d) ==
    \A i \in 0 .. N - 1 : /\ x[i] \in Int /\ y[i] \in Int /\ xy[i] = x[i] * y[i]
                          /\ d[i] = (n * x[i] - a) * (n * y[i] - b)

\* The sum of the products of n times the deviations of x and y.
LEMMA SumOfDeviations ==
    ASSUME NEW N \in Nat, NEW n \in Int, NEW a \in Int, NEW b \in Int,
           NEW x, NEW y, NEW xy, NEW d,
           Deviations(N, n, a, b, x, y, xy, d)
    PROVE  SumUpTo(d, N) = n * n * SumUpTo(xy, N) - n * b * SumUpTo(x, N)
                             - n * a * SumUpTo(y, N) + N * (a * b)
<1> DEFINE Sums(k) == /\ SumUpTo(x, k) \in Int /\ SumUpTo(y, k) \in Int /\ SumUpTo(xy, k) \in Int
                      /\ SumUpTo(d, k) = n * n * SumUpTo(xy, k) - n * b * SumUpTo(x, k)
                                           - n * a * SumUpTo(y, k) + k * (a * b)
           S == {k \in Nat : k <= N => Sums(k)}
<1>1. 0 \in S
  <2>1. SumUpTo(x, 0) = 0 /\ SumUpTo(y, 0) = 0 /\ SumUpTo(xy, 0) = 0 /\ SumUpTo(d, 0) = 0
    BY SumStep
  <2>2. n * n * 0 - n * b * 0 - n * a * 0 + 0 * (a * b) = 0
    OBVIOUS
  <2> QED BY <2>1, <2>2
<1>2. ASSUME NEW k \in Nat, k \in S PROVE k + 1 \in S
  <2> SUFFICES ASSUME k + 1 <= N PROVE Sums(k + 1)
    OBVIOUS
  <2>1. PICK u \in Int, v \in Int, w \in Int :
          /\ SumUpTo(x, k) = u /\ SumUpTo(y, k) = v /\ SumUpTo(xy, k) = w
          /\ SumUpTo(d, k) = n * n * w - n * b * u - n * a * v + k * (a * b)
    BY <1>2
  <2>2. PICK p \in Int, q \in Int : x[k] = p /\ y[k] = q /\ xy[k] = p * q
                                    /\ d[k] = (n * p - a) * (n * q - b)
    BY DEF Deviations
  <2>3. /\ SumUpTo(x, k + 1) = u + p /\ SumUpTo(y, k + 1) = v + q
        /\ SumUpTo(xy, k + 1) = w + p * q
        /\ SumUpTo(d, k + 1) = SumUpTo(d, k) + d[k]
    BY <2>1, <2>2, SumStep
  <2>4. (n * p - a) * (n * q - b) = n * n * (p * q) - n * b * p - n * a * q + a * b
    BY Expanded
  <2>5. (n * n * w - n * b * u - n * a * v + k * (a * b))
          + (n * n * (p * q) - n * b * p - n * a * q + a * b)
          = n * n * (w + p * q) - n * b * (u + p) - n * a * (v + q) + (k + 1) * (a * b)
    OBVIOUS
  <2>6. u + p \in Int /\ v + q \in Int /\ w + p * q \in Int
    OBVIOUS
  <2> QED BY <2>1, <2>2, <2>3, <2>4, <2>5, <2>6, Zenon
<1> HIDE DEF S, Sums
<1>3. Nat \subseteq S
  BY <1>1, <1>2, Induction
<1>4. Sums(N)
  BY <1>3 DEF S
<1> QED BY <1>4 DEF Sums

\* The sums of the first n numbers and of their squares.
LEMMA ClosedForms ==
    ASSUME NEW N \in Nat, NEW x, NEW xx, \A i \in 0 .. N - 1 : x[i] = i /\ xx[i] = i * i
    PROVE  /\ SumUpTo(x, N) \in Int /\ SumUpTo(xx, N) \in Int
           /\ 2 * SumUpTo(x, N) = N * N - N
           /\ 6 * SumUpTo(xx, N) = 2 * (N * N * N) - 3 * (N * N) + N
<1> DEFINE Sums(k) == /\ SumUpTo(x, k) \in Int /\ SumUpTo(xx, k) \in Int
                      /\ 2 * SumUpTo(x, k) = k * k - k
                      /\ 6 * SumUpTo(xx, k) = 2 * (k * k * k) - 3 * (k * k) + k
           S == {k \in Nat : k <= N => Sums(k)}
<1>1. 0 \in S
  BY SumStep
<1>2. ASSUME NEW k \in Nat, k \in S PROVE k + 1 \in S
  <2> SUFFICES ASSUME k + 1 <= N PROVE Sums(k + 1)
    OBVIOUS
  <2>1. PICK u \in Int, v \in Int :
          /\ SumUpTo(x, k) = u /\ SumUpTo(xx, k) = v
          /\ 2 * u = k * k - k /\ 6 * v = 2 * (k * k * k) - 3 * (k * k) + k
    BY <1>2
  <2>2. x[k] = k /\ xx[k] = k * k
    OBVIOUS
  <2>3. SumUpTo(x, k + 1) = u + k /\ SumUpTo(xx, k + 1) = v + k * k
    BY <2>1, <2>2, SumStep
  <2>4. 2 * (u + k) = (k + 1) * (k + 1) - (k + 1)
    BY <2>1
  <2>5. 6 * (v + k * k) = 2 * ((k + 1) * (k + 1) * (k + 1)) - 3 * ((k + 1) * (k + 1)) + (k + 1)
    BY <2>1
  <2>6. u + k \in Int /\ v + k * k \in Int
    OBVIOUS
  <2> QED BY <2>3, <2>4, <2>5, <2>6, Zenon
<1> HIDE DEF S, Sums
<1>3. Nat \subseteq S
  BY <1>1, <1>2, Induction
<1>4. Sums(N)
  BY <1>3 DEF S
<1> QED BY <1>4 DEF Sums

\* The variance of two times or more is positive.
LEMMA TimesVary ==
    ASSUME NEW n \in Nat, n >= 2, NEW u \in Int, NEW v \in Int,
           2 * u = n * n - n, 6 * v = 2 * (n * n * n) - 3 * (n * n) + n
    PROVE  n * v - u * u > 0
<1>1. 12 * (n * v) = 2 * n * (2 * (n * n * n) - 3 * (n * n) + n)
  <2>1. 12 * (n * v) = 2 * n * (6 * v)
    OBVIOUS
  <2> QED BY <2>1
<1>2. 12 * (u * u) = 3 * ((n * n - n) * (n * n - n))
  <2>1. 12 * (u * u) = 3 * ((2 * u) * (2 * u))
    OBVIOUS
  <2> QED BY <2>1
<1>3. 2 * n * (2 * (n * n * n) - 3 * (n * n) + n) - 3 * ((n * n - n) * (n * n - n))
        = (n * n) * (n * n - 1)
  OBVIOUS
<1>4. n * n > 1
  <2>1. PICK k \in Nat : n = k + 2
    <3>1. n - 2 \in Nat /\ n = (n - 2) + 2
      OBVIOUS
    <3> QED BY <3>1
  <2>2. (k + 2) * (k + 2) = k * k + 4 * k + 4 /\ k * k >= 0
    OBVIOUS
  <2> QED BY <2>1, <2>2
<1>5. (n * n) * (n * n - 1) > 0
  <2>1. PICK m \in Nat : n * n = m + 2
    <3>1. n * n - 2 \in Nat /\ n * n = (n * n - 2) + 2
      BY <1>4
    <3> QED BY <3>1
  <2>2. (m + 2) * ((m + 2) - 1) = m * m + 3 * m + 2 /\ m * m >= 0
    OBVIOUS
  <2>3. (n * n) * (n * n - 1) = (m + 2) * ((m + 2) - 1)
    BY <2>1, Zenon
  <2> QED BY <2>2, <2>3
<1>6. 12 * (n * v) - 12 * (u * u) > 0
  BY <1>1, <1>2, <1>3, <1>5
<1>7. n * v \in Int /\ u * u \in Int
  OBVIOUS
<1> QED BY <1>6, <1>7

\* slope() divides by the variance of the times, and n times the numerator and
\* the denominator are the sums of the definition.
LEMMA SlopeFits ==
    ASSUME RInv, got >= 2
    PROVE  SlopeDenominator > 0 /\ FitsWindow(SlopeNumerator, SlopeDenominator)
<1> DEFINE x  == [i \in Slots |-> i]
           xx == [i \in Slots |-> i * i]
           y  == Chronological
           xy == [i \in Slots |-> i * Chronological[i]]
<1>0. /\ got = Len(window) /\ got \in Nat /\ got <= hist_size /\ hist_size \in Nat
      /\ \A i \in 1 .. got : window[i] \in Int
      /\ \A i \in 1 .. got : history[SlotOf(i - 1)] = window[i]
  <2>1. Readings \subseteq Int /\ window \in Seq(Readings) /\ got \in 0 .. hist_size
        /\ hist_size \in Nat
    BY FilterAssumption DEF RInv, FilterTypeOK
  <2>2. got = Len(window)
    BY DEF RInv
  <2>3. \A i \in 1 .. got : window[i] \in Int
    <3>1. \A i \in 1 .. got : window[i] \in Readings
      BY <2>1, <2>2
    <3> QED BY <2>1, <3>1
  <2> QED BY <2>1, <2>3 DEF RInv
<1>1. PICK n \in Nat : n = got /\ n >= 2
  BY <1>0
<1>2. \A i \in 0 .. n - 1 : /\ i \in Slots /\ i + 1 \in 1 .. n
                            /\ y[i] = window[i + 1] /\ window[i + 1] \in Int
  <2> SUFFICES ASSUME NEW i \in 0 .. n - 1
               PROVE  /\ i \in Slots /\ i + 1 \in 1 .. n
                      /\ y[i] = window[i + 1] /\ window[i + 1] \in Int
    OBVIOUS
  <2>1. i \in Slots /\ i + 1 \in 1 .. n /\ (i + 1) - 1 = i
    BY <1>0, <1>1 DEF Slots
  <2>2. y[i] = history[SlotOf(i)]
    BY <2>1, ChronologicalSlots DEF RInv
  <2>3. window[i + 1] \in Int
    BY <1>0, <1>1, <2>1
  <2>4. history[SlotOf((i + 1) - 1)] = window[i + 1]
    BY <1>0, <1>1, <2>1
  <2> QED BY <2>1, <2>2, <2>3, <2>4
<1>3. \A i \in 0 .. n - 1 : x[i] = i /\ xx[i] = i * i /\ xy[i] = i * y[i] /\ y[i] \in Int
  BY <1>2
<1> HIDE DEF x, xx, y, xy
<1>4. PICK u \in Int, v \in Int, b \in Int, c \in Int :
        /\ u = SumUpTo(x, n) /\ v = SumUpTo(xx, n)
        /\ b = SumUpTo(y, n) /\ c = SumUpTo(xy, n)
        /\ 2 * u = n * n - n /\ 6 * v = 2 * (n * n * n) - 3 * (n * n) + n
  <2>1. /\ SumUpTo(x, n) \in Int /\ SumUpTo(xx, n) \in Int
        /\ 2 * SumUpTo(x, n) = n * n - n
        /\ 6 * SumUpTo(xx, n) = 2 * (n * n * n) - 3 * (n * n) + n
    <3>1. \A i \in 0 .. n - 1 : x[i] = i /\ xx[i] = i * i
      BY <1>3
    <3> QED BY <3>1, ClosedForms
  <2>2. SumUpTo(y, n) \in Int
    BY <1>3, SumType
  <2>3. \A i \in 0 .. n - 1 : xy[i] \in Int
    BY <1>3
  <2>4. SumUpTo(xy, n) \in Int
    BY <2>3, SumType
  <2> QED BY <2>1, <2>2, <2>4
<1>5. SlopeNumerator = n * c - u * b /\ SlopeDenominator = n * v - u * u
  BY <1>1, <1>4 DEF SlopeNumerator, SlopeDenominator, Square, x, xx, y, xy
<1>6. n * v - u * u > 0
  BY <1>1, <1>4, TimesVary
<1> DEFINE ids == [k \in 1 .. n |-> k]
           dx == [i \in 1 .. n |-> n * i - SeqSum(ids)]
           dy == [i \in 1 .. n |-> n * window[i] - SeqSum(window)]
           sxy == [i \in 1 .. n |-> dx[i] * dy[i]]
           sxx == [i \in 1 .. n |-> Square(dx[i])]
<1>7. FitsWindow(SlopeNumerator, SlopeDenominator)
        <=> SeqSum(sxy) * SlopeDenominator = SlopeNumerator * SeqSum(sxx)
  BY <1>0, <1>1 DEF FitsWindow
<1>8. SeqSum(ids) = u + n
  <2> DEFINE g == [i \in Slots |-> i + 1]
  <2>1. \A i \in 0 .. n - 1 : g[i] = ids[i + 1] /\ g[i] = x[i] + 1 /\ x[i] \in Int
    BY <1>2, <1>3
  <2>2. Len(ids) = n
    OBVIOUS
  <2> HIDE DEF g, ids
  <2>3. SeqSum(ids) = SumUpTo(g, n)
    BY <2>1, <2>2, SeqSumAsSum
  <2>4. SumUpTo(g, n) = SumUpTo(x, n) + n
    BY <2>1, SumOfSuccessors
  <2> QED BY <1>4, <2>3, <2>4
<1>9. SeqSum(window) = b
  BY <1>0, <1>1, <1>2, <1>4, SeqSumAsSum
<1> HIDE DEF ids
<1>10. \A i \in 0 .. n - 1 : /\ dx[i + 1] = n * i - u
                             /\ dy[i + 1] = n * y[i] - b
  <2> SUFFICES ASSUME NEW i \in 0 .. n - 1
               PROVE  dx[i + 1] = n * i - u /\ dy[i + 1] = n * y[i] - b
    OBVIOUS
  <2>1. i + 1 \in 1 .. n /\ y[i] = window[i + 1]
    BY <1>2
  <2>2. dx[i + 1] = n * (i + 1) - (u + n) /\ dy[i + 1] = n * window[i + 1] - b
    BY <1>8, <1>9, <2>1
  <2>3. n * (i + 1) - (u + n) = n * i - u
    OBVIOUS
  <2> QED BY <2>1, <2>2, <2>3
<1> HIDE DEF dx, dy
<1>11. SeqSum(sxy) = n * (n * c - u * b)
  <2> DEFINE d == [i \in Slots |-> (n * x[i] - u) * (n * y[i] - b)]
  <2>1. Deviations(n, n, u, b, x, y, xy, d)
    BY <1>2, <1>3 DEF Deviations
  <2>6. \A i \in 0 .. n - 1 : d[i] = sxy[i + 1]
    BY <1>2, <1>3, <1>10
  <2>2. Len(sxy) = n
    OBVIOUS
  <2> HIDE DEF d, sxy
  <2>3. SeqSum(sxy) = SumUpTo(d, n)
    BY <2>2, <2>6, SeqSumAsSum
  <2>4. SumUpTo(d, n) = n * n * c - n * b * u - n * u * b + n * (u * b)
    <3>1. SumUpTo(d, n) = n * n * SumUpTo(xy, n) - n * b * SumUpTo(x, n)
                            - n * u * SumUpTo(y, n) + n * (u * b)
      <4>1. n \in Int
        OBVIOUS
      <4> QED BY <2>1, <4>1, SumOfDeviations
    <3> QED BY <1>4, <3>1, Zenon
  <2>5. n * n * c - n * b * u - n * u * b + n * (u * b) = n * (n * c - u * b)
    OBVIOUS
  <2> QED BY <2>3, <2>4, <2>5
<1>12. SeqSum(sxx) = n * (n * v - u * u)
  <2> DEFINE d == [i \in Slots |-> (n * x[i] - u) * (n * x[i] - u)]
  <2>1. Deviations(n, n, u, u, x, x, xx, d)
    BY <1>2, <1>3 DEF Deviations
  <2>6. \A i \in 0 .. n - 1 : d[i] = sxx[i + 1]
    BY <1>2, <1>3, <1>10 DEF Square
  <2>2. Len(sxx) = n
    OBVIOUS
  <2> HIDE DEF d, sxx
  <2>3. SeqSum(sxx) = SumUpTo(d, n)
    BY <2>2, <2>6, SeqSumAsSum
  <2>4. SumUpTo(d, n) = n * n * v - n * u * u - n * u * u + n * (u * u)
    <3>1. SumUpTo(d, n) = n * n * SumUpTo(xx, n) - n * u * SumUpTo(x, n)
                            - n * u * SumUpTo(x, n) + n * (u * u)
      <4>1. n \in Int
        OBVIOUS
      <4> QED BY <2>1, <4>1, SumOfDeviations
    <3> QED BY <1>4, <3>1, Zenon
  <2>5. n * n * v - n * u * u - n * u * u + n * (u * u) = n * (n * v - u * u)
    OBVIOUS
  <2> QED BY <2>3, <2>4, <2>5
<1> HIDE DEF sxy, sxx
<1>13. (n * (n * c - u * b)) * (n * v - u * u) = (n * c - u * b) * (n * (n * v - u * u))
  OBVIOUS
<1> QED BY <1>5, <1>6, <1>7, <1>11, <1>12, <1>13, Zenon

\* slope() is the least-squares slope of the readings accepted last, for any
\* number of them and wherever the ring begins (stddev.h:73-103).
THEOREM FilterSlopeExact == BandwidthSpec => []SlopeExact
<1>1. RInv => SlopeExact
  BY SlopeFits DEF SlopeExact
<1> QED BY <1>1, LoopFilters, PTL
=============================================================================
