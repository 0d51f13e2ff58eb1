---------------------------- MODULE ClockSource ----------------------------
(***************************************************************************)
(* One clock source of dpll_sim: the loop of ref_thread or osc_thread that *)
(* computes when the next tick is due, sleeps until shortly before, spins  *)
(* until it is due and stamps a message.  Time is an integer number of     *)
(* nanoseconds; the thread sees it only through timespecs.                 *)
(*                                                                         *)
(* The dpll thread rewrites osc_interval while osc_thread clamps and uses  *)
(* it, without a lock.  A round of osc_thread reads it up to three times,  *)
(* in the two tests and for the period, and stores a bound between them;   *)
(* each access is a step.  A build that keeps the value in a register does *)
(* what these steps do when none of dpll_thread's falls between them.      *)
(***************************************************************************)
EXTENDS Mymsg, Timespec

CONSTANTS
    INTERVAL, JITTER,            \* Params.h, in nanoseconds
    EARLY,                       \* early_alarm
    MIN_INTERVAL, MAX_INTERVAL,
    Settings,                    \* what dpll_thread may store: INTERVAL + adjust
    Starts,                      \* clock readings at which the thread may start
    MaxNow                       \* bound: the clock stops here

ASSUME ClockSourceAssumption ==
    /\ INTERVAL \in Nat /\ JITTER \in Nat \ {0}
    /\ EARLY \in 1 .. NSEC - 1
    /\ MIN_INTERVAL \in Nat /\ MAX_INTERVAL \in Nat
    /\ INTERVAL \in MIN_INTERVAL .. MAX_INTERVAL
    /\ Settings \subseteq Nat
    /\ Starts \subseteq Nat /\ MaxNow \in Nat

VARIABLES
    now,           \* CLOCK_MONOTONIC
    done,          \* the flag main sets when the user ends the program
    which,         \* the thread: constant during a behaviour
    osc_interval,  \* the shared variable, in nanoseconds
    pc,
    jitter,        \* how late this round's message will be
    desired,       \* ref_desired or osc_desired
    s,             \* the argument of clock_nanosleep
    seen,          \* the thread's last reading of the clock
    wake,          \* when clock_nanosleep returns
    origin,        \* ghost: the first desired time, as a number
    elapsed,       \* ghost: the sum of the periods since
    raced          \* ghost: dpll_thread stored what osc_interval holds after this
                   \* round's first test

local == <<which, jitter, desired, s, seen, wake, origin, elapsed>>
vars  == <<now, done, osc_interval, pc, raced, local>>

PCs == {"start", "loop", "test", "clamp", "raise", "plan", "look", "sleep", "asleep",
        "spin", "enqueue", "exited"}

TypeOK ==
    /\ now \in Nat
    /\ done \in BOOLEAN
    /\ which \in {REF, OSC}
    /\ osc_interval \in Nat
    /\ pc \in PCs
    /\ jitter \in 0 .. JITTER - 1
    /\ desired \in Timespecs
    /\ s \in Timespecs
    /\ seen \in Normalised
    /\ wake \in Int
    /\ origin \in Int /\ elapsed \in Int /\ raced \in BOOLEAN

Zero == [sec |-> 0, nsec |-> 0]

Init ==
    /\ now \in Starts
    /\ done = FALSE
    /\ which \in {REF, OSC}
    /\ osc_interval = INTERVAL
    /\ pc = "start"
    /\ jitter = 0
    /\ desired = Zero /\ s = Zero /\ seen = Zero
    /\ wake = 0 /\ origin = 0 /\ elapsed = 0 /\ raced = FALSE

\* The thread's first lines.  "ref intervals are aligned to 1s boundaries."
Start ==
    /\ pc = "start"
    /\ pc' = "loop"
    /\ seen' = FromClock(now)
    /\ desired' = IF which = REF THEN [seen' EXCEPT !.nsec = 0] ELSE seen'
    /\ origin' = Val(desired')
    /\ elapsed' = 0
    /\ UNCHANGED <<now, done, raced, which, osc_interval, jitter, s, wake>>

\* while (!done), then p.alloc, which may find the pool empty.
Exit ==
    /\ pc = "loop"
    /\ pc' = "exited"
    /\ UNCHANGED <<now, done, raced, osc_interval, local>>

RefRound ==
    /\ pc = "loop" /\ ~ done /\ which = REF
    /\ jitter' \in 0 .. JITTER - 1
    /\ pc' = "plan"
    /\ UNCHANGED <<now, done, raced, osc_interval, which, desired, s, seen, wake,
                   origin, elapsed>>

\* if (osc_interval > MAX_INTERVAL).
OscRound ==
    /\ pc = "loop" /\ ~ done /\ which = OSC
    /\ pc' = IF osc_interval > MAX_INTERVAL THEN "clamp" ELSE "test"
    /\ raced' = FALSE
    /\ UNCHANGED <<now, done, osc_interval, local>>

\* Mutant: the lower bound is not tested.
M_TestSkipped ==
    /\ pc = "test"
    /\ pc' = "plan"
    /\ UNCHANGED <<now, done, raced, osc_interval, local>>

\* else if (osc_interval < MIN_INTERVAL) osc_interval = MIN_INTERVAL: a second
\* reading, and a store if it is too small.
TestLow ==
    /\ pc = "test"
    /\ pc' = IF osc_interval < MIN_INTERVAL THEN "raise" ELSE "plan"
    /\ UNCHANGED <<now, done, raced, osc_interval, local>>

\* The store of the bound that was crossed, whatever is there by now.
Clamp ==
    /\ pc \in {"clamp", "raise"}
    /\ osc_interval' = IF pc = "clamp" THEN MAX_INTERVAL ELSE MIN_INTERVAL
    /\ pc' = "plan"
    /\ raced' = FALSE
    /\ UNCHANGED <<now, done, local>>

\* ref_interval, or what osc_interval is by now.
interval == IF which = REF THEN INTERVAL ELSE osc_interval

\* desired += interval.
Plan ==
    /\ pc = "plan"
    /\ desired' = Add(desired, FromClock(interval))
    /\ elapsed' = elapsed + interval
    /\ pc' = "look"
    /\ UNCHANGED <<now, done, raced, osc_interval, which, jitter, s, seen, wake,
                   origin>>

\* early_target = desired - early_alarm; now.getNow(); s = early_target - now.
Look ==
    /\ pc = "look"
    /\ seen' = FromClock(now)
    /\ s' = Sub(Sub(desired, FromClock(EARLY)), seen')
    /\ pc' = "sleep"
    /\ UNCHANGED <<now, done, raced, osc_interval, which, jitter, desired,
                   wake, origin, elapsed>>

\* clock_nanosleep(CLOCK_MONOTONIC, 0, s, NULL): a relative sleep, counted from
\* this call and not from the reading; EINVAL, at once, for a time in the past
\* or a tv_nsec out of range.
Sleep ==
    /\ pc = "sleep"
    /\ wake' = IF s.sec >= 0 /\ s \in Normalised THEN now + Val(s) ELSE now
    /\ pc' = "asleep"
    /\ UNCHANGED <<now, done, raced, osc_interval, which, jitter, desired,
                   s, seen, origin, elapsed>>

WakeUp ==
    /\ pc = "asleep" /\ now >= wake
    /\ pc' = "spin"
    /\ UNCHANGED <<now, done, raced, osc_interval, local>>

\* ref_desired_plus_jitter; osc_thread compares with osc_desired itself.
Due == Add(desired, FromClock(jitter))

\* Mutant: the spin ends at the due time without the jitter.
M_SpinIgnoresJitter ==
    /\ pc = "spin"
    /\ seen' = FromClock(now)
    /\ pc' = IF Less(seen', desired) THEN "spin" ELSE "enqueue"
    /\ UNCHANGED <<now, done, raced, osc_interval, which, jitter, desired, s,
                   wake, origin, elapsed>>

\* do { now.getNow(); } while (now < due); m->stamp = now.
Spin ==
    /\ pc = "spin"
    /\ seen' = FromClock(now)
    /\ pc' = IF Less(seen', Due) THEN "spin" ELSE "enqueue"
    /\ UNCHANGED <<now, done, raced, osc_interval, which, jitter, desired, s,
                   wake, origin, elapsed>>

\* q.enqueue(m) and around the loop.
Enqueue ==
    /\ pc = "enqueue"
    /\ pc' = "loop"
    /\ UNCHANGED <<now, done, raced, osc_interval, local>>

\* The rest of the world: the clock, dpll_thread steering, main stopping.
Tick ==
    /\ now < MaxNow
    /\ now' = now + 1
    /\ UNCHANGED <<done, osc_interval, pc, raced, local>>

Steer ==
    /\ osc_interval' \in Settings
    /\ raced' = (which = OSC /\ pc \in {"test", "clamp", "raise", "plan"})
    /\ UNCHANGED <<now, done, pc, local>>

Stop ==
    /\ ~ done
    /\ done' = TRUE
    /\ UNCHANGED <<now, osc_interval, pc, raced, local>>

Next ==
    \/ Start \/ Exit \/ RefRound \/ OscRound \/ TestLow \/ Clamp \/ Plan \/ Look \/ Sleep
    \/ WakeUp \/ Spin \/ Enqueue
    \/ Tick \/ Steer \/ Stop

Spec == Init /\ [][Next]_vars
-----------------------------------------------------------------------------
\* However long the source runs and however late it is scheduled, the time a
\* tick is due is the origin plus the sum of the periods: nothing is lost at a
\* carry, and a late round does not delay the next.
NoDrift == pc # "start" => Val(desired) = origin + elapsed

\* Two successive due times are between MIN_INTERVAL and MAX_INTERVAL apart but
\* for one race (dpll_sim.cc:169-174): a value that dpll_thread stores after the
\* first test of a round, and that no bound replaces, is used as it is, in that
\* round.  The next one tests it: nothing from before a round is used untested,
\* in whatever order the two threads read and store.
PeriodInRange ==
    [][desired' # desired /\ pc # "start" /\ ~ raced =>
         Val(desired') - Val(desired) \in MIN_INTERVAL .. MAX_INTERVAL]_vars

\* The time to sleep is a valid argument of clock_nanosleep unless it is in the
\* past, although "desired" may have a whole second in tv_nsec, and it leads
\* from the reading to exactly EARLY before the due time.
SleepsToTheAlarm ==
    pc = "sleep" =>
      /\ s \in Normalised
      /\ Val(seen) + Val(s) = Val(desired) - EARLY

\* A message is stamped at or after its due time, and the spin goes on only
\* while the last reading is before it.
StampedWhenDue ==
    /\ pc = "enqueue" => Val(seen) >= Val(desired) + jitter
    /\ pc = "spin" /\ Val(seen) > wake => Val(seen) < Val(desired) + jitter
=============================================================================
