--------------------------- MODULE PhaseDetector ---------------------------
(***************************************************************************)
(* The phase detector of dpll_sim: ref_thread and osc_thread stamp a       *)
(* message when a tick is due and enqueue it a little later; dpll_thread   *)
(* dequeues the messages and pairs a REF with an OSC to measure the phase  *)
(* error.  Stamping and enqueueing are two steps, so messages need not     *)
(* arrive in the order of their stamps.                                    *)
(*                                                                         *)
(* The queue is its abstract specification (MessageDeque: a sequence); the *)
(* second half of the message handler, which turns a phase error into an   *)
(* adjustment, is LockStages.  The sources run on schedule: they stamp and *)
(* enqueue each tick within JITTER of its due time, the spin loops of      *)
(* ClockSource under real-time priority.                                   *)
(***************************************************************************)
EXTENDS Mymsg, Timespec, Sequences

CONSTANTS
    Period,        \* INTERVAL, in nanoseconds
    OscPeriods,    \* what osc_interval may be in any round, clamped or stored since
    MaxOscPeriod,  \* the largest of them
    Jitter,        \* how long after its due time a tick may be enqueued
    Offsets,       \* the phases the oscillator may start in
    Word,          \* 2^64: the size of the words nsecs() computes in
    MaxClock       \* bound: the clock stops here

ASSUME DetectorAssumption ==
    /\ Period \in Nat /\ Jitter \in Nat /\ Jitter < Period
    /\ MaxOscPeriod \in Nat /\ Period <= MaxOscPeriod
    /\ OscPeriods \subseteq Jitter + 1 .. MaxOscPeriod
    /\ Offsets \subseteq 0 .. MaxOscPeriod
    /\ Word \in Nat /\ Word % 2 = 0 /\ 2 * (MaxOscPeriod + Jitter) < Word
    /\ MaxClock \in Nat

VARIABLES
    clock,      \* CLOCK_MONOTONIC
    due,        \* per source: when its next tick is due (ref_/osc_desired)
    stamp,      \* per source: the message it holds, stamped and not enqueued
    msgs,       \* the queue q
    state,      \* of the detector: IDLE, UP or DOWN
    last_ref, last_osc,
    phase_err,
    heard,      \* ghost, per source: the stamp of its last message handled
    pair,       \* ghost, per source: that of its last message compared
    ticks       \* ghost: the stamps of all messages so far

detector == <<state, last_ref, last_osc, phase_err, heard, pair>>
detectorVars == <<clock, due, stamp, msgs, ticks, detector>>

None == -1

DetectorTypeOK ==
    /\ clock \in Nat
    /\ due \in [Which -> Nat]
    /\ stamp \in [Which -> Nat \cup {None}]
    /\ msgs \in Seq([which : Which, stamp : Nat])
    /\ state \in {"IDLE", "UP", "DOWN"}
    /\ last_ref \in Normalised /\ last_osc \in Normalised
    /\ phase_err \in Int
    /\ heard \in [Which -> Nat] /\ pair \in [Which -> Nat] /\ ticks \subseteq Nat

DetectorInit ==
    /\ clock = 0
    /\ \E offset \in Offsets :
         due = [w \in Which |-> IF w = REF THEN Period ELSE Period + offset]
    /\ stamp = [w \in Which |-> None]
    /\ msgs = << >>
    /\ state = "IDLE"
    /\ last_ref = FromClock(0) /\ last_osc = FromClock(0)
    /\ phase_err = 0
    /\ heard = [w \in Which |-> 0] /\ pair = [w \in Which |-> 0] /\ ticks = {}

\* The spin loop of a source ends and the message is stamped.
Stamp(w) ==
    /\ stamp[w] = None /\ clock >= due[w]
    /\ stamp' = [stamp EXCEPT ![w] = clock]
    /\ ticks' = ticks \cup {clock}
    /\ UNCHANGED <<clock, due, msgs, detector>>

\* ref_desired += interval, or osc_desired += the osc_interval of the round.
NextDue(w) ==
    \E p \in (IF w = REF THEN {Period} ELSE OscPeriods) :
      due' = [due EXCEPT ![w] = @ + p]

\* q.enqueue(m), and the next round begins.
EnqueueTick(w) ==
    /\ stamp[w] # None
    /\ msgs' = Append(msgs, [which |-> w, stamp |-> stamp[w]])
    /\ stamp' = [stamp EXCEPT ![w] = None]
    /\ NextDue(w)
    /\ UNCHANGED <<clock, ticks, detector>>

\* The clock, held back by a source that has to run first.
ClockTicks ==
    /\ clock < MaxClock
    /\ \A w \in Which : clock < due[w] + Jitter
    /\ clock' = clock + 1
    /\ UNCHANGED <<due, stamp, msgs, ticks, detector>>

\* Mutant: any second message completes a pair, also one of the same source.
M_ComparesAlways(w) == state # "IDLE"

\* Does a message of source w complete a pair (do_adj)?
Compares(w) == IF w = REF THEN state = "DOWN" ELSE state = "UP"

\* last_ref = m->stamp, last_osc = m->stamp.
Note(w, t) ==
    /\ last_ref' = IF w = REF THEN t ELSE last_ref
    /\ last_osc' = IF w = OSC THEN t ELSE last_osc

\* One turn of the loop in dpll_thread that finds a message, up to the phase
\* error: (double) (int64_t) (last_ref - last_osc).nsecs().
Handle ==
    /\ msgs # << >>
    /\ msgs' = Tail(msgs)
    /\ LET m == Head(msgs)
           w == m.which
       IN  /\ Note(w, FromClock(m.stamp))
           /\ heard' = [heard EXCEPT ![w] = m.stamp]
           /\ IF Compares(w)
              THEN /\ state' = "IDLE"
                   /\ phase_err' = SignedNsecs(Sub(last_ref', last_osc'), Word)
                   /\ pair' = heard'
              ELSE /\ state' = IF w = REF THEN "UP" ELSE "DOWN"
                   /\ phase_err' = phase_err
                   /\ pair' = pair
    /\ UNCHANGED <<clock, due, stamp, ticks>>

DetectorNext ==
    \/ \E w \in Which : Stamp(w) \/ EnqueueTick(w)
    \/ ClockTicks
    \/ Handle

DetectorSpec == DetectorInit /\ [][DetectorNext]_detectorVars
-----------------------------------------------------------------------------
\* The phase error is the signed difference of the two stamps compared, whichever
\* is earlier and whatever second boundary lies between them: the borrow of -=
\* and the unsigned arithmetic of nsecs() cancel out.
PhaseErrExact == phase_err = pair[REF] - pair[OSC]

\* Of two times, is every tick in between within the jitter of one of them?
Adjacent(a, b) ==
    \A x \in ticks :
      (a < x /\ x < b) \/ (b < x /\ x < a) =>
        \/ a - Jitter <= x /\ x <= a + Jitter
        \/ b - Jitter <= x /\ x <= b + Jitter

\* The ticks compared are adjacent ones, however osc_interval is steered and in
\* whatever order the sources enqueue, but for ticks that fall together: a tick
\* may lie between the two only if it is within the jitter of one of them, so
\* that its message was enqueued before or after that one against the order of
\* their stamps.  The detector is then a period off in that reading: REF 4 is
\* handled, REF 8 stamped, OSC 9 enqueued first and compared with REF 4.
PairsAdjacent == Adjacent(pair[REF], pair[OSC])
=============================================================================
