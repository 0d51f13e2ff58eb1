---------------------------- MODULE OutlierFilter ----------------------------
(***************************************************************************)
(* phase_err_history and the 3-sigma filter of dpll_thread, with           *)
(* stats_history (lib/stddev.h): a ring buffer of the last hist_size       *)
(* readings, its average, standard deviation and slope.                    *)
(*                                                                         *)
(* Readings are integers.  Averages and variances are fractions, so each   *)
(* comparison is multiplied out: with n readings, sum S and               *)
(* D = the sum of (n * x - S)^2, the average is S / n and the variance     *)
(* D / n^3.  Floating-point rounding is left out.                          *)
(***************************************************************************)
EXTENDS Integers, FiniteSets, Sequences

CONSTANTS
    hist_size,    \* 100
    MinHistory,   \* the readings the filter needs: 30
    Readings      \* the phase errors there can be

ASSUME FilterAssumption ==
    /\ hist_size \in Nat \ {0}
    /\ MinHistory \in 1 .. hist_size
    /\ Readings \subseteq Int

Slots == 0 .. hist_size - 1

VARIABLES
    history, pos, got,   \* of stats_history
    last_err,            \* phase_err: the reading handled last
    skipped,             \* ... was rejected as an outlier
    window               \* ghost: the readings accepted last, oldest first

filterVars == <<history, pos, got, last_err, skipped, window>>

FilterTypeOK ==
    /\ history \in [Slots -> Readings \cup {0}]
    /\ pos \in Slots
    /\ got \in 0 .. hist_size
    /\ last_err \in Readings \cup {0}
    /\ skipped \in BOOLEAN
    /\ window \in Seq(Readings)

\* reset().
FilterInit ==
    /\ history = [i \in Slots |-> 0]
    /\ pos = 0 /\ got = 0
    /\ last_err = 0 /\ skipped = FALSE
    /\ window = << >>

\* for (i = 0; i < n; i++) sum += f[i].
SumUpTo(f, n) ==
    LET sum[i \in 0 .. n] == IF i = 0 THEN 0 ELSE sum[i - 1] + f[i - 1]
    IN  sum[n]

Square(x) == x * x

\* average() and calc_variance(): got times the average, got^3 times the variance.
Total     == SumUpTo(history, got)
Deviation == SumUpTo([i \in Slots |-> Square(got * history[i] - Total)], got)

\* Mutant: readings are compared with one standard deviation.
M_OutlierOneSigma(pe) == got >= MinHistory /\ got * Square(got * pe - Total) > Deviation

\* count() >= 30 and fabs(phase_err - pe_av) > 3.0 * pe_sd.
Outlier(pe) == got >= MinHistory /\ got * Square(got * pe - Total) > 9 * Deviation

\* Mutant: the first slot is used on the first pass only.
M_NextPosSkips == IF pos + 1 >= hist_size THEN 1 % hist_size ELSE pos + 1

\* if (++pos >= hist_size) pos = 0.
NextPos == IF pos + 1 >= hist_size THEN 0 ELSE pos + 1

\* phase_err_history.add(phase_err).
AddReading(pe) ==
    /\ history' = [history EXCEPT ![pos] = pe]
    /\ pos' = NextPos
    /\ got' = IF got < hist_size THEN got + 1 ELSE got
    /\ window' = Append(IF Len(window) = hist_size THEN Tail(window) ELSE window, pe)

\* A message completes a pair.
Reading(pe) ==
    /\ last_err' = pe
    /\ skipped' = Outlier(pe)
    /\ IF Outlier(pe)
       THEN UNCHANGED <<history, pos, got, window>>
       ELSE AddReading(pe)

FilterNext == \E pe \in Readings : Reading(pe)

FilterSpec == FilterInit /\ [][FilterNext]_filterVars
-----------------------------------------------------------------------------
\* Mutant: the oldest reading is looked for in the first slot.
M_OldestFirst == 0

\* slope(), as its numerator and denominator: the readings are taken from the
\* oldest on, wherever the ring begins.
OldestSlot == IF got < hist_size THEN 0 ELSE pos

Chronological == [i \in Slots |-> history[(OldestSlot + i) % hist_size]]

SlopeNumerator ==
    got * SumUpTo([i \in Slots |-> i * Chronological[i]], got)
      - SumUpTo([i \in Slots |-> i], got) * SumUpTo(Chronological, got)
SlopeDenominator ==
    got * SumUpTo([i \in Slots |-> i * i], got) - Square(SumUpTo([i \in Slots |-> i], got))

\* The least-squares slope of readings made at times 1 .. n, from its definition
\* by deviations from the means, n^2 times numerator and denominator.
SeqSum(s) == LET sum[i \in 0 .. Len(s)] == IF i = 0 THEN 0 ELSE sum[i - 1] + s[i] IN sum[Len(s)]

FitsWindow(num, den) ==
    LET n  == Len(window)
        dx == [i \in 1 .. n |-> n * i - SeqSum([k \in 1 .. n |-> k])]
        dy == [i \in 1 .. n |-> n * window[i] - SeqSum(window)]
    IN  SeqSum([i \in 1 .. n |-> dx[i] * dy[i]]) * den
          = num * SeqSum([i \in 1 .. n |-> Square(dx[i])])

-----------------------------------------------------------------------------
\* However often the ring has wrapped, its first "got" slots hold exactly the
\* readings accepted last, as many as fit: a rejected reading leaves no trace.
RingIsWindow ==
    /\ got = Len(window)
    /\ \A i \in 1 .. got : Chronological[i - 1] = window[i]

\* slope() is the least-squares slope of the readings in the order they came.
SlopeExact == got >= 2 => SlopeDenominator > 0 /\ FitsWindow(SlopeNumerator, SlopeDenominator)

\* The filter rejects what is rare only (the 3 sigma of dpll_sim.cc:283, by
\* Chebyshev's bound): a reading that a ninth of the history agrees with is
\* accepted, so of two levels the phase alternates between neither is cut off.
Agreeing == {i \in 1 .. Len(window) : window[i] = last_err}
CommonAccepted == skipped => 9 * Cardinality(Agreeing) < got
=============================================================================
