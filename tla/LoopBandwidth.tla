---------------------------- MODULE LoopBandwidth ----------------------------
(***************************************************************************)
(* The message handler of dpll_thread in dpll_sim2.cc: the pairing of      *)
(* messages, the 3-sigma filter, and the loop bandwidth that takes the     *)
(* place of the lock stages.  After an accepted reading the bandwidth is   *)
(* narrowed when the loop is calm and widened when it is not, capped at    *)
(* MAX_LOOP_BW, and kept above a floor that depends on the average error.  *)
(*                                                                         *)
(* The averages and slopes of the gains are abstracted to the outcome of   *)
(* their tests: calm, and the row of calc_min_bw that the average error    *)
(* selects.  The bandwidth is an integer in some unit; the factors 0.999   *)
(* and 1.001 are 1 - 1/Factor and 1 + 1/Factor, rounded down.              *)
(***************************************************************************)
EXTENDS OutlierFilter

CONSTANTS
    Factor,        \* 1000
    MAX_LOOP_BW,   \* 0.2
    Levels,        \* the rows of calc_min_bw, 0 for the smallest average error
    MinBw(_)       \* the floor of each row: 0.001, 0.005, 0.02, 0.08

ASSUME BandwidthAssumption ==
    /\ Factor \in Nat \ {0}
    /\ MAX_LOOP_BW \in Nat
    /\ 0 \in Levels
    /\ \A l \in Levels : MinBw(l) \in Nat /\ MinBw(0) <= MinBw(l) /\ MinBw(l) <= MAX_LOOP_BW

VARIABLES
    pd_state,    \* of the phase detector
    loop_bw,
    calm,        \* the slopes and the average of the last accepted reading were small
    err_level    \* the row that err_avg selected

bwVars  == <<loop_bw, calm, err_level>>
allVars == <<filterVars, pd_state, bwVars>>

BandwidthTypeOK ==
    /\ FilterTypeOK
    /\ pd_state \in {"IDLE", "UP", "DOWN"}
    /\ loop_bw \in 0 .. MAX_LOOP_BW
    /\ calm \in BOOLEAN
    /\ err_level \in Levels

BandwidthInit ==
    /\ FilterInit
    /\ pd_state = "IDLE"
    /\ loop_bw = MAX_LOOP_BW
    /\ calm = FALSE
    /\ err_level = 0

\* A message completes a pair: do_adj.
Completes(which) ==
    \/ which = "REF" /\ pd_state = "DOWN"
    \/ which = "OSC" /\ pd_state = "UP"

NextState(which) ==
    IF Completes(which) THEN "IDLE" ELSE IF which = "REF" THEN "UP" ELSE "DOWN"

\* loop_bw * 0.999 or loop_bw * 1.001.
Scaled(quiet) ==
    IF quiet THEN (loop_bw * (Factor - 1)) \div Factor
             ELSE (loop_bw * (Factor + 1)) \div Factor

\* Mutant: a bandwidth that would leave the band is not changed at all.
M_BoundedKeeps(bw, level) ==
    IF bw > MAX_LOOP_BW \/ bw < MinBw(level) THEN loop_bw ELSE bw

\* The cap, or else the floor of calc_min_bw.
Bounded(bw, level) ==
    IF bw > MAX_LOOP_BW THEN MAX_LOOP_BW
    ELSE IF bw < MinBw(level) THEN MinBw(level) ELSE bw

\* An accepted reading adjusts the loop and its bandwidth.
Adjust(quiet, level) ==
    /\ loop_bw' = Bounded(Scaled(quiet), level)
    /\ calm' = quiet
    /\ err_level' = level

\* A pair: the reading is skipped as an outlier, or adjusts the loop.
Pair(pe, quiet, level) ==
    /\ Reading(pe)
    /\ IF Outlier(pe) THEN UNCHANGED bwVars ELSE Adjust(quiet, level)

\* One message from q.
Message(which) ==
    /\ pd_state' = NextState(which)
    /\ IF Completes(which)
       THEN \E pe \in Readings, quiet \in BOOLEAN, level \in Levels : Pair(pe, quiet, level)
       ELSE UNCHANGED <<filterVars, bwVars>>

BandwidthNext == \E which \in {"REF", "OSC"} : Message(which)

BandwidthSpec == BandwidthInit /\ [][BandwidthNext]_allVars
-----------------------------------------------------------------------------
\* When pairs go on being accepted, a loop that stays calm with the smallest
\* errors ends at the narrowest bandwidth, and one that stays disturbed at the
\* widest: no outlier, rounding, cap or floor stops it on the way.
Accepting == []<><<pd_state' = "IDLE" /\ ~skipped'>>_allVars

BandwidthSettles ==
    /\ Accepting /\ <>[](calm /\ err_level = 0) => <>[](loop_bw = MinBw(0))
    /\ Accepting /\ <>[]~calm => <>[](loop_bw = MAX_LOOP_BW)
=============================================================================
