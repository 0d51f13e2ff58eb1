----------------------------- MODULE LockStages -----------------------------
(***************************************************************************)
(* The lock stages of dpll_thread: what a message that completes a pair    *)
(* does to the loop.  A reading that the 3-sigma filter rejects is skipped *)
(* whole; any other one adjusts the oscillator and is judged good (both    *)
(* the accumulated error and the deviation of the adjustments are below    *)
(* the stage's thresholds) or bad.  Good readings count towards the next   *)
(* stage, which is entered at a sign change of the accumulated error;      *)
(* good ones for too long without one, or bad ones for too long, count     *)
(* towards the previous stage.                                             *)
(*                                                                         *)
(* The numbers (phase error, gains, standard deviations) are abstracted to *)
(* the outcomes of the tests made on them: whether a reading is rejected,  *)
(* the sign of accum_err after it, and whether it is good.                 *)
(***************************************************************************)
EXTENDS Integers

CONSTANTS
    NUM_STAGES,
    lock_thresh_count, lock_fail_count, unlock_thresh_count,
                   \* the counts of stage_params, functions of the stage
    HistorySize,   \* of phase_err_history: 100
    MinHistory,    \* the readings the filter needs: 30
    MaxCount        \* bound: counters stop there, above every threshold

Stages == 0 .. NUM_STAGES - 1
Last   == NUM_STAGES - 1

ASSUME StagesAssumption ==
    /\ NUM_STAGES \in Nat \ {0}
    /\ lock_thresh_count \in [Stages -> Nat \ {0}]
    /\ lock_fail_count \in [Stages -> Nat \ {0}]
    /\ unlock_thresh_count \in [Stages -> Nat \ {0}]
    /\ \A i \in Stages : lock_thresh_count[i] < lock_fail_count[i]
    /\ HistorySize \in Nat /\ MinHistory \in 1 .. HistorySize
    /\ MaxCount \in Nat
    /\ \A i \in Stages : lock_fail_count[i] <= MaxCount /\ unlock_thresh_count[i] <= MaxCount

VARIABLES
    stage, lock_count, unlock_count,
    negative,    \* the sign of prev_accum_err
    got,         \* readings in phase_err_history
    goodRun,     \* ghost: good readings in a row since the stage was entered
    badRun,      \* ghost: bad readings in a row since the stage was entered
    quiet,       \* ghost: readings in a row without a sign change
    lastGood     \* ghost: the last reading was good

ghosts == <<goodRun, badRun, quiet, lastGood>>
stagesVars   == <<stage, lock_count, unlock_count, negative, got, ghosts>>

\* The array index and the counters.
StagesTypeOK ==
    /\ stage \in Stages
    /\ lock_count \in Nat /\ unlock_count \in Nat
    /\ negative \in BOOLEAN
    /\ got \in 0 .. HistorySize
    /\ goodRun \in Nat /\ badRun \in Nat /\ quiet \in Nat
    /\ lastGood \in BOOLEAN

StagesInit ==
    /\ stage = 0 /\ lock_count = 0 /\ unlock_count = 0
    /\ negative = FALSE
    /\ got = 0
    /\ goodRun = 0 /\ badRun = 0 /\ quiet = 0 /\ lastGood = FALSE

\* "OUTLIER DETECTED, SKIPPED": only once the history is long enough.
Outlier ==
    /\ got >= MinHistory
    /\ UNCHANGED stagesVars

\* The counters count up to the bound: no comparison tells them apart beyond.
Count(n) == IF n < MaxCount THEN n + 1 ELSE n

\* Mutant: the next stage is entered without waiting for the sign change.
M_AdvanceAnywhere(crossed) ==
    /\ lock_count >= lock_thresh_count[stage]
    /\ stage' = IF stage < Last THEN stage + 1 ELSE stage
    /\ lock_count' = 0

\* ae_sign_changed && lock_count >= lock_thresh_count.
Advance(crossed) ==
    /\ crossed /\ lock_count >= lock_thresh_count[stage]
    /\ stage' = IF stage < Last THEN stage + 1 ELSE stage
    /\ lock_count' = 0

\* Mutant: the count that fails a stage is compared with the wrong threshold.
M_HoldFailsEarly(crossed) ==
    /\ ~ (crossed /\ lock_count >= lock_thresh_count[stage])
    /\ IF stage \in 1 .. Last - 1 /\ lock_count + 1 >= lock_thresh_count[stage]
       THEN stage' = stage - 1 /\ lock_count' = 0
       ELSE /\ stage' = stage
            /\ lock_count' = IF stage < Last THEN Count(lock_count) ELSE lock_count

\* The other good readings: too many of them without advancing lead back.
Hold(crossed) ==
    /\ ~ (crossed /\ lock_count >= lock_thresh_count[stage])
    /\ IF stage \in 1 .. Last - 1 /\ lock_count + 1 >= lock_fail_count[stage]
       THEN stage' = stage - 1 /\ lock_count' = 0
       ELSE /\ stage' = stage
            /\ lock_count' = IF stage < Last THEN Count(lock_count) ELSE lock_count

\* Mutant: unlock_count survives a good reading.
M_GoodKeepsUnlock(crossed) ==
    /\ unlock_count' = unlock_count
    /\ Advance(crossed) \/ Hold(crossed)

\* good_count == 2.
Good(crossed) ==
    /\ unlock_count' = 0
    /\ Advance(crossed) \/ Hold(crossed)

\* The others: too many in a row lead back, except from stage 0.
Bad ==
    /\ lock_count' = 0
    /\ IF stage > 0 /\ unlock_count + 1 >= unlock_thresh_count[stage]
       THEN stage' = stage - 1 /\ unlock_count' = 0
       ELSE stage' = stage /\ unlock_count' = Count(unlock_count)

\* The ghosts, from the readings alone.
Observe(good, crossed) ==
    LET entered == stage' # stage
    IN  /\ goodRun' = IF good /\ ~ entered THEN Count(goodRun) ELSE 0
        /\ badRun'  = IF ~ good /\ ~ entered THEN Count(badRun) ELSE 0
        /\ quiet'   = IF crossed THEN 0 ELSE Count(quiet)
        /\ lastGood' = good

\* A reading that is not skipped.
Accept ==
    \E good \in BOOLEAN :
      /\ negative' \in BOOLEAN
      /\ got' = IF got < HistorySize THEN got + 1 ELSE got
      /\ IF good THEN Good(negative' # negative) ELSE Bad
      /\ Observe(good, negative' # negative)

StagesNext == Accept \/ Outlier
StagesSafeSpec == StagesInit /\ [][StagesNext]_stagesVars
\* Pairs keep coming and not all of them are outliers for ever.
StagesSpec     == StagesSafeSpec /\ WF_stagesVars(Accept)
-----------------------------------------------------------------------------
\* A good and a bad run are never counted at once, so neither is continued
\* across a reading of the other kind.
ExclusiveCounts == lock_count = 0 \/ unlock_count = 0

\* No stage that can be left downwards is entered with, or holds, a count that
\* should already have left it, although thresholds differ between stages.
BoundedCounts ==
    stage > 0 => /\ lock_count < lock_fail_count[stage]
                 /\ unlock_count < unlock_thresh_count[stage]

\* README: the loop "will not transition to the next stage until it observes a
\* zero-crossing in the accumulated error"; and not before enough good readings
\* in a row, all of them in the stage it leaves.
UpEarned ==
    [][stage' > stage =>
         /\ stage' = stage + 1
         /\ negative' # negative
         /\ goodRun >= lock_thresh_count[stage]]_stagesVars

\* A stage is given up only after enough bad readings in a row within it, or
\* (except the last) after enough good ones of which the last, from the count
\* that would have let it advance, brought no sign change.
DownEarned ==
    [][stage' < stage =>
         /\ stage' = stage - 1
         /\ \/ badRun + 1 >= unlock_thresh_count[stage]
            \/ /\ stage < Last
               /\ goodRun + 1 >= lock_fail_count[stage]
               /\ quiet' >= lock_fail_count[stage] - lock_thresh_count[stage]]_stagesVars

\* Readings that are good and change the sign often enough for every stage.
Steady ==
    /\ lastGood
    /\ \A i \in Stages : quiet < lock_fail_count[i] - lock_thresh_count[i]

\* README: the loop "progressively advances to stages with narrower bandwidths":
\* once the readings are steady it reaches the last stage and stays there.
Settles == <>[]Steady => <>[](stage = Last)
=============================================================================
