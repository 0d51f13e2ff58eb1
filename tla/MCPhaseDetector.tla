--------------------------- MODULE MCPhaseDetector ---------------------------
(* Small instances of PhaseDetector.                                       *)
EXTENDS PhaseDetector

MCOffsets    == 0 .. 4
MCOscPeriods == 3 .. 5
=============================================================================
