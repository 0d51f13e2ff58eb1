--------------------------- MODULE MCLoopBandwidth ---------------------------
(* LoopBandwidth with a short history, a few readings on both sides of 0, and *)
(* two rows of floors far enough below the cap to be reached from above.      *)
EXTENDS LoopBandwidth

MCReadings == {-2, 0, 1}
MCLevels   == {0, 1}
MCMinBw(l) == IF l = 0 THEN 2 ELSE 6
=============================================================================
