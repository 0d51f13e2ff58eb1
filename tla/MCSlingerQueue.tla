--------------------------- MODULE MCSlingerQueue ---------------------------
(* Small instances of SlingerQueue.                                        *)
EXTENDS SlingerQueue

CONSTANTS t1, t2, t3, m1, m2

MCThreads   == {t1, t2, t3}
MCMessages  == {m1, m2}
AllWaits    == WaitClasses
Waiting     == {"zero", "forever", "timed"}
=============================================================================
