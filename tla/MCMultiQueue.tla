---------------------------- MODULE MCMultiQueue ----------------------------
(* Small instances of MultiQueue.                                          *)
EXTENDS MultiQueue

CONSTANTS t1, t2, m1, m2

MCSenders  == {t1, t2}
MCMessages == {m1, m2}
=============================================================================
