--------------------------- MODULE MCClockSource ---------------------------
(* Small instances of ClockSource: a second of eight nanoseconds.          *)
EXTENDS ClockSource, Timeval

MCSettings == {2, 4, 6}
MCStarts   == 7 .. 9
=============================================================================
