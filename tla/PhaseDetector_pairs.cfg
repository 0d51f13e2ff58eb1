\* Three reference periods of 4 nanoseconds, oscillator periods of 3 to 5 that
\* change in every round, seconds of 6, every phase of the oscillator,
\* ticks up to 2 late.
\* The clock stops at MaxClock, hence no deadlock check.
CONSTANTS
    REF = REF
    OSC = OSC
    NSEC = 6
    Period = 4
    OscPeriods <- MCOscPeriods
    MaxOscPeriod = 5
    Jitter = 2
    Offsets <- MCOffsets
    Word = 64
    MaxClock = 15
SPECIFICATION DetectorSpec
CHECK_DEADLOCK FALSE
INVARIANTS PhaseErrExact PairsAdjacent
