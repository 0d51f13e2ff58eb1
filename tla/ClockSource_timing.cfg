\* A second of 8 units with a nominal period of 4: the aligned reference meets
\* the second boundary in every other round, the oscillator from any phase.
\* The thread ends, hence no deadlock check.
CONSTANTS
    REF = REF
    OSC = OSC
    NSEC = 8
    KILO = 2
    INTERVAL = 4
    JITTER = 2
    EARLY = 1
    MIN_INTERVAL = 3
    MAX_INTERVAL = 5
    MaxNow = 20
    Settings <- MCSettings
    Starts <- MCStarts
SPECIFICATION Spec
CHECK_DEADLOCK FALSE
INVARIANTS NoDrift SleepsToTheAlarm StampedWhenDue
PROPERTIES PeriodInRange
