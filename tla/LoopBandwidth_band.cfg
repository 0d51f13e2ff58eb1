\* A ring of five readings that wraps, a filter from three readings on, and a
\* bandwidth of 2 .. 11 with two floors.
SPECIFICATION BandwidthSpec
CONSTANTS
    hist_size = 5
    MinHistory = 3
    Readings <- MCReadings
    Factor = 2
    MAX_LOOP_BW = 11
    Levels <- MCLevels
    MinBw <- MCMinBw
INVARIANTS
    RingIsWindow
    SlopeExact
    CommonAccepted
PROPERTIES
    BandwidthSettles
