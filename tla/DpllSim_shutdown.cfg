\* Five buffers and a backlog of up to three ticks, prompt threads and
\* any other scheduling: start, run and shutdown.
CONSTANTS
    REF = REF
    OSC = OSC
    DPLL = DPLL
    Null = Null
    NumBuffers = 5
    MaxBacklog = 3
    MaxOwed = 3
SPECIFICATION Spec
INVARIANTS BuffersConserved SourcesOutlast
PROPERTIES Terminates SentIsHandled
