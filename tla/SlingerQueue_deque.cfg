\* Three threads, each of them sender and receiver at will, two messages and
\* the uSecs the documentation tells apart, under fair scheduling: safety,
\* refinement of the abstract deque with its fairness, liveness of receivers.
CONSTANTS
    t1 = t1
    t2 = t2
    t3 = t3
    m1 = m1
    m2 = m2
    Null = Null
    Threads <- MCThreads
    Messages <- MCMessages
    ClientWaits <- Waiting
SPECIFICATION Spec
INVARIANTS NoLostWakeup
PROPERTIES ImplementsDeque TimedDequeueReturns QueuedMessageMoves
