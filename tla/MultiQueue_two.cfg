\* Two queues, two senders, two messages, one receiver.
CONSTANTS
    t1 = t1
    t2 = t2
    m1 = m1
    m2 = m2
    Null = Null
    Senders <- MCSenders
    Messages <- MCMessages
    NumQueues = 2
    MaxValue = 3
SPECIFICATION Spec
INVARIANTS NoSleepOnMessage
PROPERTIES PriorityKept MessageServed TimedReturns
