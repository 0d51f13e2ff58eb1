\* Two threads share one pointer to one of two objects, each with up to two Locks
\* of up to two levels, waits and signals included.
SPECIFICATION Spec
CONSTANTS
    Threads = {t1, t2}
    Users = {t1, t2}
    Nobody = Nobody
    MaxLocks = 2
    MaxCount = 2
    Global = g
    Objects = {a, b}
    NULL = NULL
SYMMETRY Twins
INVARIANTS
    CountExact
    LocksHold
