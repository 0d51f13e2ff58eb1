\* Three users call one ticker in every order; its pipe is full after two ticks
\* nobody reads.  One thread id more than threads that live at once.
SPECIFICATION Spec
CONSTANTS
    Users = {u1, u2, u3}
    Ids = {i1, i2}
    Cap = 2
INVARIANTS
    IdleIsClean
    OneLateTick
PROPERTIES
    StopReturns
    CreateReturns
