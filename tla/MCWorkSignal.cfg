CONSTANTS
    Producer = {p1, p2}
    MaxGen = 3
SPECIFICATION FairSpec
INVARIANT
    NoLostWakeup
PROPERTY
    WaitReturns
