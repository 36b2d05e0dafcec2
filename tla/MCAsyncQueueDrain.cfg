CONSTANTS
    Instr = {i1, i2, i3}
    Thread = {t1, t2}
    NoInstr = NoInstr
    NoThread = NoThread
    Kinds <- CacheOnly
    Throwing = {i1}
    SpawnMayFail = FALSE
    MaxSem = 3
SPECIFICATION FairSpec
PROPERTY
    DrainReturns
