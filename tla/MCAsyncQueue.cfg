CONSTANTS
    Instr = {i1, i2, i3}
    Thread = {t1, t2}
    NoInstr = NoInstr
    NoThread = NoThread
    Kinds <- AllKinds
    Throwing = {}
    SpawnMayFail = FALSE
    MaxSem = 3
SPECIFICATION FairSpec
INVARIANTS
    TypeOK
    OneWorker
    NoStrandedWork
    UnitsCoverQueue
    HandleRetained
    Attended
    StopLeavesNothing
PROPERTIES
    ImplementsWorkQueue
    CallsReturn
