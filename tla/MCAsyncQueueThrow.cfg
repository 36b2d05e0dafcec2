CONSTANTS
    Instr = {i1, i2, i3}
    Thread = {t1, t2}
    NoInstr = NoInstr
    NoThread = NoThread
    Kinds <- AllKinds
    Throwing = {i1}
    SpawnMayFail = TRUE
    MaxSem = 3
SPECIFICATION Spec
INVARIANTS
    Coherent
    ResultIsOwn
    UnitsCoverQueue
    StopLeavesNothing
