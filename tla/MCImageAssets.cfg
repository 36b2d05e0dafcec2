CONSTANTS
    Key = {k1, k2, k3}
    Job = {j1, j2, j3}
    NoJob = NoJob
    NoKey = NoKey
    MaxPending = 3
SPECIFICATION Spec
SYMMETRY Symmetry
INVARIANTS
    TypeOK
    WaiterServed
    DemandFirst
    ClaimedIsWanted
    NothingOutdated
