CONSTANTS
    Key = {k1, k2}
    Job = {j1, j2}
    NoJob = NoJob
    NoKey = NoKey
    MaxPending = 2
SPECIFICATION FairSpec
PROPERTY
    DemandReturns
