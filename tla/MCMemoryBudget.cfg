CONSTANTS
    Charge = {c1, c2}
    Kind = {images, prefetch, pools}
    Prefetch = prefetch
    Pools = pools
    Configured = 4
    Word = 16
    Sizes = {1, 3}
    MaxPolls = 2
    images = images
    prefetch = prefetch
    pools = pools
SPECIFICATION FairSpec
INVARIANTS Accounts WithinLimit
PROPERTIES PressureServed RestrictionEnds
