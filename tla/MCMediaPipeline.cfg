CONSTANTS
    Films <- MCFilms
    PacketCap <- MCPacketCap
    FrameCap <- MCFrameCap
    CodecDelay = 1
    MaxLate = 3
SPECIFICATION FairSpec
INVARIANTS
    TypeOK
    NothingFreedInUse
    QueuesBounded
    LastFrameShown
PROPERTIES
    FramesInOrder
    LoadReturns
    PlaybackEnds
    StopReturns
