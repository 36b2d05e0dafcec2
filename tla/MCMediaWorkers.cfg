CONSTANTS
    Films <- MCFilms
    PacketCap <- MCPacketCap
    FrameCap <- MCFrameCap
    CodecDelay = 1
    MaxLate = 3
SPECIFICATION Spec
INVARIANT
    WorkersCounted
