SPECIFICATION FairSpec
CONSTANTS
    Streams = {s1, s2}
    MaxChunks = 2
INVARIANTS
    ReadersAreListening
PROPERTIES
    NothingReadLateIsReleased
    AccessIsReceipted
    RevocationCloses
CHECK_DEADLOCK FALSE
