\* Bytes of 16 values, integers of 1, 1 and 2 bytes, chunks of 2 bytes, and room
\* in the kernel for less than the longest message.
SPECIFICATION FairSpec
CONSTANTS
    Absent = Absent
    Sender = s1
    Plenty = 9
    Base = 16
    W16 = 1
    W32 = 1
    W64 = 2
    kMaxFilenameLength = 3
    kMaxChunkIndexes = 2
    DigestSize = 1
    kProtocolVersion = 1
    FileSizes = {0, 3, 4}
    Names <- ShortAndLong
    ChunkSize = 2
    Capacity = 13
CHECK_DEADLOCK FALSE
INVARIANTS
    NothingRefused
    ProgressExact
PROPERTIES
    ImplementsTcpLink
    BothEnd
