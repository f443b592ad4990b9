\* Two senders of one file, write-through stream, two faults, an old file of
\* the same size in the way.
SPECIFICATION FairSpec
CONSTANTS
    Absent = Absent
    Torn = Torn
    Senders = {s1, s2}
    Byte <- MCByte
    Zero = 0
    Contents <- TwoChunks
    ChunkSize = 2
    ReadSize = 4
    kMaxChunkIndexes = 3
    SockBuf = 2
    Radix = 2
    StreamBuf = 0
    Sidecars <- SecondOnly
    Leftover <- HalfJunk
    MaxFaults = 2
    MaxEdits = 0
PROPERTIES
    EventuallyVerified
    RunsEnd
