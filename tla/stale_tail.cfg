\* The process dies once, with a longer old file at the output path.
SPECIFICATION FairSpec
CONSTANTS
    Absent = Absent
    Torn = Torn
    Senders = {s1}
    Byte <- MCByte
    Zero = 0
    Contents <- OneFile
    ChunkSize = 2
    ReadSize = 2
    kMaxChunkIndexes = 3
    SockBuf = 2
    Radix = 2
    StreamBuf = 0
    Sidecars <- NoSidecar
    Leftover <- LongJunk
    MaxFaults = 1
    MaxEdits = 0
PROPERTIES
    EventuallyVerified
