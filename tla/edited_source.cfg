\* The file is edited once, and both programs are started again and again.
SPECIFICATION FairSpec
CONSTANTS
    Absent = Absent
    Torn = Torn
    Senders = {s1}
    Byte <- MCByte
    Zero = 0
    Contents <- ThreeFiles
    ChunkSize = 2
    ReadSize = 2
    kMaxChunkIndexes = 3
    SockBuf = 2
    Radix = 2
    StreamBuf = 0
    Sidecars <- NoSidecar
    Leftover <- Nothing
    MaxFaults = 0
    MaxEdits = 1
PROPERTIES
    EventuallyVerified
