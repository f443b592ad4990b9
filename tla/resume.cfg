\* One sender, three chunks or none, three faults, an old file in the way.
SPECIFICATION Spec
CONSTANTS
    Absent = Absent
    Torn = Torn
    Senders = {s1}
    Byte <- MCByte
    Zero = 0
    Contents <- OrEmpty
    ChunkSize = 2
    ReadSize = 2
    kMaxChunkIndexes = 3
    SockBuf = 2
    Radix = 2
    StreamBuf = 2
    Sidecars <- WithGap
    Leftover <- ResumeJunk
    MaxFaults = 3
    MaxEdits = 0
PROPERTIES
    ImplementsAbstract
INVARIANTS
    TypeOK
    CheckpointSound
    GapsAreFound
    SafetyInv
