\* A file of more chunks than a request may list.
SPECIFICATION Spec
CONSTANTS
    Absent = Absent
    Torn = Torn
    Senders = {s1}
    Byte <- MCByte
    Zero = 0
    Contents <- OneFile
    ChunkSize = 2
    ReadSize = 2
    kMaxChunkIndexes = 2
    SockBuf = 2
    Radix = 2
    StreamBuf = 2
    Sidecars <- NoSidecar
    Leftover <- Nothing
    MaxFaults = 0
    MaxEdits = 0
INVARIANTS
    NoHonestReject
