\* A short last chunk stays in the stream's buffer while the process dies.
SPECIFICATION Spec
CONSTANTS
    Absent = Absent
    Torn = Torn
    Senders = {s1}
    Byte <- MCByte
    Zero = 0
    Contents <- OneFile
    ChunkSize = 2
    ReadSize = 2
    kMaxChunkIndexes = 3
    SockBuf = 2
    Radix = 2
    StreamBuf = 2
    Sidecars <- NoSidecar
    Leftover <- Nothing
    MaxFaults = 1
    MaxEdits = 0
INVARIANTS
    CompletedIsWritten
