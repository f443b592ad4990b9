\* Two senders of different files, an edit and a fault.
SPECIFICATION Spec
CONSTANTS
    Absent = Absent
    Torn = Torn
    Senders = {s1, s2}
    Byte <- MCByte
    Zero = 0
    Contents <- ThreeFiles
    ChunkSize = 2
    ReadSize = 2
    kMaxChunkIndexes = 3
    SockBuf = 2
    Radix = 2
    StreamBuf = 2
    Sidecars <- NoSidecar
    Leftover <- Nothing
    MaxFaults = 1
    MaxEdits = 1
SYMMETRY SenderSymmetry
INVARIANTS
    VerifiedIsSource
    NoHonestReject
    PlanAgreement
    PlanInv
PROPERTIES
    ImplementsAbstract
