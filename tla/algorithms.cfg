\* Bytes of 16 values and integers of 1, 1 and 2 bytes; paths of 5 characters;
\* binary port numbers; hash blocks of 8 bytes.
SPECIFICATION Spec
CONSTANTS
    Absent = Absent
    Base = 16
    W16 = 1
    W32 = 1
    W64 = 2
    kMaxFilenameLength = 3
    kMaxChunkIndexes = 2
    DigestSize = 1
    SentNames <- EachLength
    kProtocolVersion = 1
    Separators = {"/"}
    Allowed = {".", "_", "p"}
    Others = {"?"}
    DefaultName <- LetterP
    Received <- ReceivedPrefix
    Suffix <- CheckpointSuffix
    TmpSuffix <- TmpEnding
    MaxPath = 5
    Digits <- Binary
    Fields <- SmallFields
    MaxFields = 5
    kDiscoveryMarker <- MarkerField
    kVersion = 1
    kMaxPeerNameLength = 1
    DefaultPeerName <- OneLetter
    MaxPort = 2
    MaxUnsigned = 3
    NoPeer = NoPeer
    Block = 8
    LengthBytes = 2
    ReadSize = 16
    Radix = 32
    Lengths = {0, 1, 4, 5, 6, 7, 8, 13, 14, 15, 16, 17, 21, 22, 31, 32, 33, 40, 45, 46, 47, 48, 49}
CHECK_DEADLOCK FALSE
INVARIANTS
    WidthsSuffice
    TripsAreExact
    NamesAreSafe
    PathsMeet
    AnnouncementsParse
    OnlyAnnouncementsParse
    DigestsWholeFile
