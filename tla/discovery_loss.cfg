\* Four announcements in a row lost, everybody on time.
SPECIFICATION Spec
CONSTANTS
    me = me
    p = p
    q = q
    Absent = Absent
    Junk = Junk
    Broadcasters <- TwoPeers
    AddressOf <- OneAddress
    Self = {}
    Interval = 2
    StaleAfter = 10
    TableEvery = 3
    Poll = 1
    Late = 0
    MaxDelay = 0
    MaxLost = 4
    MaxCopies = 2
INVARIANTS
    StaysListed
    FoundInTime
    ListedInv
