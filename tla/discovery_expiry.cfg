\* A peer and the listener itself, processes and datagrams up to a tick late.
SPECIFICATION Spec
CONSTANTS
    me = me
    p = p
    q = q
    Absent = Absent
    Junk = Junk
    Broadcasters <- PeerAndSelf
    AddressOf <- OwnAddress
    Self = {me}
    Interval = 10
    StaleAfter = 10
    TableEvery = 6
    Poll = 2
    Late = 1
    MaxDelay = 1
    MaxLost = 0
    MaxCopies = 1
INVARIANTS
    TypeOK
    GoneInTime
    TableInTime
    FoundInTime
    KeepsUp
