CONSTANTS
    w1 = w1
    w2 = w2
    u1 = u1
    u2 = u2
    u3 = u3
    fOk = fOk
    fUnknown = fUnknown
    EmptyName = EmptyName
    NoUuid = NoUuid
    Workers <- MCWorkers
    Uuids <- MCUuids
    TableNames <- MCTableNames
    BoundNames <- MCBoundNames
    MaxKills = 1
SPECIFICATION Spec
SYMMETRY MCSymmetry
INVARIANTS
    GuestGetsOwnReply
