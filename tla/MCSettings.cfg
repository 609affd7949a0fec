SPECIFICATION Spec
CONSTANTS
    c1 = c1
    c2 = c2
    k1 = k1
    k2 = k2
    Clients = {c1, c2}
    Keys = {k1, k2}
    Values <- MCValues
    Absent = Absent
    Requests <- MCRequests
    SettingsRequests <- MCCalls
    Uses <- MCUses
    MayFail = TRUE
INVARIANTS TypeOK TakeInv
PROPERTIES TakeIsAtomic
