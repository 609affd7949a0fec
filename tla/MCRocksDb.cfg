SPECIFICATION Spec
CONSTANTS
    Clients = {c1}
    Keys = {k1, k2}
    Values <- MCValues
    Absent = Absent
    Requests <- MCRequests
INVARIANTS TypeOK NoSilentLoss RemovedStaysRemoved
PROPERTY AtomicUnlessDegraded
