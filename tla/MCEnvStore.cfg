SPECIFICATION FairSpec
CONSTANTS
    k1 = k1
    k2 = k2
    Clients = {c1, c2}
    Keys = {k1, k2}
    Values <- MCValues
    Absent = Absent
    Requests <- MCRequests
    NoClient = NoClient
INVARIANTS TypeOK OneWriter WriterSeesAll
PROPERTIES AtomicAndDurable EveryTxnEnds
