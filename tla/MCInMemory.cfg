SPECIFICATION FairSpec
CONSTANTS
    Clients = {c1, c2}
    Keys = {k1, k2}
    Values <- MCValues
    Absent = Absent
    Requests <- MCRequests
    Deployments <- MCSerialized
    NoClient = NoClient
    MaxCalls = 2
INVARIANTS TypeOK NoDataRace
PROPERTIES Linearizable EveryCallReturns
