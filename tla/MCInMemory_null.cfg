SPECIFICATION FairSpec
CONSTANTS
    Clients = {c1, c2}
    Keys = {k1, k2}
    Values <- MCValues
    Absent = Absent
    Requests <- MCRequests
    Deployments <- MCWithNull
    NoClient = NoClient
    MaxCalls = 1
PROPERTIES EveryCallReturns
CHECK_DEADLOCK FALSE
