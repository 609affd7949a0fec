SPECIFICATION MCSpec
CONSTANTS
    k1 = k1
    k2 = k2
    Clients = {c1, c2}
    Keys = {k1, k2}
    Values <- MCValues
    Absent = Absent
    Half <- MCHalf
    Widened <- MCWidened
    Narrowed <- MCNarrowed
    NaNs <- MCNaNs
    Whole <- MCWhole
    Strings <- MCStrings
    Rounded <- MCRounded
    Shown <- MCShown
    KeyType <- MCKeyType
    Requests <- MCRequests
    Faults = {"exec"}
SYMMETRY Symmetry
INVARIANTS
    TypeOK FailsOnceMore BehindOnARow
    DeclaredColumnReads NoOtherNumber RecordReads
    ColumnKeepsOrRefuses NoOtherInteger
PROPERTIES Linearizable
