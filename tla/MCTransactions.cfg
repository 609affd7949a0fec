SPECIFICATION Spec
CONSTANTS
    Items = {i1, i2}
    Usages <- MCUsages
    MaxDepth = 2
INVARIANTS TypeOK SuccessCommits FailureUndoes RemovesAllOrNone LeftOpenByThrowOnly
