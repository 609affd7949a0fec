SPECIFICATION Spec
CONSTANTS
    Sqls = {q1, q2}
    Names = {q1, q2}
    Name <- MCName
    Stmts = {s1}
    Results = {r1}
    Texts = {v1}
    ParamsCount = 2
    ColumnsCount = 2
    MaxRows = 1
    CachedOnly = TRUE
    None = None
INVARIANT GetReturnsContent
