SPECIFICATION Spec
CONSTANTS
    Texts = {t1, t2}
    Handles = {h1, h2, h3}
    Stmts = {s1, s2}
    Results = {r1, r2}
    None = None
SYMMETRY Symmetry
INVARIANTS
    TypeOK
    HandlesOwned
    RowsAreOwn
    NothingLeftRunning
PROPERTY
    SharesNothing
CHECK_DEADLOCK TRUE
