SPECIFICATION FairSpec
CONSTANTS
    c1 = c1
    c2 = c2
    c3 = c3
    NoConn = NoConn
    Conn = {c1, c2, c3}
    Request <- AllLetters
    ThreadLimit = 2
    MaxStarts = 2
INVARIANTS TypeOK RefusedOnlyAfterKill NoLostUpdate MutualExclusion
PROPERTIES RequestSettled ImplementsAccount
CHECK_DEADLOCK FALSE
