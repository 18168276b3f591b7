SPECIFICATION FairSpec
CONSTANTS
    UpperBound = 5
    IntMax = 9
INVARIANTS TypeOK SearchKeepsSecret BingoIsRight
PROPERTIES GameEnds
CHECK_DEADLOCK FALSE
