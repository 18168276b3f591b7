SPECIFICATION FairSpec
CONSTANTS
    Text <- Word
    MaxFrames = 2
    Parts = {4, 12}
INVARIANTS TypeOK ShownIsLegible
PROPERTIES LastLetterStays
CHECK_DEADLOCK FALSE
