SPECIFICATION FairSpec
CONSTANTS
    a = a
    b = b
    NoClient = NoClient
    Client = {a}
    Patient = {}
    Plate <- Plates
    Line <- AllLines
    NumLots = 1
    NumGrids = 2
    HeapResidue <- DirtyHeap
    MaxInFlight = 2
    MaxLines = 4
    WriteTyped = FALSE
INVARIANTS SystemTypeOK CopyIsCurrent HeldSpotsExist
PROPERTIES HangUpNoticed
CHECK_DEADLOCK FALSE
