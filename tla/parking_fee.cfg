SPECIFICATION Spec
CONSTANTS
    a = a
    b = b
    NoClient = NoClient
    Client = {a}
    Patient = {a}
    Plate <- Plates
    Line <- PoliteLines
    NumLots = 1
    NumGrids = 2
    HeapResidue <- CleanHeap
    MaxInFlight = 1
    MaxLines = 7
    WriteTyped = FALSE
INVARIANTS BilledIsCharged
CHECK_DEADLOCK FALSE
