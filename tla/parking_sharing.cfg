SPECIFICATION Spec
CONSTANTS
    a = a
    b = b
    NoClient = NoClient
    Client = {a, b}
    Patient = {}
    Plate <- Plates
    Line <- ShortLines
    NumLots = 1
    NumGrids = 2
    HeapResidue <- DirtyHeap
    MaxInFlight = 1
    MaxLines = 5
    WriteTyped = FALSE
INVARIANTS NoDoubleBooking
PROPERTIES ImplementsLedger
CHECK_DEADLOCK FALSE
