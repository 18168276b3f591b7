SPECIFICATION FairSpec
CONSTANTS
    a = a
    b = b
    NoClient = NoClient
    Client = {a}
    Patient = {a}
    Plate <- Plates
    Line <- PoliteLinesAndExit
    NumLots = 1
    NumGrids = 2
    HeapResidue <- CleanHeap
    MaxInFlight = 1
    MaxLines = 7
    WriteTyped = FALSE
PROPERTIES PatientAnswered
CHECK_DEADLOCK FALSE
