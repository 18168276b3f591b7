SPECIFICATION FairSpec
CONSTANTS
    a = a
    b = b
    NoClient = NoClient
    Client = {a}
    Patient = {a}
    Plate <- Plates
    Line <- ReportLines
    NumLots = 1
    NumGrids = 2
    HeapResidue <- CleanHeap
    MaxInFlight = 1
    MaxLines = 5
    WriteTyped = TRUE
INVARIANTS ReportIsComplete ReportedLotsExist
PROPERTIES PatientAnswered
CHECK_DEADLOCK FALSE
