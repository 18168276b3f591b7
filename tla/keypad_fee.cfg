SPECIFICATION Spec
CONSTANTS
    NumLots = 2
    NumGrids = 1
    DigitAt <- Digits
INVARIANTS MarkedOnlyWhenReserved
