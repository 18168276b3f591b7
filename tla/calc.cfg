SPECIFICATION Spec
CONSTANTS
    Digits = {0, 2, 4}
    MaxAny = 5
    MaxPlain = 7
    Garbage = {0, 7}
INVARIANTS TypeOK ValueIsRight PlainNeverDies DisplaysAgree
CHECK_DEADLOCK FALSE
