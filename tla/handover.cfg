SPECIFICATION Spec
CONSTANT N = 3
INVARIANTS StarMeansRead
CHECK_DEADLOCK FALSE
