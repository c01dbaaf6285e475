CONSTANTS
    w1 = w1
    w2 = w2
    Workers <- MCWorkers
    One = 5
    Rate = 2
    Second = 2
    Poll = 3
    MaxTime = 10
SPECIFICATION Spec
CHECK_DEADLOCK FALSE
INVARIANTS
    WindowBounded
    NobodyOversleeps
