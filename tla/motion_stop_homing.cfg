SPECIFICATION Homing
CONSTANTS
    Travel = 2
    SoftMax = 1
    Masks <- Both
    Goals <- SomeGoals
    Jogs <- SomeJogs
    Ops = {"home", "stop"}
    Input = FALSE
    MaxStall = 1
    MaxSlip = 1
INVARIANT StopEndsHoming
