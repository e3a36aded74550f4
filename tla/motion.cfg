SPECIFICATION Scenarios
CONSTANTS
    Travel = 2
    SoftMax = 1
    Masks <- Both
    Goals <- SomeGoals
    Jogs <- SomeJogs
    Ops = {"move", "jog", "home", "stop", "estop", "lost", "disarm"}
    Input = TRUE
    MaxStall = 1
    MaxSlip = 1
INVARIANTS Referenced 
 
CONSTRAINT NotOvertaken
