SPECIFICATION Scenarios
CONSTANTS
    Ops = {"arm", "disarm", "estop", "stop"}
    MaxActions = 2
    MaxLinks = 2
    MaxUp = 1
    SprayEnabled = TRUE
    PushConfig = TRUE
INVARIANTS  EstopSticks  AckedMeansActed
